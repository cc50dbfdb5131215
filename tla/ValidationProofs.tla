-------------------------- MODULE ValidationProofs --------------------------
(***************************************************************************)
(* The report of validate is complete, for arguments of any breadth and    *)
(* depth, any patterns and any paths that one may look along.              *)
(***************************************************************************)
EXTENDS Validation, SequenceTheorems, FiniteSetTheorems, WellFoundedInduction, TLAPS

-----------------------------------------------------------------------------
(* Induction over the numbers, with a set for the induction hypothesis. *)

LEMMA LeastNumber ==
    ASSUME NEW T, T \subseteq Nat, T # {}
    PROVE  \E x \in T : \A y \in T : ~(y < x)
    <1> DEFINE R == {ss \in Nat \X Nat : ss[1] < ss[2]}
    <1>1. IsWellFoundedOn(R, Nat)
        BY NatLessThanWellFounded DEF OpToRel
    <1>2. \A x, y \in Nat : y < x => <<y, x>> \in R
        OBVIOUS
    <1> HIDE DEF R
    <1>3. PICK x \in T : \A y \in T : ~(<<y, x>> \in R)
        BY <1>1, WFMin
    <1> QED
        BY <1>2, <1>3

LEMMA SetInduction ==
    ASSUME NEW S, 0 \in S, \A n \in Nat : n \in S => n + 1 \in S
    PROVE  Nat \subseteq S
    <1> DEFINE T == {n \in Nat : n \notin S}
    <1>1. CASE T # {}
        <2>1. PICK x \in T : \A y \in T : ~(y < x)
            BY <1>1, LeastNumber
        <2>2. x \in Nat /\ x # 0 /\ x - 1 \in Nat /\ x - 1 < x
            BY <2>1
        <2>3. x - 1 \in S
            BY <2>1, <2>2
        <2> QED
            BY <2>1, <2>2, <2>3
    <1> QED
        BY <1>1

-----------------------------------------------------------------------------
(* The walk along a path. *)

\* The walk is what its recursive definition says.
LEMMA WalkExists ==
    ASSUME NEW path \in Path
    PROVE  Walk(path) = [i \in 0 .. Len(path) |->
                            IF i = 0 THEN arguments
                            ELSE Child(Walk(path)[i - 1], path[i])]
    <1> DEFINE Along(g, k) ==
                   \A i \in 0 .. k :
                      g[i] = IF i = 0 THEN arguments ELSE Child(g[i - 1], path[i])
               S == {k \in Nat : \E g : Along(g, k)}
    <1>1. 0 \in S
        <2> DEFINE g == [i \in 0 .. 0 |-> arguments]
        <2>1. Along(g, 0)
            OBVIOUS
        <2> HIDE DEF g
        <2> QED
            BY <2>1
    <1>2. ASSUME NEW k \in Nat, k \in S
          PROVE  k + 1 \in S
        <2>1. PICK g : Along(g, k)
            BY <1>2
        <2> DEFINE h == [i \in 0 .. k + 1 |->
                            IF i = k + 1 THEN Child(g[k], path[k + 1]) ELSE g[i]]
        <2>2. /\ h[k + 1] = Child(g[k], path[k + 1])
              /\ \A i \in 0 .. k : h[i] = g[i]
            OBVIOUS
        <2> HIDE DEF h
        <2>3. ASSUME NEW i \in 0 .. k + 1
              PROVE  h[i] = IF i = 0 THEN arguments ELSE Child(h[i - 1], path[i])
            <3>1. CASE i = k + 1
                <4>1. i - 1 = k /\ i # 0 /\ k \in 0 .. k
                    BY <3>1
                <4> QED
                    BY <2>2, <3>1, <4>1
            <3>2. CASE i \in 0 .. k
                <4>1. i = 0 \/ i - 1 \in 0 .. k
                    BY <3>2
                <4> QED
                    BY <2>1, <2>2, <3>2, <4>1
            <3> QED
                BY <3>1, <3>2
        <2>4. Along(h, k + 1)
            BY <2>3
        <2> QED
            BY <2>4
    <1>3. Len(path) \in S
        <2> HIDE DEF S
        <2>1. Nat \subseteq S
            BY <1>1, <1>2, SetInduction
        <2> QED
            BY <2>1 DEF Path
    <1>4. PICK g : Along(g, Len(path))
        BY <1>3
    <1> DEFINE w == [i \in 0 .. Len(path) |-> g[i]]
    <1>5. ASSUME NEW i \in 0 .. Len(path)
          PROVE  w[i] = IF i = 0 THEN arguments ELSE Child(w[i - 1], path[i])
        <2>1. i = 0 \/ i - 1 \in 0 .. Len(path)
            BY DEF Path
        <2> QED
            BY <1>4, <2>1
    <1>6. w = [i \in 0 .. Len(path) |->
                  IF i = 0 THEN arguments ELSE Child(w[i - 1], path[i])]
        BY <1>5
    <1> HIDE DEF w
    <1> QED
        BY <1>6 DEF Walk

LEMMA WalkSteps ==
    ASSUME NEW path \in Path
    PROVE  /\ Walk(path)[0] = arguments
           /\ \A i \in 1 .. Len(path) : Walk(path)[i] = Child(Walk(path)[i - 1], path[i])
    <1>1. Len(path) \in Nat
        BY DEF Path
    <1> DEFINE w == Walk(path)
    <1>2. w = [i \in 0 .. Len(path) |-> IF i = 0 THEN arguments ELSE Child(w[i - 1], path[i])]
        BY WalkExists
    <1> HIDE DEF w
    <1>3. w[0] = arguments /\ \A i \in 1 .. Len(path) : w[i] = Child(w[i - 1], path[i])
        BY <1>1, <1>2
    <1> QED
        BY <1>3 DEF w

\* The value at the end of a path.
At(path) == Walk(path)[Len(path)]

\* A path leads through what another leads to.
Begins(q, p) ==
    /\ Len(q) <= Len(p)
    /\ \A k \in 1 .. Len(q) : q[k] = p[k]

LEMMA WalkBegins ==
    ASSUME NEW p \in Path, NEW q \in Path, Begins(q, p)
    PROVE  Walk(p)[Len(q)] = At(q)
    <1> DEFINE S == {k \in Nat : k <= Len(q) => Walk(p)[k] = Walk(q)[k]}
    <1>1. Len(q) \in Nat /\ Len(p) \in Nat /\ Len(q) <= Len(p)
        BY DEF Path, Begins
    <1>2. 0 \in S
        BY WalkSteps
    <1>3. ASSUME NEW k \in Nat, k \in S
          PROVE  k + 1 \in S
        <2>1. CASE k + 1 <= Len(q)
            <3>1. Walk(p)[k] = Walk(q)[k] /\ k + 1 \in 1 .. Len(q) /\ k + 1 \in 1 .. Len(p)
                BY <1>1, <1>3, <2>1
            <3>2. q[k + 1] = p[k + 1]
                BY <3>1 DEF Begins
            <3>3. /\ Walk(p)[k + 1] = Child(Walk(p)[k], p[k + 1])
                  /\ Walk(q)[k + 1] = Child(Walk(q)[k], q[k + 1])
                BY <3>1, WalkSteps
            <3> QED
                BY <3>1, <3>2, <3>3
        <2> QED
            BY <2>1
    <1>4. Len(q) \in S
        <2> HIDE DEF S
        <2> QED
            BY <1>1, <1>2, <1>3, SetInduction
    <1> QED
        BY <1>4 DEF At

\* Where the walk has left the arguments, it does not come back.
LEMMA AbsentStays ==
    ASSUME NEW p \in Path, NEW i \in 0 .. Len(p), Walk(p)[i] = Absent
    PROVE  At(p) = Absent
    <1> DEFINE S == {k \in Nat : i + k <= Len(p) => Walk(p)[i + k] = Absent}
    <1>1. Len(p) \in Nat /\ i \in Nat
        BY DEF Path
    <1>2. 0 \in S
        BY <1>1
    <1>3. ASSUME NEW k \in Nat, k \in S
          PROVE  k + 1 \in S
        <2>1. CASE i + (k + 1) <= Len(p)
            <3>1. Walk(p)[i + k] = Absent /\ i + (k + 1) \in 1 .. Len(p)
                BY <1>1, <1>3, <2>1
            <3>2. Walk(p)[i + (k + 1)] = Child(Walk(p)[i + (k + 1) - 1], p[i + (k + 1)])
                BY <3>1, WalkSteps
            <3>3. i + (k + 1) - 1 = i + k
                BY <1>1
            <3>4. \A s : Child(Absent, s) = Absent
                BY DEF Child, Absent
            <3> QED
                BY <3>1, <3>2, <3>3, <3>4
        <2> QED
            BY <2>1
    <1>4. Len(p) - i \in S
        <2> HIDE DEF S
        <2> QED
            BY <1>1, <1>2, <1>3, SetInduction
    <1> QED
        BY <1>1, <1>4 DEF At

\* One step further along a path.
LEMMA AtAppend ==
    ASSUME NEW q \in Path, NEW s \in Keys \cup Nat
    PROVE  /\ Append(q, s) \in Path
           /\ At(Append(q, s)) = Child(At(q), s)
    <1> DEFINE p == Append(q, s)
    <1>1. /\ p \in Path /\ Len(p) = Len(q) + 1 /\ Len(q) \in Nat
          /\ \A k \in 1 .. Len(q) : p[k] = q[k]
          /\ p[Len(q) + 1] = s
        BY AppendProperties DEF Path
    <1> HIDE DEF p
    <1>2. Walk(p)[Len(q)] = At(q)
        BY <1>1, WalkBegins DEF Begins
    <1>3. Walk(p)[Len(q) + 1] = Child(Walk(p)[Len(q) + 1 - 1], p[Len(q) + 1])
        BY <1>1, WalkSteps
    <1>4. Walk(p)[Len(q) + 1] = Child(Walk(p)[Len(q)], s)
        BY <1>1, <1>3
    <1> QED
        BY <1>1, <1>2, <1>4 DEF At, p

\* Beginnings of paths, one step longer.
LEMMA BeginsAppend ==
    ASSUME NEW q \in Path, NEW s \in Keys \cup Nat, NEW p \in Path
    PROVE  /\ Begins(Append(q, s), p) => Begins(q, p) /\ p[Len(q) + 1] = s
           /\ Begins(q, p) /\ Len(q) # Len(p) /\ p[Len(q) + 1] = s
                  => Begins(Append(q, s), p)
           /\ Begins(p, Append(q, s)) => Begins(p, q) \/ p = Append(q, s)
           /\ Begins(q, Append(q, s))
           /\ Begins(q, q)
    <1> DEFINE r == Append(q, s)
    <1>1. /\ r \in Path /\ Len(r) = Len(q) + 1 /\ Len(q) \in Nat /\ Len(p) \in Nat
          /\ \A k \in 1 .. Len(q) : r[k] = q[k]
          /\ r[Len(q) + 1] = s
        BY AppendProperties DEF Path
    <1> HIDE DEF r
    <1>2. Begins(r, p) => Begins(q, p) /\ p[Len(q) + 1] = s
        BY <1>1 DEF Begins
    <1>3. Begins(q, p) /\ Len(q) # Len(p) /\ p[Len(q) + 1] = s => Begins(r, p)
        BY <1>1 DEF Begins
    <1>4. ASSUME Begins(p, r), ~Begins(p, q)
          PROVE  p = r
        <2>1. Len(p) = Len(r)
            BY <1>1, <1>4 DEF Begins
        <2> QED
            BY <1>1, <1>4, <2>1, SeqEqual DEF Begins, Path
    <1>5. Begins(q, r) /\ Begins(q, q)
        BY <1>1 DEF Begins
    <1> QED
        BY <1>2, <1>3, <1>4, <1>5 DEF r

-----------------------------------------------------------------------------
(* The items of a dictionary or a list. *)

\* What a call of inspect_value may be about.
Inspected == Strings \cup Others(Values) \cup Dicts(Values) \cup Lists(Values)

\* The step that leads to an item, and the item.
StepTo(value, i) == IF value.kind = "dict" THEN value.items[i][1] ELSE i

Item(value, i) == IF value.kind = "dict" THEN value.items[i][2] ELSE value.items[i]

\* Each item is reached by a step of its own, and nothing else is reached.
LEMMA ItemSteps ==
    ASSUME NEW value \in Dicts(Values) \cup Lists(Values)
    PROVE  /\ Len(value.items) \in Nat /\ DOMAIN value.items = 1 .. Len(value.items)
           /\ \A i \in 1 .. Len(value.items) :
                 /\ StepTo(value, i) \in Keys \cup Nat /\ Item(value, i) \in Values
                 /\ Child(value, StepTo(value, i)) = Item(value, i)
           /\ \A i, j \in 1 .. Len(value.items) :
                 StepTo(value, i) = StepTo(value, j) => i = j
           /\ \A s : Child(value, s) # Absent
                 => \E i \in 1 .. Len(value.items) : s = StepTo(value, i)
    <1> DEFINE n == Len(value.items)
    <1>1. CASE value \in Dicts(Values)
        <2>1. /\ value.kind = "dict" /\ value.items \in Seq(Keys \X Values)
              /\ \A i, j \in DOMAIN value.items :
                    value.items[i][1] = value.items[j][1] => i = j
            BY <1>1 DEF Dicts
        <2>2. /\ n \in Nat /\ DOMAIN value.items = 1 .. n
              /\ \A i \in 1 .. n : value.items[i] \in Keys \X Values
            BY <2>1
        <2>3. ASSUME NEW i \in 1 .. n
              PROVE  Child(value, value.items[i][1]) = value.items[i][2]
            <3> DEFINE at == {j \in DOMAIN value.items : value.items[j][1] = value.items[i][1]}
            <3>1. at = {i}
                BY <2>1, <2>2
            <3>2. at # {} /\ (CHOOSE j \in at : TRUE) = i
                BY <3>1
            <3> QED
                BY <2>1, <3>2 DEF Child
        <2>4. ASSUME NEW s, Child(value, s) # Absent
              PROVE  \E i \in 1 .. n : s = value.items[i][1]
            <3>1. {j \in DOMAIN value.items : value.items[j][1] = s} # {}
                BY <2>1, <2>4 DEF Child
            <3> QED
                BY <2>2, <3>1
        <2> QED
            BY <2>1, <2>2, <2>3, <2>4 DEF StepTo, Item
    <1>2. CASE value \in Lists(Values)
        <2>1. value.kind = "list" /\ value.items \in Seq(Values)
            BY <1>2 DEF Lists
        <2>2. /\ n \in Nat /\ DOMAIN value.items = 1 .. n
              /\ \A i \in 1 .. n : value.items[i] \in Values
            BY <2>1
        <2> QED
            BY <2>1, <2>2 DEF StepTo, Item, Child
    <1> QED
        BY <1>1, <1>2

\* The calls for the items go one step further, each by its own.
LEMMA ItemCallsRight ==
    ASSUME NEW q \in Path, NEW value \in Dicts(Values) \cup Lists(Values), At(q) = value
    PROVE  LET new == ItemCalls(q, value)
           IN /\ new \in Seq([path : Path, value : Values])
              /\ Len(new) = Len(value.items)
              /\ \A i \in 1 .. Len(value.items) :
                    /\ new[i].path = Append(q, StepTo(value, i))
                    /\ new[i].value = At(new[i].path)
    <1> DEFINE n == Len(value.items)
               new == [i \in 1 .. n |-> [path |-> Append(q, StepTo(value, i)),
                                         value |-> Item(value, i)]]
    <1>1. n \in Nat /\ DOMAIN value.items = 1 .. n
        BY ItemSteps
    <1>2. \A i \in 1 .. n : /\ Append(q, StepTo(value, i)) \in Path
                            /\ At(Append(q, StepTo(value, i))) = Item(value, i)
                            /\ Item(value, i) \in Values
        BY ItemSteps, AtAppend
    <1>3. new \in Seq([path : Path, value : Values]) /\ Len(new) = n
        BY <1>1, <1>2
    <1>4. \A i \in 1 .. n : /\ new[i].path = Append(q, StepTo(value, i))
                            /\ new[i].value = At(new[i].path)
        BY <1>2
    <1>5. ItemCalls(q, value) = new
        BY <1>1 DEF ItemCalls, StepTo, Item
    <1> QED
        BY <1>3, <1>4, <1>5

\* An offence that lies further on lies behind one of the items.
LEMMA OffenceBehind ==
    ASSUME NEW q \in Path, NEW value \in Dicts(Values) \cup Lists(Values), At(q) = value,
           NEW p \in Path, Begins(q, p), NEW reason, Offends(p, reason)
    PROVE  \E i \in 1 .. Len(value.items) : Begins(Append(q, StepTo(value, i)), p)
    <1>1. Len(q) \in Nat /\ Len(p) \in Nat /\ \A k \in 1 .. Len(p) : p[k] \in Keys \cup Nat
        BY DEF Path
    <1>2. At(p).kind = "str"
        BY DEF Offends, At
    <1>3. value.kind \in {"dict", "list"}
        BY DEF Dicts, Lists
    <1>4. Len(q) # Len(p)
        BY <1>2, <1>3, WalkBegins DEF At
    <1> DEFINE m == Len(q) + 1
    <1>5. m \in 1 .. Len(p) /\ m - 1 = Len(q) /\ m \in 0 .. Len(p)
        BY <1>1, <1>4 DEF Begins
    <1>6. Walk(p)[m] = Child(value, p[m])
        BY <1>5, WalkSteps, WalkBegins
    <1>7. Child(value, p[m]) # Absent
        BY <1>2, <1>5, <1>6, AbsentStays DEF Absent
    <1>8. PICK i \in 1 .. Len(value.items) : p[m] = StepTo(value, i)
        BY <1>7, ItemSteps
    <1>9. StepTo(value, i) \in Keys \cup Nat
        BY ItemSteps
    <1> QED
        BY <1>4, <1>8, <1>9, BeginsAppend

-----------------------------------------------------------------------------
(* The invariant of the inspection. *)

\* The calls to be made are about the values at their paths, and no value lies
\* within another.
CallsRight(cs) ==
    /\ cs \in Seq([path : Path, value : Values \cup Arguments])
    /\ \A i \in 1 .. Len(cs) : cs[i].value = At(cs[i].path)
    /\ \A i, j \in 1 .. Len(cs) : Begins(cs[i].path, cs[j].path) => i = j

\* What was found is an offence, and is not found again.
FoundRight(fs, cs) ==
    /\ fs \in Seq([path : Path, reason : Patterns])
    /\ \A f \in 1 .. Len(fs) : Offends(fs[f].path, fs[f].reason)
    /\ \A f, g \in 1 .. Len(fs) : fs[f] = fs[g] => f = g
    /\ \A f \in 1 .. Len(fs), i \in 1 .. Len(cs) : ~Begins(cs[i].path, fs[f].path)

\* Every offence was found or will be.
NothingLost(fs, cs) ==
    \A path \in Path, reason \in Patterns : Offends(path, reason) =>
        \/ \E f \in 1 .. Len(fs) : fs[f] = [path |-> path, reason |-> reason]
        \/ \E i \in 1 .. Len(cs) : Begins(cs[i].path, path)

Inspection(fs, cs) == CallsRight(cs) /\ FoundRight(fs, cs) /\ NothingLost(fs, cs)

LEMMA InspectionKept ==
    ASSUME UNCHANGED arguments, Inspection(found', calls')
    PROVE  Inspection(found, calls)'
    <1>1. ASSUME NEW path
          PROVE  Walk(path)' = Walk(path)
        BY Zenon DEF Walk
    <1>2. \A path : At(path)' = At(path)
        BY <1>1 DEF At
    <1>3. \A path, reason : Offends(path, reason)' <=> Offends(path, reason)
        BY <1>1 DEF Offends
    <1> QED
        BY <1>2, <1>3 DEF Inspection, CallsRight, FoundRight, NothingLost

\* The patterns of a string are found, each once.
LEMMA MatchesRight ==
    ASSUME NEW path, NEW hits \in SUBSET Patterns
    PROVE  LET new == Matches(path, hits)
           IN /\ new \in Seq([path : {path}, reason : hits])
              /\ \A f, g \in 1 .. Len(new) : new[f] = new[g] => f = g
              /\ \A r \in hits : \E f \in 1 .. Len(new) : new[f] = [path |-> path, reason |-> r]
    <1> DEFINE S == {[path |-> path, reason |-> r] : r \in hits}
               n == Cardinality(S)
    <1>1. IsFiniteSet(S)
        <2>1. IsFiniteSet(hits)
            BY TreesOverPatterns, FS_Subset
        <2> DEFINE f == [r \in hits |-> [path |-> path, reason |-> r]]
        <2>2. S = {f[r] : r \in hits} /\ f \in [hits -> S]
            OBVIOUS
        <2>3. f \in Surjection(hits, S)
            BY DEF Surjection
        <2> HIDE DEF f, S
        <2> QED
            BY <2>1, <2>3, FS_Surjection
    <1> DEFINE T == [path : {path}, reason : hits]
    <1>2. S = T
        <2>1. ASSUME NEW x \in T
              PROVE  x \in S
            <3>1. x = [path |-> path, reason |-> x.reason] /\ x.reason \in hits
                OBVIOUS
            <3> QED
                BY <3>1
        <2>2. ASSUME NEW x \in S
              PROVE  x \in T
            OBVIOUS
        <2> HIDE DEF S, T
        <2> QED
            BY <2>1, <2>2
    <1> HIDE DEF S, T
    <1>3. n \in Nat /\ ExistsBijection(1 .. n, S)
        BY <1>1, FS_CardinalityType
    <1>4. PICK g \in [1 .. n -> S] : IsInjective(g)
        BY <1>3 DEF ExistsBijection, Bijection, Injection
    <1> DEFINE new == SetToSeq(S)
    <1>5. new \in [1 .. n -> S] /\ IsInjective(new)
        BY <1>4 DEF SetToSeq
    <1> HIDE DEF new
    <1>6. new \in Injection(1 .. n, S)
        BY <1>5 DEF Injection
    <1>7. Cardinality(1 .. n) = n
        BY <1>3, FS_Interval
    <1>8. new \in Surjection(1 .. n, S)
        BY <1>1, <1>6, <1>7, FS_Injection
    <1>9. new \in Seq(T) /\ Len(new) = n
        BY <1>2, <1>3, <1>5
    <1>10. \A i, j \in 1 .. n : new[i] = new[j] => i = j
        BY <1>5 DEF IsInjective
    <1>11. \A x \in S : \E f \in 1 .. n : new[f] = x
        BY <1>8 DEF Surjection
    <1>12. \A r \in hits : [path |-> path, reason |-> r] \in S
        BY DEF S
    <1>13. Matches(path, hits) = new
        BY DEF Matches, new, S
    <1> QED
        BY <1>9, <1>10, <1>11, <1>12, <1>13 DEF T

\* Behind anything but a dictionary or a list there is nothing.
LEMMA NothingBehind ==
    ASSUME NEW q \in Path, NEW p \in Path, At(q).kind \notin {"dict", "list"},
           Begins(q, p), NEW reason, Offends(p, reason)
    PROVE  p = q
    <1>1. Len(q) \in Nat /\ Len(p) \in Nat
        BY DEF Path
    <1>2. CASE Len(q) = Len(p)
        BY <1>1, <1>2, SeqEqual DEF Begins, Path
    <1>3. CASE Len(q) # Len(p)
        <2> DEFINE m == Len(q) + 1
        <2>1. m \in 1 .. Len(p) /\ m - 1 = Len(q) /\ m \in 0 .. Len(p)
            BY <1>1, <1>3 DEF Begins
        <2>2. Walk(p)[m] = Child(At(q), p[m])
            BY <2>1, WalkSteps, WalkBegins
        <2>3. Walk(p)[m] = Absent
            BY <2>2 DEF Child
        <2> QED
            BY <2>1, <2>3, AbsentStays DEF Offends, At, Absent
    <1> QED
        BY <1>2, <1>3

LEMMA TailOf ==
    ASSUME NEW S, NEW s \in Seq(S), s # <<>>
    PROVE  /\ Head(s) = s[1] /\ s[1] \in S /\ Len(s) \in Nat /\ 1 \in 1 .. Len(s)
           /\ Tail(s) \in Seq(S) /\ Len(Tail(s)) = Len(s) - 1
           /\ \A i \in 1 .. Len(Tail(s)) :
                 Tail(s)[i] = s[i + 1] /\ i + 1 \in 1 .. Len(s) /\ i + 1 # 1
           /\ \A i \in 1 .. Len(s) : i # 1 =>
                 i - 1 \in 1 .. Len(Tail(s)) /\ Tail(s)[i - 1] = s[i]
    BY EmptySeq

\* A call about a value that has no items.
LEMMA LeafInspected ==
    ASSUME NEW fs, NEW cs, Inspection(fs, cs), cs # <<>>,
           NEW q, q = Head(cs).path, At(q).kind \notin {"dict", "list"},
           NEW new \in Seq([path : {q}, reason : Patterns]),
           \A m \in 1 .. Len(new) : Offends(q, new[m].reason),
           \A f, g \in 1 .. Len(new) : new[f] = new[g] => f = g,
           \A r \in Patterns : Offends(q, r)
               => \E m \in 1 .. Len(new) : new[m] = [path |-> q, reason |-> r]
    PROVE  Inspection(fs \o new, Tail(cs))
    <1> DEFINE rest == Tail(cs)
               all == fs \o new
               n == Len(fs)
               C == [path : Path, value : Values \cup Arguments]
               F == [path : Path, reason : Patterns]
    <1>1. cs \in Seq(C) /\ fs \in Seq(F)
        BY DEF Inspection, CallsRight, FoundRight
    <1>2. /\ q \in Path /\ q = cs[1].path /\ 1 \in 1 .. Len(cs)
          /\ rest \in Seq(C)
          /\ \A i \in 1 .. Len(rest) : rest[i] = cs[i + 1] /\ i + 1 \in 1 .. Len(cs) /\ i + 1 # 1
          /\ \A i \in 1 .. Len(cs) : i # 1 =>
                 i - 1 \in 1 .. Len(rest) /\ rest[i - 1] = cs[i]
          /\ Len(rest) \in Nat
        <2> HIDE DEF C, F
        <2>1. /\ Head(cs) = cs[1] /\ cs[1] \in C /\ 1 \in 1 .. Len(cs)
              /\ rest \in Seq(C)
              /\ \A i \in 1 .. Len(rest) : rest[i] = cs[i + 1] /\ i + 1 \in 1 .. Len(cs) /\ i + 1 # 1
              /\ \A i \in 1 .. Len(cs) : i # 1 =>
                     i - 1 \in 1 .. Len(rest) /\ rest[i - 1] = cs[i]
            BY <1>1, TailOf
        <2> QED
            BY <2>1 DEF C
    <1>3. /\ new \in Seq(F) /\ Len(new) \in Nat
          /\ \A m \in 1 .. Len(new) : new[m].path = q
        <2> DEFINE N == [path : {q}, reason : Patterns]
        <2>1. N \subseteq F /\ \A x \in N : x.path = q
            BY <1>2
        <2>2. new \in Seq(N)
            OBVIOUS
        <2> HIDE DEF F, N
        <2>3. Len(new) \in Nat /\ \A m \in 1 .. Len(new) : new[m] \in N
            BY <2>2
        <2> QED
            BY <2>1, <2>2, <2>3, SeqMonotonic
    <1> HIDE DEF C, F, rest, all, n
    <1>4. /\ all \in Seq(F)
          /\ n \in Nat /\ Len(all) = n + Len(new)
          /\ \A f \in 1 .. n : all[f] = fs[f] /\ f \in 1 .. Len(all)
          /\ \A m \in 1 .. Len(new) : all[n + m] = new[m] /\ n + m \in 1 .. Len(all)
          /\ \A f \in 1 .. Len(all) :
                 \/ f \in 1 .. n /\ all[f] = fs[f]
                 \/ /\ f \notin 1 .. n /\ f - n \in 1 .. Len(new)
                    /\ all[f] = new[f - n]
        BY <1>1, <1>3, ConcatProperties DEF all, n
    <1>5. CallsRight(rest)
        <2>1. \A i, j \in 1 .. Len(rest) : i + 1 = j + 1 => i = j
            BY <1>2
        <2>2. \A i, j \in 1 .. Len(cs) : Begins(cs[i].path, cs[j].path) => i = j
            BY DEF Inspection, CallsRight
        <2>3. \A i \in 1 .. Len(cs) : cs[i].value = At(cs[i].path)
            BY DEF Inspection, CallsRight
        <2>4. \A i, j \in 1 .. Len(rest) : Begins(rest[i].path, rest[j].path) => i = j
            BY <1>2, <2>1, <2>2
        <2>5. \A i \in 1 .. Len(rest) : rest[i].value = At(rest[i].path)
            BY <1>2, <2>3
        <2> QED
            BY <1>2, <2>4, <2>5 DEF CallsRight, C
    <1>6. \A f \in 1 .. n : ~Begins(q, fs[f].path)
        BY <1>2 DEF Inspection, FoundRight, n
    <1>7. Begins(q, q)
        BY <1>2 DEF Begins, Path
    <1>8. \A i \in 1 .. Len(rest) : ~Begins(rest[i].path, q)
        BY <1>2 DEF Inspection, CallsRight
    <1>9. FoundRight(all, rest)
        <2>1. ASSUME NEW f \in 1 .. Len(all)
              PROVE  Offends(all[f].path, all[f].reason)
            <3>1. CASE f \in 1 .. n /\ all[f] = fs[f]
                BY <3>1 DEF Inspection, FoundRight, n
            <3>2. CASE f - n \in 1 .. Len(new) /\ all[f] = new[f - n]
                BY <1>3, <3>2
            <3> QED
                BY <1>4, <3>1, <3>2
        <2>2. ASSUME NEW f \in 1 .. Len(all), NEW g \in 1 .. Len(all), all[f] = all[g]
              PROVE  f = g
            <3>1. CASE f \in 1 .. n /\ g \in 1 .. n
                BY <1>4, <2>2, <3>1 DEF Inspection, FoundRight, n
            <3>2. CASE f - n \in 1 .. Len(new) /\ g - n \in 1 .. Len(new)
                <4>1. f \notin 1 .. n /\ g \notin 1 .. n
                    BY <1>3, <1>4, <3>2
                <4>2. new[f - n] = new[g - n]
                    BY <1>4, <2>2, <4>1
                <4>3. f - n = g - n
                    BY <3>2, <4>2
                <4> QED
                    BY <1>4, <4>3
            <3>3. CASE f \in 1 .. n /\ g \notin 1 .. n
                <4>1. fs[f] = new[g - n] /\ g - n \in 1 .. Len(new)
                    BY <1>4, <2>2, <3>3
                <4> QED
                    BY <1>3, <1>6, <1>7, <3>3, <4>1
            <3>4. CASE f \notin 1 .. n /\ g \in 1 .. n
                <4>1. fs[g] = new[f - n] /\ f - n \in 1 .. Len(new)
                    BY <1>4, <2>2, <3>4
                <4> QED
                    BY <1>3, <1>6, <1>7, <3>4, <4>1
            <3> QED
                BY <1>4, <3>1, <3>2, <3>3, <3>4
        <2>3. ASSUME NEW f \in 1 .. Len(all), NEW i \in 1 .. Len(rest)
              PROVE  ~Begins(rest[i].path, all[f].path)
            <3>1. CASE f \in 1 .. n /\ all[f] = fs[f]
                BY <1>2, <3>1 DEF Inspection, FoundRight, n
            <3>2. CASE f - n \in 1 .. Len(new) /\ all[f] = new[f - n]
                BY <1>3, <1>8, <3>2
            <3> QED
                BY <1>4, <3>1, <3>2
        <2> QED
            BY <1>4, <2>1, <2>2, <2>3 DEF FoundRight, F
    <1>10. NothingLost(all, rest)
        <2> SUFFICES ASSUME NEW p \in Path, NEW r \in Patterns, Offends(p, r)
                     PROVE  \/ \E f \in 1 .. Len(all) : all[f] = [path |-> p, reason |-> r]
                            \/ \E i \in 1 .. Len(rest) : Begins(rest[i].path, p)
            BY DEF NothingLost
        <2>1. CASE \E f \in 1 .. n : fs[f] = [path |-> p, reason |-> r]
            BY <1>4, <2>1
        <2>2. ASSUME NEW i \in 1 .. Len(cs), Begins(cs[i].path, p)
              PROVE  \/ \E f \in 1 .. Len(all) : all[f] = [path |-> p, reason |-> r]
                     \/ \E j \in 1 .. Len(rest) : Begins(rest[j].path, p)
            <3>1. CASE i = 1
                <4>1. p = q
                    BY <1>2, <2>2, <3>1, NothingBehind
                <4>2. PICK m \in 1 .. Len(new) : new[m] = [path |-> p, reason |-> r]
                    BY <4>1
                <4>3. n + m \in 1 .. Len(all) /\ all[n + m] = new[m]
                    BY <1>4, <4>2
                <4>4. all[n + m] = [path |-> p, reason |-> r]
                    BY <4>2, <4>3
                <4> QED
                    BY <4>3, <4>4
            <3>2. CASE i # 1
                BY <1>2, <2>2, <3>2
            <3> QED
                BY <3>1, <3>2
        <2> QED
            BY <2>1, <2>2 DEF Inspection, NothingLost, n
    <1> QED
        BY <1>5, <1>9, <1>10 DEF Inspection, rest, all

\* A call about a dictionary or a list: its items take its place.
LEMMA ItemsInspected ==
    ASSUME NEW fs, NEW cs, Inspection(fs, cs), cs # <<>>,
           NEW q, q = Head(cs).path,
           NEW value, value = Head(cs).value,
           value \in Dicts(Values) \cup Lists(Values)
    PROVE  Inspection(fs, ItemCalls(q, value) \o Tail(cs))
    <1> DEFINE rest == Tail(cs)
               new == ItemCalls(q, value)
               all == new \o rest
               n == Len(new)
               C == [path : Path, value : Values \cup Arguments]
               N == [path : Path, value : Values]
    <1>1. cs \in Seq(C)
        BY DEF Inspection, CallsRight
    <1>2. /\ q \in Path /\ q = cs[1].path /\ 1 \in 1 .. Len(cs)
          /\ value = cs[1].value
          /\ rest \in Seq(C) /\ Len(rest) \in Nat
          /\ \A i \in 1 .. Len(rest) : rest[i] = cs[i + 1] /\ i + 1 \in 1 .. Len(cs) /\ i + 1 # 1
          /\ \A i \in 1 .. Len(cs) : i # 1 =>
                 i - 1 \in 1 .. Len(rest) /\ rest[i - 1] = cs[i]
          /\ \A i \in 1 .. Len(cs) : cs[i].path \in Path
        <2> HIDE DEF C
        <2>1. /\ Head(cs) = cs[1] /\ cs[1] \in C /\ 1 \in 1 .. Len(cs)
              /\ rest \in Seq(C) /\ Len(rest) \in Nat
              /\ \A i \in 1 .. Len(rest) : rest[i] = cs[i + 1] /\ i + 1 \in 1 .. Len(cs) /\ i + 1 # 1
              /\ \A i \in 1 .. Len(cs) : i # 1 =>
                     i - 1 \in 1 .. Len(rest) /\ rest[i - 1] = cs[i]
            BY <1>1, TailOf
        <2>2. \A i \in 1 .. Len(cs) : cs[i] \in C
            BY <1>1
        <2> QED
            BY <2>1, <2>2 DEF C
    <1>3. At(q) = value
        BY <1>2 DEF Inspection, CallsRight
    <1> HIDE DEF N, C, rest, new, all, n
    <1>4. /\ new \in Seq(N) /\ n = Len(value.items) /\ n \in Nat
          /\ \A i \in 1 .. n : /\ new[i].path = Append(q, StepTo(value, i))
                               /\ new[i].value = At(new[i].path)
        <2>1. Len(value.items) \in Nat
            BY ItemSteps
        <2>2. /\ new \in Seq(N) /\ Len(new) = Len(value.items)
              /\ \A i \in 1 .. Len(value.items) :
                    /\ new[i].path = Append(q, StepTo(value, i))
                    /\ new[i].value = At(new[i].path)
            BY <1>2, <1>3, ItemCallsRight DEF new, N
        <2> QED
            BY <2>1, <2>2 DEF n
    <1>5. new \in Seq(C)
        <2>1. N \subseteq C
            BY DEF N, C
        <2> QED
            BY <1>4, <2>1, SeqMonotonic
    <1>6. \A i \in 1 .. n : StepTo(value, i) \in Keys \cup Nat /\ new[i].path \in Path
        <2>1. \A i \in 1 .. n : StepTo(value, i) \in Keys \cup Nat
            BY <1>4, ItemSteps
        <2> QED
            BY <1>2, <1>4, <2>1, AtAppend
    <1>7. /\ all \in Seq(C) /\ Len(all) = n + Len(rest)
          /\ \A i \in 1 .. n : all[i] = new[i] /\ i \in 1 .. Len(all)
          /\ \A m \in 1 .. Len(rest) : all[n + m] = rest[m] /\ n + m \in 1 .. Len(all)
          /\ \A i \in 1 .. Len(all) :
                 \/ i \in 1 .. n /\ all[i] = new[i]
                 \/ /\ i \notin 1 .. n /\ i - n \in 1 .. Len(rest)
                    /\ all[i] = rest[i - n]
        <2>1. n \in Nat /\ Len(rest) \in Nat /\ n = Len(new)
            BY <1>2, <1>4 DEF n
        <2>2. /\ all \in Seq(C) /\ Len(all) = n + Len(rest)
              /\ \A i \in 1 .. Len(all) :
                     all[i] = IF i <= n THEN new[i] ELSE rest[i - n]
            BY <1>2, <1>5, <2>1, ConcatProperties DEF all
        <2>3. \A m \in 1 .. Len(rest) :
                  n + m \in 1 .. Len(all) /\ ~(n + m <= n) /\ (n + m) - n = m
            BY <2>1, <2>2
        <2>4. \A m \in 1 .. Len(rest) : all[n + m] = rest[m]
            BY <2>2, <2>3
        <2> QED
            BY <2>1, <2>2, <2>3, <2>4
    <1>8. /\ \A i, j \in 1 .. Len(cs) : Begins(cs[i].path, cs[j].path) => i = j
          /\ \A i \in 1 .. Len(cs) : cs[i].value = At(cs[i].path)
        BY DEF Inspection, CallsRight
    <1>9. \A i \in 1 .. n : \A p \in Path :
              /\ Begins(new[i].path, p)
                     => Begins(q, p) /\ p[Len(q) + 1] = StepTo(value, i)
              /\ Begins(p, new[i].path) => Begins(p, q) \/ p = new[i].path
              /\ Begins(q, new[i].path)
              /\ new[i].path[Len(q) + 1] = StepTo(value, i)
        <2> SUFFICES ASSUME NEW i \in 1 .. n, NEW p \in Path
                     PROVE  /\ Begins(new[i].path, p)
                                   => Begins(q, p) /\ p[Len(q) + 1] = StepTo(value, i)
                            /\ Begins(p, new[i].path) => Begins(p, q) \/ p = new[i].path
                            /\ Begins(q, new[i].path)
                            /\ new[i].path[Len(q) + 1] = StepTo(value, i)
            OBVIOUS
        <2> DEFINE r == Append(q, StepTo(value, i))
        <2>1. new[i].path = r /\ r \in Path /\ StepTo(value, i) \in Keys \cup Nat
            BY <1>4, <1>6
        <2>2. /\ Begins(r, p) => Begins(q, p) /\ p[Len(q) + 1] = StepTo(value, i)
              /\ Begins(p, r) => Begins(p, q) \/ p = r
              /\ Begins(q, r)
              /\ Begins(r, r) /\ (Begins(r, r) => r[Len(q) + 1] = StepTo(value, i))
            BY <1>2, <2>1, BeginsAppend
        <2> HIDE DEF r
        <2> QED
            BY <2>1, <2>2
    <1>10. \A i \in 1 .. Len(rest) :
               /\ rest[i].path \in Path
               /\ ~Begins(q, rest[i].path) /\ ~Begins(rest[i].path, q)
        BY <1>2, <1>8
    <1>11. CallsRight(all)
        <2>1. ASSUME NEW i \in 1 .. Len(all)
              PROVE  all[i].value = At(all[i].path)
            <3>1. CASE i \in 1 .. n /\ all[i] = new[i]
                BY <1>4, <3>1
            <3>2. CASE i - n \in 1 .. Len(rest) /\ all[i] = rest[i - n]
                BY <1>2, <1>8, <3>2
            <3> QED
                BY <1>7, <3>1, <3>2
        <2>2. ASSUME NEW i \in 1 .. Len(all), NEW j \in 1 .. Len(all),
                     Begins(all[i].path, all[j].path)
              PROVE  i = j
            <3>1. CASE i \in 1 .. n /\ j \in 1 .. n
                <4>1. Begins(new[i].path, new[j].path)
                    BY <1>7, <2>2, <3>1
                <4>2. StepTo(value, i) = StepTo(value, j)
                    BY <1>6, <1>9, <3>1, <4>1
                <4> QED
                    BY <1>2, <1>4, <3>1, <4>2, ItemSteps
            <3>2. CASE i \in 1 .. n /\ j \notin 1 .. n
                <4>1. j - n \in 1 .. Len(rest) /\ all[j] = rest[j - n] /\ all[i] = new[i]
                    BY <1>7, <3>2
                <4> QED
                    BY <1>9, <1>10, <2>2, <3>2, <4>1
            <3>3. CASE i \notin 1 .. n /\ j \in 1 .. n
                <4>1. i - n \in 1 .. Len(rest) /\ all[i] = rest[i - n] /\ all[j] = new[j]
                    BY <1>7, <3>3
                <4>2. ~Begins(rest[i - n].path, q) /\ rest[i - n].path \in Path
                    BY <1>10, <4>1
                <4>3. rest[i - n].path = new[j].path
                    BY <1>9, <2>2, <3>3, <4>1, <4>2
                <4>4. Begins(q, rest[i - n].path)
                    BY <1>9, <3>3, <4>2, <4>3
                <4> QED
                    BY <1>10, <4>1, <4>4
            <3>4. CASE i \notin 1 .. n /\ j \notin 1 .. n
                <4>1. /\ i - n \in 1 .. Len(rest) /\ all[i] = rest[i - n]
                      /\ j - n \in 1 .. Len(rest) /\ all[j] = rest[j - n]
                    BY <1>7, <3>4
                <4> DEFINE k == i - n
                           l == j - n
                <4>2. Begins(rest[k].path, rest[l].path)
                    BY <2>2, <4>1
                <4>3. k \in 1 .. Len(rest) /\ l \in 1 .. Len(rest)
                    BY <4>1
                <4> HIDE DEF k, l
                <4>4. k + 1 = l + 1
                    BY <1>2, <1>8, <4>2, <4>3
                <4>5. i - n = j - n
                    BY <4>3, <4>4 DEF k, l
                <4> QED
                    BY <1>4, <1>7, <4>5
            <3> QED
                BY <3>1, <3>2, <3>3, <3>4
        <2> QED
            BY <1>7, <2>1, <2>2 DEF CallsRight, C
    <1>12. FoundRight(fs, all)
        <2>1. ASSUME NEW f \in 1 .. Len(fs), NEW i \in 1 .. Len(all)
              PROVE  ~Begins(all[i].path, fs[f].path)
            <3> DEFINE F == [path : Path, reason : Patterns]
            <3>1. fs \in Seq(F)
                BY DEF Inspection, FoundRight
            <3>2. \A x \in F : x.path \in Path
                OBVIOUS
            <3> HIDE DEF F
            <3>3. /\ \A j \in 1 .. Len(cs) : ~Begins(cs[j].path, fs[f].path)
                  /\ fs[f].path \in Path
                BY <3>1, <3>2 DEF Inspection, FoundRight
            <3>4. CASE i \in 1 .. n /\ all[i] = new[i]
                BY <1>2, <1>9, <3>3, <3>4
            <3>5. CASE i - n \in 1 .. Len(rest) /\ all[i] = rest[i - n]
                <4> DEFINE k == i - n
                <4>1. k \in 1 .. Len(rest) /\ all[i] = rest[k]
                    BY <3>5
                <4> HIDE DEF k
                <4>2. k + 1 \in 1 .. Len(cs) /\ all[i] = cs[k + 1]
                    BY <1>2, <4>1
                <4> QED
                    BY <3>3, <4>2
            <3> QED
                BY <1>7, <3>4, <3>5
        <2> QED
            BY <2>1 DEF Inspection, FoundRight
    <1>13. NothingLost(fs, all)
        <2> SUFFICES ASSUME NEW p \in Path, NEW r \in Patterns, Offends(p, r)
                     PROVE  \/ \E f \in 1 .. Len(fs) : fs[f] = [path |-> p, reason |-> r]
                            \/ \E i \in 1 .. Len(all) : Begins(all[i].path, p)
            BY DEF NothingLost
        <2>1. ASSUME NEW j \in 1 .. Len(cs), Begins(cs[j].path, p)
              PROVE  \E i \in 1 .. Len(all) : Begins(all[i].path, p)
            <3>1. CASE j = 1
                <4>1. PICK i \in 1 .. n : Begins(Append(q, StepTo(value, i)), p)
                    BY <1>2, <1>3, <1>4, <2>1, <3>1, OffenceBehind
                <4>2. i \in 1 .. Len(all) /\ Begins(all[i].path, p)
                    BY <1>4, <1>7, <4>1
                <4> QED
                    BY <4>2
            <3>2. CASE j # 1
                <4>1. j - 1 \in 1 .. Len(rest) /\ rest[j - 1] = cs[j]
                    BY <1>2, <3>2
                <4>2. n + (j - 1) \in 1 .. Len(all) /\ Begins(all[n + (j - 1)].path, p)
                    BY <1>7, <2>1, <4>1
                <4> QED
                    BY <4>2
            <3> QED
                BY <3>1, <3>2
        <2> QED
            BY <2>1 DEF Inspection, NothingLost
    <1> QED
        BY <1>11, <1>12, <1>13 DEF Inspection, all, rest, new

-----------------------------------------------------------------------------
(* The invariant. *)

\* What is being inspected is sound, and what was judged is what was found.
VInv ==
    /\ arguments \in Arguments
    /\ errors \in Seq(Mismatch)
    /\ schema = "mismatch" <=> errors # <<>>
    /\ Inspection(found, calls)
    /\ Reported => /\ calls = <<>>
                   /\ result.violations = Violations
                   /\ result.data # "none" <=> Violations = <<>>

LEMMA ArgumentsAreADict ==
    ASSUME arguments \in Arguments
    PROVE  <<>> \in Path /\ At(<<>>) = arguments /\ arguments \in Dicts(Values)
           /\ arguments.kind = "dict"
    <1>1. <<>> \in Path /\ Len(<<>>) = 0
        BY DEF Path
    <1> QED
        BY <1>1, WalkSteps, TreesOverPatterns DEF At, Dicts

LEMMA InitInspection ==
    ASSUME Init
    PROVE  Inspection(found, calls)
    <1> DEFINE cs == <<[path |-> <<>>, value |-> arguments]>>
               C == [path : Path, value : Values \cup Arguments]
    <1>1. /\ arguments \in Arguments /\ found = <<>>
          /\ calls = ItemCalls(<<>>, arguments)
        BY DEF Init, AuditArguments
    <1>2. /\ <<>> \in Path /\ At(<<>>) = arguments /\ arguments \in Dicts(Values)
          /\ arguments.kind = "dict"
        BY <1>1, ArgumentsAreADict
    <1>3. /\ Len(cs) = 1 /\ cs # <<>> /\ Head(cs) = cs[1] /\ Tail(cs) = <<>>
          /\ cs[1].path = <<>> /\ cs[1].value = arguments
        OBVIOUS
    <1>4. cs \in Seq(C)
        BY <1>1, <1>2
    <1> HIDE DEF cs
    <1>5. CallsRight(cs)
        BY <1>2, <1>3, <1>4 DEF CallsRight
    <1>6. FoundRight(<<>>, cs)
        <2>1. Len(<<>>) = 0 /\ <<>> \in Seq([path : Path, reason : Patterns])
            OBVIOUS
        <2> QED
            BY <2>1 DEF FoundRight
    <1>7. NothingLost(<<>>, cs)
        BY <1>3 DEF NothingLost, Begins, Path
    <1>8. Inspection(<<>>, ItemCalls(<<>>, arguments) \o Tail(cs))
        BY <1>2, <1>3, <1>5, <1>6, <1>7, ItemsInspected DEF Inspection
    <1>9. ItemCalls(<<>>, arguments) \o <<>> = ItemCalls(<<>>, arguments)
        <2>1. ItemCalls(<<>>, arguments) \in Seq([path : Path, value : Values])
            BY <1>2, ItemCallsRight
        <2> QED
            BY <2>1, ConcatEmptySeq
    <1> QED
        BY <1>1, <1>3, <1>8, <1>9

LEMMA InitVInv == Init => VInv
    <1> SUFFICES ASSUME Init PROVE VInv
        OBVIOUS
    <1>1. errors \in Seq(Mismatch)
        <2>1. <<>> \in Seq(Mismatch) /\ errors \in ErrorLists \cup {<<>>}
            BY DEF Init
        <2> QED
            BY <2>1, TreesOverPatterns
    <1> QED
        BY <1>1, InitInspection DEF Init, VInv, Reported

\* A call of inspect_value keeps the inspection sound.
LEMMA InspectValueKeeps ==
    ASSUME Inspection(found, calls), InspectValue
    PROVE  Inspection(found, calls)'
    <1> DEFINE q == Head(calls).path
               value == Head(calls).value
               C == [path : Path, value : Values \cup Arguments]
    <1>1. calls # <<>> /\ UNCHANGED arguments
        BY DEF InspectValue, sent
    <1>2. value \in Inspected /\ At(q) = value
        <2>1. calls \in Seq(C) /\ \A i \in 1 .. Len(calls) : calls[i].value = At(calls[i].path)
            BY DEF Inspection, CallsRight
        <2>2. \A c \in C : c.value \in Values \cup Arguments
            OBVIOUS
        <2>3. Values \cup Arguments \subseteq Inspected
            BY TreesOverPatterns DEF Inspected
        <2> HIDE DEF C
        <2>4. Head(calls) = calls[1] /\ calls[1] \in C /\ 1 \in 1 .. Len(calls)
            BY <1>1, <2>1, TailOf
        <2> QED
            BY <2>1, <2>2, <2>3, <2>4
    <1> HIDE DEF C
    <1>3. CASE value.kind = "str"
        <2> DEFINE new == Matches(q, value.hits)
        <2>1. value.hits \in SUBSET Patterns
            BY <1>2, <1>3 DEF Inspected, Strings, Others, Dicts, Lists
        <2>2. \A r \in Patterns : Offends(q, r) <=> r \in value.hits
            BY <1>2, <1>3 DEF Offends, At
        <2>3. /\ found' = found \o new
              /\ calls' = Tail(calls)
            BY <1>3 DEF InspectValue
        <2>4. /\ new \in Seq([path : {q}, reason : value.hits])
              /\ \A f, g \in 1 .. Len(new) : new[f] = new[g] => f = g
              /\ \A r \in value.hits :
                    \E f \in 1 .. Len(new) : new[f] = [path |-> q, reason |-> r]
            BY <2>1, MatchesRight
        <2>5. At(q).kind \notin {"dict", "list"}
            BY <1>2, <1>3
        <2> HIDE DEF new, q, value
        <2>6. /\ new \in Seq([path : {q}, reason : Patterns])
              /\ \A m \in 1 .. Len(new) : Offends(q, new[m].reason)
            <3> DEFINE H == [path : {q}, reason : value.hits]
                       P == [path : {q}, reason : Patterns]
            <3>1. H \subseteq P /\ \A x \in H : x.reason \in value.hits
                BY <2>1
            <3>2. new \in Seq(H)
                BY <2>4
            <3> HIDE DEF H
            <3>3. \A m \in 1 .. Len(new) : new[m] \in H
                BY <3>2
            <3>4. new \in Seq(P)
                <4> HIDE DEF P
                <4> QED
                    BY <3>1, <3>2, SeqMonotonic
            <3>5. \A m \in 1 .. Len(new) : Offends(q, new[m].reason)
                BY <2>1, <2>2, <3>1, <3>3
            <3> QED
                BY <3>4, <3>5
        <2>7. Inspection(found \o new, Tail(calls))
            BY <1>1, <2>2, <2>4, <2>5, <2>6, LeafInspected DEF q
        <2> QED
            BY <1>1, <2>3, <2>7, InspectionKept
    <1>4. CASE value.kind \in {"dict", "list"}
        <2>1. value \in Dicts(Values) \cup Lists(Values)
            BY <1>2, <1>4 DEF Inspected, Strings, Others
        <2>2. /\ found' = found
              /\ calls' = ItemCalls(q, value) \o Tail(calls)
            BY <1>4 DEF InspectValue
        <2>3. Inspection(found, ItemCalls(q, value) \o Tail(calls))
            BY <1>1, <2>1, ItemsInspected
        <2> QED
            BY <1>1, <2>2, <2>3, InspectionKept
    <1>5. CASE value.kind = "other"
        <2>1. found' = found /\ calls' = Tail(calls)
            BY <1>5 DEF InspectValue
        <2>2. At(q).kind \notin {"dict", "list"} /\ \A r : ~Offends(q, r)
            BY <1>2, <1>5 DEF Offends, At
        <2>3. <<>> \in Seq([path : {q}, reason : Patterns]) /\ Len(<<>>) = 0
            OBVIOUS
        <2>4. found \o <<>> = found
            BY ConcatEmptySeq DEF Inspection, FoundRight
        <2> DEFINE new == <<>>
        <2>5. /\ new \in Seq([path : {q}, reason : Patterns])
              /\ ~(\E m \in 1 .. Len(new) : TRUE)
              /\ found \o new = found
            BY <2>3, <2>4
        <2> HIDE DEF value, new
        <2>6. \A m \in 1 .. Len(new) : FALSE
            BY <2>5
        <2>7. Inspection(found \o new, Tail(calls))
            BY <1>1, <2>2, <2>5, <2>6, LeafInspected
        <2> QED
            BY <1>1, <2>1, <2>7, <2>5, InspectionKept
    <1>6. value.kind \in {"str", "other", "dict", "list"}
        BY <1>2 DEF Inspected, Strings, Others, Dicts, Lists
    <1> QED
        BY <1>3, <1>4, <1>5, <1>6

LEMMA NextVInv == VInv /\ [Next]_vars => VInv'
    <1> SUFFICES ASSUME VInv, [Next]_vars PROVE VInv'
        OBVIOUS
    <1>1. CASE InspectValue
        <2>1. Inspection(found, calls)'
            BY <1>1, InspectValueKeeps DEF VInv
        <2>2. ~Reported'
            BY <1>1 DEF InspectValue, Reported
        <2> QED
            BY <1>1, <2>1, <2>2 DEF VInv, InspectValue, sent
    <1>2. CASE InspectTooDeep
        <2>1. Inspection(found, calls)'
            BY <1>2, InspectionKept DEF VInv, InspectTooDeep, sent
        <2>2. ~Reported'
            BY <1>2 DEF InspectTooDeep, Reported
        <2> QED
            BY <1>2, <2>1, <2>2 DEF VInv, InspectTooDeep, sent
    <1>3. CASE Validate
        <2>1. Inspection(found, calls)'
            BY <1>3, InspectionKept DEF VInv, Validate, sent
        <2>2. Violations' = Violations /\ ValidatedData # "none"
            BY <1>3 DEF Validate, Violations, ValidatedData, sent
        <2>3. calls' = <<>> /\ result'.violations = Violations
              /\ (result'.data # "none" <=> Violations = <<>>)
            BY <1>3, <2>2 DEF Validate
        <2> QED
            BY <1>3, <2>1, <2>2, <2>3 DEF VInv, Validate, sent
    <1>4. CASE UNCHANGED vars
        <2>1. Inspection(found, calls)'
            BY <1>4, InspectionKept DEF VInv, vars, sent
        <2> QED
            BY <1>4, <2>1 DEF VInv, vars, sent, Reported, Violations
    <1> QED
        BY <1>1, <1>2, <1>3, <1>4 DEF Next, Done

LEMMA AlwaysVInv == Spec => []VInv
    <1> QED
        BY InitVInv, NextVInv, PTL DEF Spec

-----------------------------------------------------------------------------
(* What follows from it. *)

\* Once nothing is left to inspect, the violations are the offences, each once,
\* and the errors of the schema.
LEMMA ViolationsRight ==
    ASSUME VInv, Reported
    PROVE  /\ \A path \in Path, reason \in Patterns : Offends(path, reason)
                  => [path |-> path, reason |-> reason] \in ToSet(Violations)
           /\ \A violation \in ToSet(Violations) :
                  \/ violation.reason = "schema" /\ violation \in ToSet(errors)
                  \/ Offends(violation.path, violation.reason)
           /\ ToSet(errors) \subseteq ToSet(Violations)
           /\ \A i, j \in DOMAIN Violations :
                  /\ Violations[i] = Violations[j]
                  /\ Violations[i].reason \in Patterns
                  => i = j
           /\ Violations # <<>> => \E i \in DOMAIN Violations : TRUE
           /\ Violations = <<>> => ToSet(Violations) = {} /\ errors = <<>>
           /\ errors = <<>> => ToSet(errors) = {}
    <1> DEFINE F == [path : Path, reason : Patterns]
               G == F \cup Mismatch
               n == Len(found)
               m == Len(errors)
               vs == Violations
    <1>1. found \in Seq(F) /\ calls = <<>> /\ Len(calls) = 0 /\ errors \in Seq(Mismatch)
        BY DEF VInv, Inspection, FoundRight
    <1>2. /\ n \in Nat /\ DOMAIN found = 1 .. n /\ m \in Nat /\ DOMAIN errors = 1 .. m
          /\ \A f \in 1 .. n : found[f].reason \in Patterns
          /\ \A f \in 1 .. m : errors[f].reason = "schema"
        <2>1. (\A x \in F : x.reason \in Patterns)
              /\ (\A x \in Mismatch : x.reason = "schema")
            BY DEF Mismatch
        <2> HIDE DEF F
        <2>2. (\A f \in 1 .. n : found[f] \in F)
              /\ (\A f \in 1 .. m : errors[f] \in Mismatch)
            BY <1>1
        <2>3. n \in Nat /\ DOMAIN found = 1 .. n /\ m \in Nat /\ DOMAIN errors = 1 .. m
            BY <1>1
        <2> QED
            BY <2>1, <2>2, <2>3
    <1>3. \A f \in 1 .. n : Offends(found[f].path, found[f].reason)
        BY DEF VInv, Inspection, FoundRight
    <1>4. \A f, g \in 1 .. n : found[f] = found[g] => f = g
        BY DEF VInv, Inspection, FoundRight
    <1>5. \A path \in Path, reason \in Patterns : Offends(path, reason) =>
              \E f \in 1 .. n : found[f] = [path |-> path, reason |-> reason]
        <2>1. ~(\E i \in 1 .. Len(calls) : TRUE)
            BY <1>1
        <2> QED
            BY <2>1 DEF VInv, Inspection, NothingLost
    <1>6. /\ vs \in Seq(G) /\ Len(vs) = n + m
          /\ \A i \in 1 .. n + m : vs[i] = IF i <= n THEN found[i] ELSE errors[i - n]
        <2>1. F \subseteq G /\ Mismatch \subseteq G
            OBVIOUS
        <2> HIDE DEF F, G
        <2>2. found \in Seq(G) /\ errors \in Seq(G)
            BY <1>1, <2>1, SeqMonotonic
        <2> QED
            BY <2>2, ConcatProperties DEF Violations
    <1> HIDE DEF F, G
    <1>7. DOMAIN vs = 1 .. n + m
        BY <1>6, <1>2
    <1>8. \A i \in 1 .. n : i \in DOMAIN vs /\ vs[i] = found[i]
        BY <1>2, <1>6, <1>7
    <1>9. \A i \in 1 .. m : n + i \in DOMAIN vs /\ vs[n + i] = errors[i]
        <2> TAKE i \in 1 .. m
        <2>1. n + i \in 1 .. n + m /\ ~(n + i <= n) /\ (n + i) - n = i
            BY <1>2
        <2> QED
            BY <1>6, <1>7, <2>1
    <1>10. \A i \in DOMAIN vs : \/ i \in 1 .. n /\ vs[i] = found[i]
                                \/ \E k \in 1 .. m : vs[i] = errors[k]
        <2> TAKE i \in DOMAIN vs
        <2>1. i \in 1 .. n \/ (i - n \in 1 .. m /\ ~(i <= n))
            BY <1>2, <1>7
        <2> QED
            BY <1>2, <1>6, <1>7, <2>1
    <1>11. vs # <<>> => \E i \in DOMAIN vs : TRUE
        <2>1. CASE vs # <<>>
            <3>1. Len(vs) # 0
                BY <1>6, <2>1, EmptySeq
            <3>2. 1 \in 1 .. n + m
                BY <1>2, <1>6, <3>1
            <3> QED
                BY <1>7, <3>2
        <2> QED
            BY <2>1
    <1>12. vs = <<>> => errors = <<>>
        <2>1. CASE vs = <<>>
            <3>1. n + m = 0
                BY <1>6, <2>1
            <3>2. m = 0
                BY <1>2, <3>1
            <3> QED
                BY <1>1, <3>2, EmptySeq
        <2> QED
            BY <2>1
    <1>13. /\ vs = <<>> => ToSet(vs) = {}
           /\ errors = <<>> => ToSet(errors) = {}
        BY DEF ToSet
    <1> HIDE DEF vs, n, m
    <1>14. ToSet(vs) = {vs[f] : f \in DOMAIN vs} /\ ToSet(errors) = {errors[f] : f \in 1 .. m}
        BY <1>2 DEF ToSet
    <1>15. \A path \in Path, reason \in Patterns : Offends(path, reason)
               => [path |-> path, reason |-> reason] \in ToSet(vs)
        BY <1>5, <1>8, <1>14
    <1>16. \A violation \in ToSet(vs) :
              \/ violation.reason = "schema" /\ violation \in ToSet(errors)
              \/ Offends(violation.path, violation.reason)
        <2> SUFFICES ASSUME NEW i \in DOMAIN vs
                     PROVE  \/ vs[i].reason = "schema" /\ vs[i] \in ToSet(errors)
                            \/ Offends(vs[i].path, vs[i].reason)
            BY <1>14
        <2>1. CASE i \in 1 .. n /\ vs[i] = found[i]
            BY <1>3, <2>1
        <2>2. ASSUME NEW k \in 1 .. m, vs[i] = errors[k]
              PROVE  vs[i].reason = "schema" /\ vs[i] \in ToSet(errors)
            BY <1>2, <1>14, <2>2
        <2> QED
            BY <1>10, <2>1, <2>2
    <1>17. ToSet(errors) \subseteq ToSet(vs)
        BY <1>9, <1>14
    <1>18. ASSUME NEW i \in DOMAIN vs, NEW j \in DOMAIN vs,
                  vs[i] = vs[j], vs[i].reason \in Patterns
           PROVE  i = j
        <2>1. \A k \in 1 .. m : errors[k].reason \notin Patterns
            BY <1>2, TreesOverPatterns
        <2>2. i \in 1 .. n /\ vs[i] = found[i] /\ j \in 1 .. n /\ vs[j] = found[j]
            BY <1>10, <1>18, <2>1
        <2> QED
            BY <1>4, <1>18, <2>2
    <1> QED
        BY <1>11, <1>12, <1>13, <1>15, <1>16, <1>17, <1>18 DEF vs

\* The report of validate names every string that matches a pattern and that
\* dictionaries and lists lead to, at its place and once for each pattern, all
\* errors of the schema and nothing else, whatever arguments an agent sends.
THEOREM ReportIsComplete == Spec => []ReportComplete
    <1>1. VInv => ReportComplete
        <2> SUFFICES ASSUME VInv, Reported PROVE ReportComplete
            BY DEF ReportComplete
        <2>1. result.violations = Violations
            BY DEF VInv
        <2> QED
            BY <2>1, ViolationsRight, TreesOverPatterns DEF ReportComplete
    <1> QED
        BY <1>1, AlwaysVInv, PTL

\* A handler receives data if no string that dictionaries and lists lead to
\* matches a pattern and the schema does not refuse the arguments, and only
\* then; what lies in keys, tuples, sets, bytes or models has no say in it.
THEOREM CleanDataOnly == Spec => []DataOnlyIfClean
    <1>1. VInv => DataOnlyIfClean
        <2> SUFFICES ASSUME VInv, Judged PROVE DataOnlyIfClean
            BY DEF DataOnlyIfClean
        <2>1. CASE result = Overflow
            BY <2>1 DEF DataOnlyIfClean, Overflow, NotYet
        <2>2. CASE Reported
            <3>1. /\ result.violations = Violations
                  /\ result.data # "none" <=> Violations = <<>>
                  /\ schema = "mismatch" <=> errors # <<>>
                BY <2>2 DEF VInv
            <3>2. CASE Violations = <<>>
                BY <2>2, <3>1, <3>2, ViolationsRight, TreesOverPatterns
                DEF DataOnlyIfClean
            <3>3. CASE Violations # <<>>
                <4>1. PICK i \in DOMAIN Violations : TRUE
                    BY <2>2, <3>3, ViolationsRight
                <4>2. Violations[i] \in ToSet(Violations)
                    BY <4>1 DEF ToSet
                <4> QED
                    BY <2>2, <3>1, <3>3, <4>2, ViolationsRight DEF DataOnlyIfClean
            <3> QED
                BY <3>2, <3>3
        <2> QED
            BY <2>1, <2>2 DEF Judged, Reported
    <1> QED
        BY <1>1, AlwaysVInv, PTL
=============================================================================
