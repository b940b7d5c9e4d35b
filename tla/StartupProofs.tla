---------------------------- MODULE StartupProofs ----------------------------
(***************************************************************************)
(* The safety of Startup, for any containers, invocations, users, schools, *)
(* years and faults.                                                       *)
(*                                                                         *)
(* The statements of a start are no transaction: one is cut short after    *)
(* any of them, and the next begins again at the first.  What makes that   *)
(* sound is that what a statement has established, no later one of any     *)
(* start takes away, but for the class_user that two starts may fight over.*)
(***************************************************************************)
EXTENDS Startup, FiniteSetTheorems, WellFoundedInduction, TLAPS

(* The statements a migrating bootstrap has behind it.                     *)
Past(i) == {Statements[n] : n \in 1 .. (boot[i] - 1)}

(* An application is the one its container keeps, and only a migrating     *)
(* bootstrap is in the middle of a statement.                              *)
Held(i) == /\ boot[i] # 0 => promise[Home[i]] = i
           /\ i \in mid => i \in Migrating

(* Before two have met, one migrates at most, and what it read about       *)
(* class_user is still so.                                                 *)
Alone == ~overlap => /\ \A i, j \in Migrating : i = j
                     /\ \A i \in mid :
                           At(i, "pivot") => ~("class_user" \in tables /\ pivot)

(* What the statements a bootstrap has behind it leave for ever.           *)
Passed(i) ==
    Home[i] \in migrates =>
        /\ \A t \in Past(i) \cap Tables :
              t \in tables \/ (overlap /\ t = "class_user")
        /\ "merge" \in Past(i)  => ~column
        /\ "unique" \in Past(i) => unique
        /\ "years" \in Past(i)  =>
              \A y \in Years : \E k \in Existing : class[k].year = y
        /\ "pivot" \in Past(i) /\ "class_user" \in tables => pivot

(* Once the school has gone from classes, a year is there once.            *)
OneClassAYear ==
    ~column => \A k, l \in Existing : class[k].year = class[l].year => k = l

(* class_user has no column and no row where it is not, and while it has   *)
(* no id, everyone in it was put in it so.                                 *)
PivotIsATable ==
    /\ pivot => "class_user" \in tables
    /\ "class_user" \notin tables => \A u \in Users : member[u] = 0
    /\ ~pivot => \A u \in Users : member[u] # 0 => u \in idless

Inv == /\ TypeOK /\ MembersKeepTheirYear
       /\ OneClassAYear /\ PivotIsATable /\ Alone
       /\ \A i \in Invocations : Held(i) /\ Passed(i)

-----------------------------------------------------------------------------
(* Finite sets of numbers.                                                 *)
LEMMA Least ==
    ASSUME NEW S \in SUBSET Nat, S # {}
    PROVE  \E x \in S : \A y \in S : x <= y
<1>1. PICK R : R = OpToRel(<, Nat)
  OBVIOUS
<1>2. \A x, y \in Nat : y < x => <<y, x>> \in R
  BY <1>1 DEF OpToRel
<1>3. IsWellFoundedOn(R, Nat)
  BY <1>1, NatLessThanWellFounded
<1>4. PICK x \in S : \A y \in S : ~(<<y, x>> \in R)
  BY <1>3, WFMin
<1>5. ASSUME NEW y \in S PROVE x <= y
  <2>1. x \in Nat /\ y \in Nat
    OBVIOUS
  <2>2. ~(y < x)
    BY <1>2, <1>4, <2>1
  <2> QED BY ONLY <2>1, <2>2
<1> QED BY <1>5

(* There is room in increasing order for as many numbers as there are.     *)
Fits(S, F) == \E f \in [S -> F] : \A x, y \in S : x < y => f[x] < f[y]

LEMMA FitsOneMore ==
    ASSUME NEW S \in SUBSET Nat, NEW F \in SUBSET Nat, NEW m \in S, NEW x \in F,
           \A y \in S : m <= y, \A y \in F : x <= y, Fits(S \ {m}, F \ {x})
    PROVE  Fits(S, F)
<1>1. PICK f \in [S \ {m} -> F \ {x}] : \A y, z \in S \ {m} : y < z => f[y] < f[z]
  BY DEF Fits
<1>2. PICK g : g = [y \in S |-> IF y = m THEN x ELSE f[y]]
  OBVIOUS
<1>3. g \in [S -> F] /\ g[m] = x /\ \A y \in S \ {m} : g[y] = f[y] /\ g[y] \in F \ {x}
  BY <1>1, <1>2
<1>4. \A y, z \in S : y < z => z # m
  OBVIOUS
<1>5. ASSUME NEW y \in S, NEW z \in S, y < z PROVE g[y] < g[z]
  <2>1. z \in S \ {m} /\ g[z] \in F \ {x} /\ g[z] = f[z]
    BY <1>3, <1>4, <1>5
  <2>2. CASE y = m
    <3>1. x <= g[z] /\ x # g[z] /\ g[z] \in Nat /\ x \in Nat
      BY <2>1
    <3> QED BY <1>3, <2>2, <3>1
  <2>3. CASE y # m
    BY <1>1, <1>3, <1>5, <2>1, <2>3
  <2> QED BY <2>2, <2>3
<1> QED BY <1>3, <1>5 DEF Fits

LEMMA Increasing ==
    ASSUME NEW S \in SUBSET Nat, NEW F \in SUBSET Nat,
           IsFiniteSet(S), IsFiniteSet(F), Cardinality(S) <= Cardinality(F)
    PROVE  Fits(S, F)
<1> DEFINE Small(T, G) == /\ IsFiniteSet(T) /\ IsFiniteSet(G)
                          /\ Cardinality(T) <= Cardinality(G) /\ ~Fits(T, G)
           Bad == {n \in Nat : \E T \in SUBSET S, G \in SUBSET F :
                                  Small(T, G) /\ Cardinality(T) = n}
<1>1. SUFFICES ASSUME Bad # {} PROVE FALSE
  <2>1. Cardinality(S) \in Nat
    BY FS_CardinalityType
  <2>2. Fits(S, F) \/ Cardinality(S) \in Bad
    BY <2>1
  <2> QED BY <2>2
<1>2. PICK n \in Bad : \A k \in Bad : n <= k
  BY <1>1, Least
<1>3. PICK T \in SUBSET S, G \in SUBSET F : Small(T, G) /\ Cardinality(T) = n
  BY <1>2
<1>4. T # {}
  <2>1. ASSUME T = {} PROVE FALSE
    <3>1. PICK f : f = [y \in T |-> 0]
      OBVIOUS
    <3>2. f \in [T -> G] /\ \A x, y \in T : x < y => f[x] < f[y]
      BY <2>1, <3>1
    <3> QED BY <1>3, <3>2 DEF Fits
  <2> QED BY <2>1
<1>5. Cardinality(T) \in Nat \ {0} /\ Cardinality(G) \in Nat /\ G # {}
  BY <1>3, <1>4, FS_CardinalityType, FS_EmptySet
<1>6. PICK m \in T : \A y \in T : m <= y
  BY <1>4, Least
<1>7. PICK x \in G : \A y \in G : x <= y
  BY <1>5, Least
<1>8. /\ IsFiniteSet(T \ {m}) /\ Cardinality(T \ {m}) = n - 1
      /\ IsFiniteSet(G \ {x}) /\ Cardinality(G \ {x}) = Cardinality(G) - 1
  BY <1>3, FS_RemoveElement
<1>9. Fits(T \ {m}, G \ {x})
  <2>1. n - 1 \notin Bad /\ n - 1 \in Nat
    BY <1>2, <1>3, <1>5
  <2>2. ~Small(T \ {m}, G \ {x})
    BY <1>8, <2>1
  <2>3. Cardinality(T \ {m}) <= Cardinality(G \ {x})
    BY <1>3, <1>5, <1>8
  <2> QED BY <1>8, <2>2, <2>3
<1>10. T \in SUBSET Nat /\ G \in SUBSET Nat
  OBVIOUS
<1>11. Fits(T, G)
  BY <1>6, <1>7, <1>9, <1>10, FitsOneMore
<1> QED BY <1>3, <1>11

-----------------------------------------------------------------------------
(* The order of the statements.                                            *)
LEMMA InOrder ==
    /\ Len(Statements) = 16 /\ Ready = 17
    /\ \A n \in 1 .. 16 : Statements[n] \in Tables \cup {"merge", "unique", "years", "pivot"}
    /\ \A n \in 1 .. 16 : /\ Statements[n] = "merge"      <=> n = 4
                          /\ Statements[n] = "unique"     <=> n = 5
                          /\ Statements[n] = "years"      <=> n = 6
                          /\ Statements[n] = "pivot"      <=> n = 9
                          /\ Statements[n] = "class_user" <=> n = 10
    /\ \A t \in Tables : \E n \in 1 .. 16 : Statements[n] = t
<1>1. Len(Statements) = 16 /\ Ready = 17
  BY DEF Statements, Ready
<1>2. /\ Statements[1] = "schools" /\ Statements[2] = "classes"
      /\ Statements[3] = "class_school" /\ Statements[4] = "merge"
      /\ Statements[5] = "unique" /\ Statements[6] = "years"
      /\ Statements[7] = "users" /\ Statements[8] = "profiles"
      /\ Statements[9] = "pivot" /\ Statements[10] = "class_user"
      /\ Statements[11] = "events" /\ Statements[12] = "comments"
      /\ Statements[13] = "gallery_photos" /\ Statements[14] = "password_reset_tokens"
      /\ Statements[15] = "email_verification_tokens" /\ Statements[16] = "feedback"
  BY DEF Statements
<1>3. \A n \in 1 .. 16 : n \in {1, 2, 3, 4, 5, 6, 7, 8, 9, 10, 11, 12, 13, 14, 15, 16}
  OBVIOUS
<1>4. \A n \in 1 .. 16 : Statements[n] \in Tables \cup {"merge", "unique", "years", "pivot"}
  BY <1>2, <1>3 DEF Tables
<1>5. \A n \in 1 .. 16 : /\ Statements[n] = "merge"      <=> n = 4
                         /\ Statements[n] = "unique"     <=> n = 5
                         /\ Statements[n] = "years"      <=> n = 6
                         /\ Statements[n] = "pivot"      <=> n = 9
                         /\ Statements[n] = "class_user" <=> n = 10
  BY <1>2, <1>3
<1>6. \A t \in Tables : \E n \in 1 .. 16 : Statements[n] = t
  BY <1>2 DEF Tables
<1> QED BY <1>1, <1>4, <1>5, <1>6

LEMMA PastInOrder ==
    ASSUME NEW i \in Invocations, boot[i] \in 0 .. Ready
    PROVE  /\ "class_user" \in Past(i) => "pivot" \in Past(i)
           /\ "years" \in Past(i) => "merge" \in Past(i)
           /\ Running(i) /\ Statements[boot[i]] \in {"unique", "years"}
                 => "merge" \in Past(i)
           /\ boot[i] = Ready
                 => Tables \cup {"merge", "unique", "years"} \subseteq Past(i)
<1>1. \A n \in 1 .. 16 : n < boot[i] => Statements[n] \in Past(i)
  BY DEF Past
<1>2. \A s \in Past(i) : \E n \in 1 .. 16 : n < boot[i] /\ Statements[n] = s
  BY InOrder DEF Past
<1>3. /\ "class_user" \in Past(i) => "pivot" \in Past(i)
      /\ "years" \in Past(i) => "merge" \in Past(i)
  BY <1>1, <1>2, InOrder
<1>4. Running(i) /\ Statements[boot[i]] \in {"unique", "years"} => "merge" \in Past(i)
  BY <1>1, InOrder DEF Running
<1>5. boot[i] = Ready => Tables \cup {"merge", "unique", "years"} \subseteq Past(i)
  BY <1>1, InOrder
<1> QED BY <1>3, <1>4, <1>5

-----------------------------------------------------------------------------
(* The classes: which of a year is kept, and that there is room for all    *)
(* the years.                                                              *)
LEMMA ClassIdsAreFinite ==
    /\ IsFiniteSet(Years) /\ Cardinality(Years) \in Nat
    /\ ClassIds \in SUBSET Nat /\ IsFiniteSet(ClassIds)
    /\ Cardinality(ClassIds) = 2 * Cardinality(Years)
<1>1. IsFiniteSet(Years) /\ Cardinality(Years) \in Nat
  BY StartupAssumption, FS_CardinalityType
<1>2. PICK n \in Nat : n = 2 * Cardinality(Years)
  BY <1>1
<1>3. ClassIds = 1 .. n
  BY <1>2 DEF ClassIds
<1>4. IsFiniteSet(1 .. n) /\ Cardinality(1 .. n) = n
  BY <1>2, FS_Interval
<1> QED BY <1>1, <1>2, <1>3, <1>4

LEMMA YearsOfClasses ==
    ASSUME TypeOK, NEW k \in Existing
    PROVE  k \in ClassIds /\ class[k].year \in Years /\ class[k].year # 0
           /\ class[k].school \in Schools \cup {Null}
BY StartupAssumption DEF TypeOK, Existing

LEMMA KeptIsFirst ==
    ASSUME TypeOK, NEW k \in Existing
    PROVE  /\ Kept(k) \in Existing /\ class[Kept(k)].year = class[k].year
           /\ \A l \in Existing : class[l].year = class[k].year => Kept(k) <= l
<1> DEFINE S == {j \in Existing : class[j].year = class[k].year}
<1>1. S \in SUBSET Nat /\ S # {}
  BY ClassIdsAreFinite DEF Existing
<1>2. PICK j \in S : \A l \in S : j <= l
  BY <1>1, Least
<1>3. \E i \in Existing : /\ class[i].year = class[k].year
                          /\ \A l \in Existing : class[l].year = class[k].year => i <= l
  BY <1>2
<1> QED BY <1>3 DEF Kept

LEMMA KeptAlike ==
    ASSUME TypeOK, NEW k \in Existing, NEW l \in Existing,
           class[k].year = class[l].year
    PROVE  Kept(k) = Kept(l)
<1>1. Kept(k) <= Kept(l) /\ Kept(l) <= Kept(k)
  BY KeptIsFirst
<1>2. Kept(k) \in Nat /\ Kept(l) \in Nat
  BY KeptIsFirst, ClassIdsAreFinite DEF Existing
<1> QED BY <1>1, <1>2

MissingYears == {y \in Years : \A k \in Existing : class[k].year # y}

LEMMA Room ==
    ASSUME TypeOK, OneClassAYear, ~column
    PROVE  Fits(MissingYears, ClassIds \ Existing)
<1> DEFINE year == [k \in Existing |-> class[k].year]
<1>1. /\ IsFiniteSet(Years) /\ Cardinality(Years) \in Nat
      /\ IsFiniteSet(ClassIds) /\ Cardinality(ClassIds) = 2 * Cardinality(Years)
      /\ ClassIds \in SUBSET Nat /\ Existing \in SUBSET ClassIds
  BY ClassIdsAreFinite DEF Existing
<1>2. year \in Injection(Existing, Years)
  BY YearsOfClasses DEF OneClassAYear, Injection, IsInjective
<1>3. IsFiniteSet(Existing) /\ Cardinality(Existing) <= Cardinality(Years)
  BY <1>1, <1>2, FS_Injection
<1>4. Cardinality(Existing) \in Nat
  BY <1>3, FS_CardinalityType
<1>5. ClassIds \cap Existing = Existing
  BY <1>1
<1>6. /\ IsFiniteSet(ClassIds \ Existing)
      /\ Cardinality(ClassIds \ Existing) = 2 * Cardinality(Years) - Cardinality(Existing)
  <2>1. /\ IsFiniteSet(ClassIds \ Existing)
        /\ Cardinality(ClassIds \ Existing)
              = Cardinality(ClassIds) - Cardinality(ClassIds \cap Existing)
    BY <1>1, FS_Difference
  <2> QED BY <1>1, <1>5, <2>1
<1>7. MissingYears \in SUBSET Years
  BY DEF MissingYears
<1>8. /\ IsFiniteSet(MissingYears)
      /\ Cardinality(MissingYears) <= Cardinality(Years)
      /\ Cardinality(MissingYears) \in Nat
  BY <1>1, <1>7, FS_Subset, FS_CardinalityType
<1>9. Cardinality(MissingYears) <= Cardinality(ClassIds \ Existing)
  BY <1>1, <1>3, <1>4, <1>6, <1>8
<1>10. MissingYears \in SUBSET Nat /\ ClassIds \ Existing \in SUBSET Nat
  BY <1>1, <1>7, StartupAssumption
<1> QED BY <1>6, <1>8, <1>9, <1>10, Increasing

(* What the INSERT of the years does.                                      *)
LEMMA Seeded ==
    ASSUME TypeOK, OneClassAYear, ~column, NEW i \in Invocations, SeedYears(i)
    PROVE  /\ class' \in [ClassIds -> [year : Years, school : Schools \cup {Null}]
                                         \cup {NoClass}]
           /\ \A k \in Existing : k \in Existing' /\ class'[k] = class[k]
           /\ \A y \in Years : \E k \in Existing' : class'[k].year = y
           /\ \A k \in Existing' \ Existing, l \in Existing' :
                 class'[k].year = class'[l].year => k = l
<1> DEFINE free == ClassIds \ Existing
           missing == MissingYears
<1>1. PICK id : id = CHOOSE f \in [missing -> free] :
                        \A x, y \in missing : x < y => f[x] < f[y]
  OBVIOUS
<1>2. id \in [missing -> free] /\ \A x, y \in missing : x < y => id[x] < id[y]
  <2>1. \E f \in [missing -> free] : \A x, y \in missing : x < y => f[x] < f[y]
    BY Room DEF Fits
  <2> QED BY <1>1, <2>1
<1>3. missing \in SUBSET Nat /\ missing \in SUBSET Years /\ free \in SUBSET Nat
  BY StartupAssumption, ClassIdsAreFinite DEF MissingYears
<1>4. ASSUME NEW x \in missing, NEW y \in missing, id[x] = id[y] PROVE x = y
  <2>1. x \in Nat /\ y \in Nat /\ id[x] \in Nat /\ id[y] \in Nat
    BY <1>2, <1>3
  <2>2. ~(x < y) /\ ~(y < x)
    BY <1>2, <1>4, <2>1
  <2> QED BY ONLY <2>1, <2>2
<1>5. class' = [k \in ClassIds |->
                   IF \E y \in missing : id[y] = k
                   THEN [year |-> CHOOSE y \in missing : id[y] = k, school |-> Null]
                   ELSE class[k]]
  BY <1>1 DEF SeedYears, MissingYears
<1> HIDE DEF free, missing
<1>6. \A y \in missing : /\ id[y] \in ClassIds /\ id[y] \notin Existing
                         /\ class'[id[y]] = [year |-> y, school |-> Null]
  <2>1. ASSUME NEW y \in missing
        PROVE  y = CHOOSE x \in missing : id[x] = id[y]
    BY <1>4
  <2>2. \A y \in missing : id[y] \in ClassIds /\ id[y] \notin Existing
    BY <1>2 DEF free
  <2> QED BY <1>5, <2>1, <2>2
<1>7. \A k \in ClassIds : (\A y \in missing : id[y] # k) => class'[k] = class[k]
  BY <1>5
<1>8. \A y \in missing : [year |-> y, school |-> Null] # NoClass
                         /\ y \in Years
  BY <1>3, StartupAssumption DEF NoClass
<1>9. \A k \in Existing : k \in Existing' /\ class'[k] = class[k]
  BY <1>6, <1>7 DEF Existing
<1>10. \A k \in Existing' : k \in Existing \/ \E y \in missing : id[y] = k
  BY <1>7 DEF Existing
<1>11. ASSUME NEW y \in missing
       PROVE  id[y] \in Existing' /\ class'[id[y]].year = y
  <2>1. PICK c : c = [year |-> y, school |-> Null]
    OBVIOUS
  <2>2. class'[id[y]] = c /\ id[y] \in ClassIds
    BY <1>6, <2>1
  <2>3. c # NoClass /\ c.year = y
    BY <1>8, <2>1
  <2> QED BY <2>2, <2>3 DEF Existing
<1>12. \A y \in Years : \E k \in Existing' : class'[k].year = y
  BY <1>9, <1>11 DEF missing, MissingYears
<1>13. \A k \in ClassIds : class'[k] \in [year : Years, school : Schools \cup {Null}]
                                            \cup {NoClass}
  <2>1. \A k \in ClassIds : class[k] \in [year : Years, school : Schools \cup {Null}]
                                            \cup {NoClass}
    BY DEF TypeOK
  <2>2. ASSUME NEW k \in ClassIds, NEW y \in missing, id[y] = k
        PROVE  class'[k] \in [year : Years, school : Schools \cup {Null}]
    <3>1. y \in Years /\ Null \in Schools \cup {Null}
      BY <1>8
    <3>2. class'[k] = [year |-> y, school |-> Null]
      BY <1>6, <2>2
    <3> QED BY <3>1, <3>2
  <2> QED BY <1>7, <2>1, <2>2
<1>14. class' = [k \in ClassIds |-> class'[k]]
  BY <1>5
<1>15. ASSUME NEW k \in Existing' \ Existing, NEW l \in Existing',
              class'[k].year = class'[l].year
       PROVE  k = l
  <2>1. PICK y \in missing : id[y] = k
    BY <1>10
  <2>2. class'[k].year = y
    BY <1>11, <2>1
  <2>3. CASE l \in Existing
    BY <1>9, <1>15, <2>2, <2>3 DEF missing, MissingYears
  <2>4. CASE \E x \in missing : id[x] = l
    BY <1>11, <1>15, <2>1, <2>2, <2>4
  <2> QED BY <1>10, <2>3, <2>4
<1> QED BY <1>9, <1>12, <1>13, <1>14, <1>15

-----------------------------------------------------------------------------
(* What no step of any start takes away.                                   *)
Keeps ==
    /\ migrates' = migrates /\ (overlap => overlap')
    /\ \A t \in tables : t \in tables' \/ (t = "class_user" /\ (overlap' \/ ~pivot))
    /\ (column' => column) /\ (unique => unique')
    /\ ~column => \A k \in Existing : \E l \in Existing' : class'[l].year = class[k].year
    /\ "class_user" \in tables' => pivot' \/ ("class_user" \in tables /\ ~pivot)

LEMMA PassedLasts ==
    ASSUME Inv, Keeps, NEW j \in Invocations, boot'[j] \in {0, boot[j]}
    PROVE  Passed(j)'
<1>1. boot[j] \in 0 .. Ready /\ Passed(j)
  BY DEF Inv, TypeOK
<1>2. CASE boot'[j] = 0
  <2>1. Past(j)' = {}
    BY <1>2 DEF Past
  <2> QED BY <2>1 DEF Passed
<1>3. CASE boot'[j] = boot[j]
  <2>1. Past(j)' = Past(j)
    BY <1>3 DEF Past
  <2>2. "class_user" \in Past(j) => "pivot" \in Past(j)
    BY <1>1, PastInOrder
  <2>3. "years" \in Past(j) => "merge" \in Past(j)
    BY <1>1, PastInOrder
  <2>4. SUFFICES ASSUME Home[j] \in migrates PROVE Passed(j)'
    BY DEF Keeps, Passed
  <2>5. ASSUME NEW t \in Past(j) \cap Tables
        PROVE  t \in tables' \/ (overlap' /\ t = "class_user")
    <3>1. CASE t = "class_user"
      BY <1>1, <2>2, <2>4, <2>5, <3>1 DEF Passed, Keeps, Tables
    <3>2. CASE t # "class_user"
      BY <1>1, <2>4, <2>5, <3>2 DEF Passed, Keeps
    <3> QED BY <3>1, <3>2
  <2>6. ASSUME "years" \in Past(j), NEW y \in Years
        PROVE  \E k \in Existing' : class'[k].year = y
    BY <1>1, <2>3, <2>4, <2>6 DEF Passed, Keeps
  <2>7. "merge" \in Past(j) => ~column'
    BY <1>1, <2>4 DEF Passed, Keeps
  <2>8. "unique" \in Past(j) => unique'
    BY <1>1, <2>4 DEF Passed, Keeps
  <2>9. "pivot" \in Past(j) /\ "class_user" \in tables' => pivot'
    BY <1>1, <2>4 DEF Passed, Keeps
  <2> QED BY <2>1, <2>5, <2>6, <2>7, <2>8, <2>9 DEF Passed
<1> QED BY <1>2, <1>3

LEMMA PassedOn ==
    ASSUME Inv, Keeps, NEW i \in Invocations, Running(i), boot'[i] = boot[i] + 1,
           NEW s, s = Statements[boot[i]],
           s \in Tables => s \in tables',
           s = "merge"  => ~column',
           s = "unique" => unique',
           s = "years"  => \A y \in Years : \E k \in Existing' : class'[k].year = y,
           s = "pivot" /\ "class_user" \in tables' => pivot'
    PROVE  Passed(i)'
<1>1. boot[i] \in 1 .. 16
  BY InOrder DEF Running
<1>2. Past(i)' \subseteq Past(i) \cup {s}
  <2>1. \A n \in 1 .. (boot'[i] - 1) : n \in 1 .. (boot[i] - 1) \/ n = boot[i]
    BY <1>1
  <2> QED BY <2>1 DEF Past
<1>3. SUFFICES ASSUME Home[i] \in migrates PROVE Passed(i)'
  BY DEF Keeps, Passed
<1>4. boot[i] \in 0 .. Ready /\ Passed(i)
  BY DEF Inv, TypeOK
<1>5. "class_user" \in Past(i) => "pivot" \in Past(i)
  BY <1>4, PastInOrder
<1>6. "years" \in Past(i) => "merge" \in Past(i)
  BY <1>4, PastInOrder
<1>7. ASSUME NEW t \in Past(i) \cap Tables
      PROVE  t \in tables' \/ (overlap' /\ t = "class_user")
  <2>1. CASE t = "class_user"
    BY <1>3, <1>4, <1>5, <1>7, <2>1 DEF Passed, Keeps, Tables
  <2>2. CASE t # "class_user"
    BY <1>3, <1>4, <1>7, <2>2 DEF Passed, Keeps
  <2> QED BY <2>1, <2>2
<1>8. ASSUME "years" \in Past(i), NEW y \in Years
      PROVE  \E k \in Existing' : class'[k].year = y
  BY <1>3, <1>4, <1>6, <1>8 DEF Passed, Keeps
<1>9. "merge" \in Past(i) => ~column'
  BY <1>3, <1>4 DEF Passed, Keeps
<1>10. "unique" \in Past(i) => unique'
  BY <1>3, <1>4 DEF Passed, Keeps
<1>11. "pivot" \in Past(i) /\ "class_user" \in tables' => pivot'
  BY <1>3, <1>4 DEF Passed, Keeps
<1> QED BY <1>2, <1>7, <1>8, <1>9, <1>10, <1>11 DEF Passed

(* A step that leaves the schema alone keeps all of it.                    *)
LEMMA SchemaAlone ==
    ASSUME Inv, UNCHANGED <<migrates, schema>>, overlap => overlap'
    PROVE  /\ Keeps /\ OneClassAYear' /\ PivotIsATable' /\ MembersKeepTheirYear'
           /\ UNCHANGED <<tables, class, column, unique, member, pivot, was, idless,
                          Existing>>
<1>1. UNCHANGED <<tables, class, column, unique, member, pivot, was, idless, migrates>>
  BY DEF schema
<1>2. Existing' = Existing
  BY <1>1 DEF Existing
<1>3. Keeps
  BY <1>1, <1>2 DEF Keeps, Inv, PivotIsATable
<1>4. OneClassAYear' /\ PivotIsATable' /\ MembersKeepTheirYear'
  BY <1>1, <1>2 DEF Inv, OneClassAYear, PivotIsATable, MembersKeepTheirYear
<1> QED BY <1>1, <1>2, <1>3, <1>4

-----------------------------------------------------------------------------
(* How a bootstrap goes on, pauses and ends.                               *)
LEMMA DoneBy ==
    ASSUME Inv, NEW i \in Migrating, Done(i), migrates' = migrates
    PROVE  /\ boot' \in [Invocations -> 0 .. Ready] /\ boot'[i] = boot[i] + 1
           /\ \A j \in Invocations \ {i} : boot'[j] = boot[j]
           /\ promise' = promise /\ waiting' = waiting /\ mid' = mid \ {i}
           /\ \A j \in Invocations : Held(j)'
           /\ ~overlap => mid' = {} /\ \A j, k \in Migrating' : j = k
<1>1. /\ i \in Invocations /\ boot[i] \in 1 .. 16 /\ Ready = 17 /\ TypeOK
      /\ promise[Home[i]] = i /\ Home[i] \in Containers
  BY InOrder, StartupAssumption DEF Migrating, Running, Inv, Held
<1>2. /\ boot' = [boot EXCEPT ![i] = @ + 1] /\ mid' = mid \ {i} /\ waiting' = waiting
      /\ promise' = [promise EXCEPT ![Home[i]] =
                        IF boot[i] + 1 = Ready /\ @ = Null THEN i ELSE @]
  BY DEF Done
<1>3. promise' = promise
  BY <1>1, <1>2, StartupAssumption DEF TypeOK
<1>4. /\ boot' \in [Invocations -> 0 .. Ready] /\ boot'[i] = boot[i] + 1
      /\ \A j \in Invocations \ {i} : boot'[j] = boot[j]
  BY <1>1, <1>2 DEF TypeOK
<1>5. \A j \in Migrating' : j \in Migrating
  BY <1>1, <1>4 DEF Migrating, Running
<1>6. ASSUME NEW j \in Invocations PROVE Held(j)'
  <2>1. Held(j)
    BY DEF Inv
  <2>2. j \in mid' => j \in Migrating'
    BY <1>2, <1>4, <2>1 DEF Held, Migrating, Running
  <2> QED BY <1>1, <1>3, <1>4, <2>1, <2>2 DEF Held
<1>7. ASSUME ~overlap PROVE mid' = {} /\ \A j, k \in Migrating' : j = k
  <2>1. \A j \in Migrating : j = i
    BY <1>7 DEF Inv, Alone
  <2>2. \A j \in mid : j \in Migrating
    BY <1>1 DEF Inv, Held, TypeOK
  <2> QED BY <1>2, <1>5, <2>1, <2>2
<1> QED BY <1>2, <1>3, <1>4, <1>6, <1>7

LEMMA PausedBy ==
    ASSUME Inv, NEW i \in Migrating, Pause(i), migrates' = migrates
    PROVE  /\ boot' = boot /\ promise' = promise /\ waiting' = waiting
           /\ mid' = mid \cup {i} /\ Migrating' = Migrating
           /\ \A j \in Invocations : Held(j)'
           /\ ~overlap => mid' = {i} /\ \A j, k \in Migrating' : j = k
<1>1. /\ boot' = boot /\ promise' = promise /\ waiting' = waiting
      /\ mid' = mid \cup {i}
  BY DEF Pause
<1>2. Migrating' = Migrating
  BY <1>1 DEF Migrating, Running
<1>3. \A j \in Invocations : Held(j)'
  BY <1>1, <1>2 DEF Inv, Held
<1>4. \A j \in mid : j \in Migrating
  BY DEF Inv, Held, TypeOK
<1>5. ~overlap => \A j, k \in Migrating : j = k
  BY DEF Inv, Alone
<1> QED BY <1>1, <1>2, <1>3, <1>4, <1>5

LEMMA RejectedBy ==
    ASSUME Inv, NEW i \in Migrating, Reject(i), migrates' = migrates
    PROVE  /\ boot' \in [Invocations -> 0 .. Ready]
           /\ \A j \in Invocations : boot'[j] \in {0, boot[j]}
           /\ promise' \in [Containers -> Invocations \cup {Null}]
           /\ waiting' \subseteq Invocations /\ mid' \subseteq Invocations
           /\ \A j \in Invocations : Held(j)'
           /\ ~overlap => mid' = {} /\ \A j, k \in Migrating' : j = k
<1>1. /\ i \in Invocations /\ boot[i] \in 1 .. 16 /\ Ready = 17 /\ TypeOK
      /\ promise[Home[i]] = i /\ Home[i] \in Containers
  BY InOrder, StartupAssumption DEF Migrating, Running, Inv, Held
<1>2. /\ boot' = [boot EXCEPT ![i] = 0] /\ mid' = mid \ {i} /\ waiting' \subseteq waiting
      /\ promise' = [promise EXCEPT ![Home[i]] = IF @ = i THEN Null ELSE @]
  BY DEF Reject
<1>3. /\ boot' \in [Invocations -> 0 .. Ready] /\ boot'[i] = 0
      /\ \A j \in Invocations \ {i} : boot'[j] = boot[j]
  BY <1>1, <1>2 DEF TypeOK
<1>4. /\ promise' \in [Containers -> Invocations \cup {Null}]
      /\ \A c \in Containers : c # Home[i] => promise'[c] = promise[c]
  BY <1>1, <1>2 DEF TypeOK
<1>5. \A j \in Migrating' : j \in Migrating
  BY <1>1, <1>3 DEF Migrating, Running
<1>6. ASSUME NEW j \in Invocations PROVE Held(j)'
  <2>1. Held(j) /\ Home[j] \in Containers
    BY StartupAssumption DEF Inv
  <2>2. j \in mid' => j \in Migrating'
    BY <1>2, <1>3, <2>1 DEF Held, Migrating, Running
  <2>3. boot'[j] # 0 => Home[j] # Home[i]
    BY <1>1, <1>3, <2>1 DEF Held
  <2> QED BY <1>3, <1>4, <2>1, <2>2, <2>3 DEF Held
<1>7. ASSUME ~overlap PROVE mid' = {} /\ \A j, k \in Migrating' : j = k
  <2>1. \A j \in Migrating : j = i
    BY <1>7 DEF Inv, Alone
  <2>2. \A j \in mid : j \in Migrating
    BY <1>1 DEF Inv, Held, TypeOK
  <2> QED BY <1>2, <1>5, <2>1, <2>2
<1> QED BY <1>1, <1>2, <1>3, <1>4, <1>6, <1>7 DEF TypeOK

-----------------------------------------------------------------------------
(* The steps.                                                              *)
LEMMA HandlerStep ==
    ASSUME Inv, NEW i \in Invocations, Handler(i)  PROVE Inv'
<1>1. /\ UNCHANGED <<mid, migrates, schema, faults>> /\ TypeOK
      /\ waiting' = waiting \cup {i} /\ ~Running(i) /\ Home[i] \in Containers
  BY StartupAssumption DEF Handler, Inv
<1>2. CASE promise[Home[i]] # Null
  <2>1. UNCHANGED <<promise, boot, overlap>>
    BY <1>2 DEF Handler
  <2>2. /\ Keeps /\ OneClassAYear' /\ PivotIsATable' /\ MembersKeepTheirYear'
        /\ UNCHANGED <<tables, class, column, unique, member, pivot, was, idless,
                       Existing>>
    BY <1>1, <2>1, SchemaAlone
  <2>3. TypeOK'
    BY <1>1, <2>1, <2>2 DEF TypeOK
  <2>4. Migrating' = Migrating
    BY <1>1, <2>1 DEF Migrating, Running
  <2>5. Alone' /\ \A j \in Invocations : Held(j)'
    BY <1>1, <2>1, <2>2, <2>4 DEF Inv, Alone, Held, At
  <2>6. \A j \in Invocations : Passed(j)'
    BY <2>1, <2>2, PassedLasts
  <2> QED BY <2>2, <2>3, <2>5, <2>6 DEF Inv
<1>3. CASE promise[Home[i]] = Null
  <2>1. /\ promise' = [promise EXCEPT ![Home[i]] = i]
        /\ boot' = [boot EXCEPT ![i] = IF Home[i] \in migrates THEN 1 ELSE Ready]
        /\ overlap' = (overlap \/ (Home[i] \in migrates /\ Migrating # {}))
    BY <1>3 DEF Handler
  <2>2. /\ Keeps /\ OneClassAYear' /\ PivotIsATable' /\ MembersKeepTheirYear'
        /\ UNCHANGED <<tables, class, column, unique, member, pivot, was, idless,
                       Existing>>
    BY <1>1, <2>1, SchemaAlone
  <2>3. Ready = 17 /\ Len(Statements) = 16
    BY InOrder
  <2>4. boot' \in [Invocations -> 0 .. Ready] /\ \A j \in Invocations \ {i} : boot'[j] = boot[j]
    BY <1>1, <2>1, <2>3 DEF TypeOK
  <2>5. promise' \in [Containers -> Invocations \cup {Null}] /\ promise'[Home[i]] = i
        /\ \A c \in Containers : c # Home[i] => promise'[c] = promise[c]
    BY <1>1, <2>1 DEF TypeOK
  <2>6. TypeOK'
    <3>1. overlap' \in BOOLEAN
      BY <1>1, <2>1 DEF TypeOK
    <3> QED BY <1>1, <2>2, <2>4, <2>5, <3>1 DEF TypeOK
  <2>7. ASSUME NEW j \in Invocations PROVE Held(j)'
    <3>1. Held(j) /\ Home[j] \in Containers /\ j # Null
      BY StartupAssumption DEF Inv
    <3>2. boot[j] # 0 => Home[j] # Home[i]
      BY <1>3, <3>1 DEF Held
    <3>3. j \in mid' => j # i /\ j \in Migrating'
      BY <1>1, <2>4, <3>1 DEF Held, Migrating, Running
    <3> QED BY <1>1, <2>4, <2>5, <3>1, <3>2, <3>3 DEF Held
  <2>8. \A j \in Migrating' : j \in Migrating \/ (j = i /\ Home[i] \in migrates)
    BY <1>1, <2>1, <2>3, <2>4 DEF Migrating, Running, TypeOK
  <2>9. Alone'
    <3>1. SUFFICES ASSUME ~overlap' PROVE Alone'
      BY DEF Alone
    <3>2. ~overlap /\ (Home[i] \in migrates => Migrating = {})
      BY <2>1, <3>1 DEF TypeOK
    <3>3. \A j, k \in Migrating' : j = k
      BY <2>8, <3>2 DEF Inv, Alone
    <3>4. ASSUME NEW j \in mid', At(j, "pivot")'
          PROVE  ~("class_user" \in tables /\ pivot)
      <4>1. j \in Migrating /\ j \in Invocations
        BY <1>1, <3>4 DEF Inv, Held, TypeOK
      <4>2. j # i
        BY <1>1, <4>1 DEF Migrating
      <4>3. At(j, "pivot")
        BY <2>4, <3>4, <4>1, <4>2 DEF At
      <4> QED BY <1>1, <3>2, <3>4, <4>3 DEF Inv, Alone
    <3> QED BY <2>2, <3>3, <3>4 DEF Alone
  <2>10. ASSUME NEW j \in Invocations PROVE Passed(j)'
    <3>1. CASE j # i
      BY <2>2, <2>4, <3>1, PassedLasts
    <3>2. CASE j = i
      <4>1. Home[i] \in migrates => boot'[i] = 1
        BY <1>1, <2>1 DEF TypeOK
      <4>2. Home[i] \in migrates => Past(i)' = {}
        BY <4>1 DEF Past
      <4> QED BY <1>1, <3>2, <4>2 DEF Passed
    <3> QED BY <3>1, <3>2
  <2> QED BY <2>2, <2>6, <2>7, <2>9, <2>10 DEF Inv
<1> QED BY <1>2, <1>3

LEMMA AnswerStep ==
    ASSUME Inv, NEW i \in Invocations, Answer(i)  PROVE Inv'
<1>1. /\ UNCHANGED <<promise, boot, mid, migrates, tables, class, column, unique,
                     pivot, faults, overlap>>
      /\ waiting' = waiting \ {i} /\ TypeOK
  BY DEF Answer, Inv
<1>2. Existing' = Existing /\ Migrating' = Migrating
  BY <1>1 DEF Existing, Migrating, Running
<1>3. \/ UNCHANGED <<member, was, idless>>
      \/ \E u \in Users, k \in Existing :
            /\ "class_user" \in tables
            /\ member' = [member EXCEPT ![u] = k]
            /\ was' = [was EXCEPT ![u] = class[k].year]
            /\ idless' = IF pivot THEN idless \ {u} ELSE idless \cup {u}
  BY DEF Answer
<1>4. /\ member' \in [Users -> Existing \cup {0}] /\ was' \in [Users -> Years \cup {0}]
      /\ idless' \subseteq Users /\ PivotIsATable' /\ MembersKeepTheirYear'
  <2>1. CASE UNCHANGED <<member, was, idless>>
    BY <1>1, <1>2, <2>1 DEF TypeOK, Inv, MembersKeepTheirYear, PivotIsATable
  <2>2. ASSUME NEW u \in Users, NEW k \in Existing, "class_user" \in tables,
               member' = [member EXCEPT ![u] = k],
               was' = [was EXCEPT ![u] = class[k].year],
               idless' = IF pivot THEN idless \ {u} ELSE idless \cup {u}
        PROVE  /\ member' \in [Users -> Existing \cup {0}]
               /\ was' \in [Users -> Years \cup {0}]
               /\ idless' \subseteq Users /\ PivotIsATable'
               /\ MembersKeepTheirYear'
    <3>1. class[k].year \in Years /\ k # 0
      BY <1>1, YearsOfClasses DEF ClassIds
    <3>2. /\ member' \in [Users -> Existing \cup {0}]
          /\ was' \in [Users -> Years \cup {0}] /\ idless' \subseteq Users
      BY <1>1, <2>2, <3>1 DEF TypeOK
    <3>3. \A v \in Users \ {u} : /\ member'[v] = member[v] /\ was'[v] = was[v]
                                 /\ v \in idless' <=> v \in idless
      BY <1>1, <2>2 DEF TypeOK
    <3>4. /\ member'[u] = k /\ was'[u] = class[k].year
          /\ ~pivot => u \in idless'
      BY <1>1, <2>2 DEF TypeOK
    <3>5. MembersKeepTheirYear'
      BY <1>1, <1>2, <3>1, <3>3, <3>4 DEF Inv, MembersKeepTheirYear
    <3>6. PivotIsATable'
      BY <1>1, <2>2, <3>3, <3>4 DEF Inv, PivotIsATable
    <3> QED BY <3>2, <3>5, <3>6
  <2> QED BY <1>3, <2>1, <2>2
<1>5. TypeOK'
  BY <1>1, <1>2, <1>4 DEF TypeOK
<1>6. Keeps /\ OneClassAYear' /\ Alone' /\ \A j \in Invocations : Held(j)'
  BY <1>1, <1>2 DEF Keeps, Inv, PivotIsATable, OneClassAYear, Alone, Held, At
<1>7. \A j \in Invocations : Passed(j)'
  BY <1>1, <1>6, PassedLasts
<1> QED BY <1>4, <1>5, <1>6, <1>7 DEF Inv

LEMMA CreateLookStep ==
    ASSUME Inv, NEW i \in Invocations, CreateLook(i)  PROVE Inv'
<1>1. /\ i \in Migrating /\ i \in Invocations /\ TypeOK /\ Running(i)
      /\ UNCHANGED <<migrates, schema, faults, overlap>>
      /\ Statements[boot[i]] \in Tables
  BY DEF CreateLook, Inv, Migrating
<1>2. /\ Keeps /\ OneClassAYear' /\ PivotIsATable' /\ MembersKeepTheirYear'
      /\ UNCHANGED <<tables, class, column, unique, member, pivot, was, idless,
                     Existing>>
  BY <1>1, SchemaAlone
<1>3. CASE Statements[boot[i]] \in tables
  <2>1. Done(i)
    BY <1>3 DEF CreateLook
  <2>2. /\ boot' \in [Invocations -> 0 .. Ready] /\ boot'[i] = boot[i] + 1
        /\ \A j \in Invocations \ {i} : boot'[j] = boot[j]
        /\ promise' = promise /\ waiting' = waiting /\ mid' = mid \ {i}
        /\ \A j \in Invocations : Held(j)'
        /\ ~overlap => mid' = {} /\ \A j, k \in Migrating' : j = k
    BY <1>1, <2>1, DoneBy
  <2>3. TypeOK' /\ Alone'
    BY <1>1, <1>2, <2>2 DEF TypeOK, Alone
  <2>4. PICK s : s = Statements[boot[i]]
    OBVIOUS
  <2>5. s \in tables' /\ s \notin {"merge", "unique", "years", "pivot"}
    BY <1>1, <1>2, <1>3, <2>4 DEF Tables
  <2>6. Passed(i)'
    BY <1>1, <1>2, <2>2, <2>4, <2>5, PassedOn
  <2>7. \A j \in Invocations : Passed(j)'
    BY <1>2, <2>2, <2>6, PassedLasts
  <2> QED BY <1>2, <2>2, <2>3, <2>7 DEF Inv
<1>4. CASE Statements[boot[i]] \notin tables
  <2>1. Pause(i)
    BY <1>4 DEF CreateLook
  <2>2. /\ boot' = boot /\ promise' = promise /\ waiting' = waiting
        /\ mid' = mid \cup {i} /\ Migrating' = Migrating
        /\ \A j \in Invocations : Held(j)'
        /\ ~overlap => mid' = {i} /\ \A j, k \in Migrating' : j = k
    BY <1>1, <2>1, PausedBy
  <2>3. ~At(i, "pivot")'
    BY <1>1, <2>2 DEF At, Tables
  <2>4. TypeOK' /\ Alone'
    BY <1>1, <1>2, <2>2, <2>3 DEF TypeOK, Alone
  <2>5. \A j \in Invocations : Passed(j)'
    BY <1>2, <2>2, PassedLasts
  <2> QED BY <1>2, <2>2, <2>4, <2>5 DEF Inv
<1> QED BY <1>3, <1>4

(* A start that ends takes nothing of the schema with it.                  *)
LEMMA RejectStep ==
    ASSUME Inv, NEW i \in Migrating, Reject(i), faults' \in 0 .. MaxFaults,
           UNCHANGED <<migrates, schema, overlap>>
    PROVE  Inv'
<1>1. /\ boot' \in [Invocations -> 0 .. Ready]
      /\ \A j \in Invocations : boot'[j] \in {0, boot[j]}
      /\ promise' \in [Containers -> Invocations \cup {Null}]
      /\ waiting' \subseteq Invocations /\ mid' \subseteq Invocations
      /\ \A j \in Invocations : Held(j)'
      /\ ~overlap => mid' = {} /\ \A j, k \in Migrating' : j = k
  BY RejectedBy
<1>2. /\ Keeps /\ OneClassAYear' /\ PivotIsATable' /\ MembersKeepTheirYear'
      /\ UNCHANGED <<tables, class, column, unique, member, pivot, was, idless,
                     Existing>>
  BY SchemaAlone
<1>3. TypeOK' /\ Alone'
  BY <1>1, <1>2 DEF Inv, TypeOK, Alone
<1>4. \A j \in Invocations : Passed(j)'
  BY <1>1, <1>2, PassedLasts
<1> QED BY <1>1, <1>2, <1>3, <1>4 DEF Inv

LEMMA CreateTableStep ==
    ASSUME Inv, NEW i \in Invocations, CreateTable(i)  PROVE Inv'
<1>1. PICK s : s = Statements[boot[i]]
  OBVIOUS
<1>2. /\ i \in Migrating /\ TypeOK /\ Running(i) /\ s \in Tables
      /\ UNCHANGED <<migrates, class, column, unique, member, was, idless, faults, overlap>>
  BY <1>1 DEF CreateTable, Inv, Migrating
<1>3. CASE s \in tables
  <2>1. Reject(i) /\ UNCHANGED <<migrates, schema, overlap>> /\ faults' \in 0 .. MaxFaults
    BY <1>1, <1>2, <1>3 DEF CreateTable, schema, TypeOK
  <2> QED BY <1>2, <2>1, RejectStep
<1>4. CASE s \notin tables
  <2>1. /\ tables' = tables \cup {s} /\ pivot' = (pivot \/ s = "class_user") /\ Done(i)
    BY <1>1, <1>2, <1>4 DEF CreateTable
  <2>2. /\ boot' \in [Invocations -> 0 .. Ready] /\ boot'[i] = boot[i] + 1
        /\ \A j \in Invocations \ {i} : boot'[j] = boot[j]
        /\ promise' = promise /\ waiting' = waiting /\ mid' = mid \ {i}
        /\ \A j \in Invocations : Held(j)'
        /\ ~overlap => mid' = {} /\ \A j, k \in Migrating' : j = k
    BY <1>2, <2>1, DoneBy
  <2>3. Existing' = Existing
    BY <1>2 DEF Existing
  <2>4. TypeOK' /\ Alone'
    <3>1. pivot' \in BOOLEAN /\ tables' \subseteq Tables
      BY <1>2, <2>1 DEF TypeOK
    <3> QED BY <1>2, <2>2, <2>3, <3>1 DEF TypeOK, Alone
  <2>5. OneClassAYear' /\ MembersKeepTheirYear'
    BY <1>2, <2>3 DEF Inv, OneClassAYear, MembersKeepTheirYear
  <2>6. PivotIsATable'
    BY <1>2, <2>1 DEF Inv, PivotIsATable
  <2>7. Keeps
    BY <1>2, <2>1, <2>3 DEF Keeps, Inv, PivotIsATable, TypeOK
  <2>8. Passed(i)'
    <3>1. s \in tables' /\ s \notin {"merge", "unique", "years", "pivot"}
      BY <1>2, <2>1 DEF Tables
    <3> QED BY <1>1, <1>2, <2>2, <2>7, <3>1, PassedOn
  <2>9. \A j \in Invocations : Passed(j)'
    BY <2>2, <2>7, <2>8, PassedLasts
  <2> QED BY <2>2, <2>4, <2>5, <2>6, <2>9 DEF Inv
<1> QED BY <1>3, <1>4

(* What the merge does to classes and members.                             *)
LEMMA Merged ==
    ASSUME TypeOK, NEW i \in Invocations, Merge(i), column
    PROVE  /\ class' \in [ClassIds -> [year : Years, school : Schools \cup {Null}]
                                         \cup {NoClass}]
           /\ \A k \in Existing' : k \in Existing /\ Kept(k) = k
                                   /\ class'[k].year = class[k].year
           /\ member' \in [Users -> Existing' \cup {0}]
           /\ \A u \in Users : member[u] # 0 =>
                 member'[u] # 0 /\ class'[member'[u]].year = class[member[u]].year
           /\ \A u \in Users : member[u] = 0 => member'[u] = 0
<1>1. /\ member' = [u \in Users |-> IF member[u] = 0 THEN 0 ELSE Kept(member[u])]
      /\ class' = [k \in ClassIds |->
                      IF k \in Existing /\ Kept(k) = k
                      THEN [class[k] EXCEPT !.school = Null] ELSE NoClass]
  BY DEF Merge
<1>2. ASSUME NEW k \in Existing
      PROVE  /\ [class[k] EXCEPT !.school = Null].year = class[k].year
             /\ [class[k] EXCEPT !.school = Null] # NoClass
             /\ [class[k] EXCEPT !.school = Null]
                   \in [year : Years, school : Schools \cup {Null}]
  <2>1. class[k] \in [year : Years, school : Schools \cup {Null}]
    BY DEF TypeOK, Existing
  <2>2. PICK c : c = [class[k] EXCEPT !.school = Null]
    OBVIOUS
  <2>3. /\ c \in [year : Years, school : Schools \cup {Null}]
        /\ c.year = class[k].year
    BY <2>1, <2>2
  <2>4. c.year # 0
    BY <2>3, StartupAssumption
  <2>5. c # NoClass
    BY <2>4 DEF NoClass
  <2> QED BY <2>2, <2>3, <2>5
<1>3. /\ class' \in [ClassIds -> [year : Years, school : Schools \cup {Null}]
                                    \cup {NoClass}]
      /\ \A k \in Existing' : k \in Existing /\ Kept(k) = k
                              /\ class'[k].year = class[k].year
      /\ \A k \in Existing : Kept(k) = k
            => k \in Existing' /\ class'[k].year = class[k].year
  BY <1>1, <1>2 DEF Existing
<1>4. ASSUME NEW u \in Users, member[u] # 0
      PROVE  /\ member'[u] \in Existing' /\ member'[u] # 0
             /\ class'[member'[u]].year = class[member[u]].year
  <2>1. PICK k \in Existing : k = member[u]
    BY <1>4 DEF TypeOK
  <2>2. PICK j : j = Kept(k)
    OBVIOUS
  <2>3. j \in Existing /\ class[j].year = class[k].year
    BY <2>2, KeptIsFirst
  <2>4. Kept(j) = j
    BY <2>2, <2>3, KeptAlike
  <2>5. member'[u] = j
    BY <1>1, <1>4, <2>1, <2>2
  <2>6. j # 0
    BY <2>3 DEF Existing, ClassIds
  <2> QED BY <1>3, <2>1, <2>3, <2>4, <2>5, <2>6
<1>5. member' \in [Users -> Existing' \cup {0}]
  <2>1. \A u \in Users : member'[u] \in Existing' \cup {0}
    BY <1>1, <1>4
  <2> QED BY <1>1, <2>1
<1>6. \A u \in Users : member[u] = 0 => member'[u] = 0
  BY <1>1
<1> QED BY <1>3, <1>4, <1>5, <1>6

LEMMA MergeStep ==
    ASSUME Inv, NEW i \in Invocations, Merge(i)  PROVE Inv'
<1>1. /\ i \in Migrating /\ TypeOK /\ Running(i) /\ "merge" = Statements[boot[i]]
      /\ Done(i)
      /\ UNCHANGED <<migrates, tables, unique, pivot, was, idless, faults, overlap>>
  BY DEF Merge, At, Inv, Migrating
<1>2. /\ boot' \in [Invocations -> 0 .. Ready] /\ boot'[i] = boot[i] + 1
      /\ \A j \in Invocations \ {i} : boot'[j] = boot[j]
      /\ promise' = promise /\ waiting' = waiting /\ mid' = mid \ {i}
      /\ \A j \in Invocations : Held(j)'
      /\ ~overlap => mid' = {} /\ \A j, k \in Migrating' : j = k
  BY <1>1, DoneBy
<1>3. Alone'
  BY <1>1, <1>2 DEF Alone
<1>4. /\ TypeOK' /\ OneClassAYear' /\ MembersKeepTheirYear' /\ PivotIsATable'
      /\ Keeps /\ ~column'
  <2>1. CASE ~column
    <3>1. UNCHANGED <<class, column, member>>
      BY <2>1 DEF Merge
    <3>2. Existing' = Existing
      BY <3>1 DEF Existing
    <3>3. TypeOK'
      BY <1>1, <1>2, <3>1, <3>2 DEF TypeOK
    <3> QED BY <1>1, <2>1, <3>1, <3>2, <3>3 DEF Inv, OneClassAYear, MembersKeepTheirYear,
                                             PivotIsATable, Keeps
  <2>2. CASE column
    <3>1. column' = FALSE
      BY <2>2 DEF Merge
    <3>2. /\ class' \in [ClassIds -> [year : Years, school : Schools \cup {Null}]
                                        \cup {NoClass}]
          /\ \A k \in Existing' : k \in Existing /\ Kept(k) = k
                                  /\ class'[k].year = class[k].year
          /\ member' \in [Users -> Existing' \cup {0}]
          /\ \A u \in Users : member[u] # 0 =>
                member'[u] # 0 /\ class'[member'[u]].year = class[member[u]].year
          /\ \A u \in Users : member[u] = 0 => member'[u] = 0
      BY <1>1, <2>2, Merged
    <3>3. TypeOK'
      BY <1>1, <1>2, <3>1, <3>2 DEF TypeOK
    <3>4. ASSUME NEW k \in Existing', NEW l \in Existing', class'[k].year = class'[l].year
          PROVE  k = l
      <4>1. k \in Existing /\ l \in Existing /\ class[k].year = class[l].year
        BY <3>2, <3>4
      <4>2. Kept(k) = Kept(l)
        BY <1>1, <4>1, KeptAlike
      <4> QED BY <3>2, <4>2
    <3>5. OneClassAYear'
      BY <3>4 DEF OneClassAYear
    <3>6. MembersKeepTheirYear'
      BY <1>1, <3>2 DEF Inv, MembersKeepTheirYear
    <3>7. PivotIsATable'
      BY <1>1, <3>2 DEF Inv, PivotIsATable
    <3>8. Keeps
      BY <1>1, <2>2, <3>1 DEF Keeps, Inv, PivotIsATable
    <3> QED BY <3>1, <3>3, <3>5, <3>6, <3>7, <3>8
  <2> QED BY <2>1, <2>2
<1>5. Passed(i)'
  <2>1. PICK s : s = "merge"
    OBVIOUS
  <2> QED BY <1>1, <1>2, <1>4, <2>1, PassedOn DEF Tables
<1>6. \A j \in Invocations : Passed(j)'
  BY <1>2, <1>4, <1>5, PassedLasts
<1> QED BY <1>2, <1>3, <1>4, <1>6 DEF Inv

LEMMA AddUniqueStep ==
    ASSUME Inv, NEW i \in Invocations, AddUnique(i)  PROVE Inv'
<1>1. /\ i \in Migrating /\ TypeOK /\ Running(i) /\ "unique" = Statements[boot[i]]
      /\ UNCHANGED <<migrates, tables, class, column, member, pivot, was, idless, faults,
                     overlap>>
  BY DEF AddUnique, At, Inv, Migrating
<1>2. CASE Reject(i) /\ UNCHANGED unique
  <2>1. UNCHANGED <<migrates, schema, overlap>> /\ faults' \in 0 .. MaxFaults
    BY <1>1, <1>2 DEF schema, TypeOK
  <2> QED BY <1>1, <1>2, <2>1, RejectStep
<1>3. CASE Done(i) /\ unique' = TRUE
  <2>1. /\ boot' \in [Invocations -> 0 .. Ready] /\ boot'[i] = boot[i] + 1
        /\ \A j \in Invocations \ {i} : boot'[j] = boot[j]
        /\ promise' = promise /\ waiting' = waiting /\ mid' = mid \ {i}
        /\ \A j \in Invocations : Held(j)'
        /\ ~overlap => mid' = {} /\ \A j, k \in Migrating' : j = k
    BY <1>1, <1>3, DoneBy
  <2>2. Existing' = Existing
    BY <1>1 DEF Existing
  <2>3. TypeOK' /\ Alone'
    BY <1>1, <1>3, <2>1, <2>2 DEF TypeOK, Alone
  <2>4. OneClassAYear' /\ MembersKeepTheirYear' /\ PivotIsATable' /\ Keeps
    BY <1>1, <1>3, <2>2 DEF Inv, OneClassAYear, MembersKeepTheirYear, PivotIsATable, Keeps
  <2>5. Passed(i)'
    <3>1. PICK s : s = "unique"
      OBVIOUS
    <3> QED BY <1>1, <1>3, <2>1, <2>4, <3>1, PassedOn DEF Tables
  <2>6. \A j \in Invocations : Passed(j)'
    BY <2>1, <2>4, <2>5, PassedLasts
  <2> QED BY <2>1, <2>3, <2>4, <2>6 DEF Inv
<1> QED BY <1>2, <1>3 DEF AddUnique

LEMMA SeedYearsStep ==
    ASSUME Inv, NEW i \in Invocations, SeedYears(i)  PROVE Inv'
<1>1. /\ i \in Migrating /\ TypeOK /\ Running(i) /\ "years" = Statements[boot[i]]
      /\ Done(i) /\ boot[i] \in 0 .. Ready /\ Home[i] \in migrates
      /\ UNCHANGED <<migrates, tables, column, unique, member, pivot, was, idless, faults,
                     overlap>>
  BY DEF SeedYears, At, Inv, Migrating, TypeOK
<1>2. ~column
  <2>1. "merge" \in Past(i)
    BY <1>1, PastInOrder
  <2> QED BY <1>1, <2>1 DEF Inv, Passed
<1>3. /\ boot' \in [Invocations -> 0 .. Ready] /\ boot'[i] = boot[i] + 1
      /\ \A j \in Invocations \ {i} : boot'[j] = boot[j]
      /\ promise' = promise /\ waiting' = waiting /\ mid' = mid \ {i}
      /\ \A j \in Invocations : Held(j)'
      /\ ~overlap => mid' = {} /\ \A j, k \in Migrating' : j = k
  BY <1>1, DoneBy
<1>4. /\ class' \in [ClassIds -> [year : Years, school : Schools \cup {Null}]
                                    \cup {NoClass}]
      /\ \A k \in Existing : k \in Existing' /\ class'[k] = class[k]
      /\ \A y \in Years : \E k \in Existing' : class'[k].year = y
      /\ \A k \in Existing' \ Existing, l \in Existing' :
            class'[k].year = class'[l].year => k = l
  BY <1>1, <1>2, Seeded DEF Inv
<1>5. TypeOK'
  <2>1. member' \in [Users -> Existing' \cup {0}]
    BY <1>1, <1>4 DEF TypeOK
  <2> QED BY <1>1, <1>3, <1>4, <2>1 DEF TypeOK
<1>6. Alone' /\ PivotIsATable'
  BY <1>1, <1>3 DEF Alone, Inv, PivotIsATable
<1>7. OneClassAYear'
  <2>1. ASSUME NEW k \in Existing', NEW l \in Existing', class'[k].year = class'[l].year
        PROVE  k = l
    <3>1. CASE k \in Existing /\ l \in Existing
      BY <1>2, <1>4, <2>1, <3>1 DEF Inv, OneClassAYear
    <3>2. CASE k \notin Existing
      BY <1>4, <2>1, <3>2
    <3>3. CASE l \notin Existing
      BY <1>4, <2>1, <3>3
    <3> QED BY <3>1, <3>2, <3>3
  <2> QED BY <2>1 DEF OneClassAYear
<1>8. MembersKeepTheirYear'
  <2>1. \A u \in Users : member[u] # 0 => member[u] \in Existing
    BY <1>1 DEF TypeOK
  <2> QED BY <1>1, <1>4, <2>1 DEF Inv, MembersKeepTheirYear
<1>9. Keeps
  BY <1>1, <1>4 DEF Keeps, Inv, PivotIsATable
<1>10. Passed(i)'
  <2>1. PICK s : s = "years"
    OBVIOUS
  <2> QED BY <1>1, <1>3, <1>4, <1>9, <2>1, PassedOn DEF Tables
<1>11. \A j \in Invocations : Passed(j)'
  BY <1>3, <1>9, <1>10, PassedLasts
<1> QED BY <1>3, <1>5, <1>6, <1>7, <1>8, <1>11 DEF Inv

LEMMA PivotLookStep ==
    ASSUME Inv, NEW i \in Invocations, PivotLook(i)  PROVE Inv'
<1>1. /\ i \in Migrating /\ TypeOK /\ Running(i) /\ "pivot" = Statements[boot[i]]
      /\ UNCHANGED <<migrates, schema, faults, overlap>>
  BY DEF PivotLook, At, Inv, Migrating
<1>2. /\ Keeps /\ OneClassAYear' /\ PivotIsATable' /\ MembersKeepTheirYear'
      /\ UNCHANGED <<tables, class, column, unique, member, pivot, was, idless,
                     Existing>>
  BY <1>1, SchemaAlone
<1>3. CASE "class_user" \in tables /\ pivot
  <2>1. Done(i)
    BY <1>3 DEF PivotLook
  <2>2. /\ boot' \in [Invocations -> 0 .. Ready] /\ boot'[i] = boot[i] + 1
        /\ \A j \in Invocations \ {i} : boot'[j] = boot[j]
        /\ promise' = promise /\ waiting' = waiting /\ mid' = mid \ {i}
        /\ \A j \in Invocations : Held(j)'
        /\ ~overlap => mid' = {} /\ \A j, k \in Migrating' : j = k
    BY <1>1, <2>1, DoneBy
  <2>3. TypeOK' /\ Alone'
    BY <1>1, <1>2, <2>2 DEF TypeOK, Alone
  <2>4. Passed(i)'
    <3>1. PICK s : s = "pivot"
      OBVIOUS
    <3> QED BY <1>1, <1>2, <1>3, <2>2, <3>1, PassedOn DEF Tables
  <2>5. \A j \in Invocations : Passed(j)'
    BY <1>2, <2>2, <2>4, PassedLasts
  <2> QED BY <1>2, <2>2, <2>3, <2>5 DEF Inv
<1>4. CASE ~("class_user" \in tables /\ pivot)
  <2>1. Pause(i)
    BY <1>4 DEF PivotLook
  <2>2. /\ boot' = boot /\ promise' = promise /\ waiting' = waiting
        /\ mid' = mid \cup {i} /\ Migrating' = Migrating
        /\ \A j \in Invocations : Held(j)'
        /\ ~overlap => mid' = {i} /\ \A j, k \in Migrating' : j = k
    BY <1>1, <2>1, PausedBy
  <2>3. TypeOK' /\ Alone'
    BY <1>1, <1>2, <1>4, <2>2 DEF TypeOK, Alone
  <2>4. \A j \in Invocations : Passed(j)'
    BY <1>2, <2>2, PassedLasts
  <2> QED BY <1>2, <2>2, <2>3, <2>4 DEF Inv
<1> QED BY <1>3, <1>4

LEMMA DropPivotStep ==
    ASSUME Inv, NEW i \in Invocations, DropPivot(i)  PROVE Inv'
<1>1. /\ i \in Migrating /\ TypeOK /\ Running(i) /\ "pivot" = Statements[boot[i]]
      /\ i \in mid /\ Done(i) /\ tables' = tables \ {"class_user"} /\ pivot' = FALSE
      /\ member' = [u \in Users |-> 0]
      /\ UNCHANGED <<migrates, class, column, unique, was, idless, faults, overlap>>
  BY DEF DropPivot, At, Inv, Migrating
<1>2. /\ ~overlap => ~pivot
      /\ ~pivot => \A u \in Users : member[u] # 0 => u \in idless
  BY <1>1 DEF Inv, Alone, At, PivotIsATable
<1>3. /\ boot' \in [Invocations -> 0 .. Ready] /\ boot'[i] = boot[i] + 1
      /\ \A j \in Invocations \ {i} : boot'[j] = boot[j]
      /\ promise' = promise /\ waiting' = waiting /\ mid' = mid \ {i}
      /\ \A j \in Invocations : Held(j)'
      /\ ~overlap => mid' = {} /\ \A j, k \in Migrating' : j = k
  BY <1>1, DoneBy
<1>4. Existing' = Existing
  BY <1>1 DEF Existing
<1>5. TypeOK'
  <2>1. was' \in [Users -> Years \cup {0}] /\ idless' \subseteq Users
    BY <1>1 DEF TypeOK
  <2>2. member' \in [Users -> Existing' \cup {0}]
    BY <1>1
  <2> QED BY <1>1, <1>3, <1>4, <2>1, <2>2 DEF TypeOK
<1>6. Alone' /\ OneClassAYear' /\ PivotIsATable' /\ MembersKeepTheirYear'
  BY <1>1, <1>2, <1>3, <1>4 DEF Alone, Inv, OneClassAYear, PivotIsATable,
                                MembersKeepTheirYear
<1>7. Keeps
  BY <1>1, <1>2, <1>4 DEF Keeps
<1>8. Passed(i)'
  <2>1. PICK s : s = "pivot"
    OBVIOUS
  <2> QED BY <1>1, <1>3, <1>7, <2>1, PassedOn DEF Tables
<1>9. \A j \in Invocations : Passed(j)'
  BY <1>3, <1>7, <1>8, PassedLasts
<1> QED BY <1>3, <1>5, <1>6, <1>9 DEF Inv

LEMMA FailStep ==
    ASSUME Inv, NEW i \in Invocations, Fail(i)  PROVE Inv'
<1>1. /\ i \in Migrating /\ Reject(i) /\ UNCHANGED <<migrates, schema, overlap>>
      /\ faults < MaxFaults /\ faults' = faults + 1
  BY DEF Fail, Fault
<1>2. faults' \in 0 .. MaxFaults
  BY <1>1, StartupAssumption DEF Inv, TypeOK
<1> QED BY <1>1, <1>2, RejectStep

LEMMA KillStep ==
    ASSUME Inv, NEW c \in Containers, Kill(c)  PROVE Inv'
<1> DEFINE mine == {i \in Invocations : Home[i] = c}
<1>1. /\ faults < MaxFaults /\ faults' = faults + 1
      /\ promise' = [promise EXCEPT ![c] = Null]
      /\ waiting' = waiting \ mine /\ mid' = mid \ mine
      /\ boot' = [i \in Invocations |-> IF i \in mine THEN 0 ELSE boot[i]]
      /\ UNCHANGED <<migrates, schema, overlap>> /\ TypeOK
  BY DEF Kill, Fault, Inv
<1>2. faults' \in 0 .. MaxFaults
  BY <1>1, StartupAssumption DEF TypeOK
<1>3. /\ Keeps /\ OneClassAYear' /\ PivotIsATable' /\ MembersKeepTheirYear'
      /\ UNCHANGED <<tables, class, column, unique, member, pivot, was, idless,
                     Existing>>
  BY <1>1, SchemaAlone
<1>4. /\ boot' \in [Invocations -> 0 .. Ready]
      /\ \A j \in Invocations : boot'[j] = IF Home[j] = c THEN 0 ELSE boot[j]
  BY <1>1 DEF TypeOK, Ready, Statements
<1>5. /\ promise' \in [Containers -> Invocations \cup {Null}]
      /\ \A d \in Containers : d # c => promise'[d] = promise[d]
  BY <1>1 DEF TypeOK
<1>6. TypeOK'
  BY <1>1, <1>2, <1>3, <1>4, <1>5 DEF TypeOK
<1>7. ASSUME NEW j \in Invocations PROVE Held(j)'
  <2>1. Held(j) /\ Home[j] \in Containers
    BY StartupAssumption DEF Inv
  <2>2. j \in mid' => j \in Migrating'
    BY <1>1, <1>4, <2>1 DEF Held, Migrating, Running
  <2> QED BY <1>4, <1>5, <2>1, <2>2 DEF Held
<1>8. Alone'
  <2>1. \A j \in Migrating' : j \in Migrating /\ boot'[j] = boot[j]
    BY <1>1, <1>4 DEF Migrating, Running
  <2> QED BY <1>1, <1>3, <2>1 DEF Alone, Inv, At
<1>9. \A j \in Invocations : Passed(j)'
  BY <1>3, <1>4, PassedLasts
<1> QED BY <1>3, <1>6, <1>7, <1>8, <1>9 DEF Inv

LEMMA StutterStep ==
    ASSUME Inv, UNCHANGED vars  PROVE Inv'
<1>1. UNCHANGED <<promise, waiting, boot, mid, migrates, schema, faults, overlap>>
  BY DEF vars
<1>2. /\ Keeps /\ OneClassAYear' /\ PivotIsATable' /\ MembersKeepTheirYear'
      /\ UNCHANGED <<tables, class, column, unique, member, pivot, was, idless,
                     Existing>>
  BY <1>1, SchemaAlone
<1>3. Migrating' = Migrating
  BY <1>1 DEF Migrating, Running
<1>4. TypeOK' /\ Alone' /\ \A j \in Invocations : Held(j)'
  BY <1>1, <1>2, <1>3 DEF Inv, TypeOK, Alone, Held, At
<1>5. \A j \in Invocations : Passed(j)'
  BY <1>1, <1>2, PassedLasts
<1> QED BY <1>2, <1>4, <1>5 DEF Inv

-----------------------------------------------------------------------------
LEMMA InitInv == Init => Inv
<1>1. SUFFICES ASSUME Init PROVE Inv
  OBVIOUS
<1>2. /\ Empty \/ Older
      /\ unique = FALSE
      /\ was = [u \in Users |-> IF member[u] = 0 THEN 0 ELSE class[member[u]].year]
      /\ idless = IF pivot THEN {} ELSE {u \in Users : member[u] # 0}
      /\ migrates \in SUBSET Containers
      /\ promise = [c \in Containers |-> Null]
      /\ waiting = {} /\ mid = {} /\ faults = 0 /\ overlap = FALSE
      /\ boot = [i \in Invocations |-> 0]
  BY <1>1, Zenon DEF Init
<1>3. /\ tables \subseteq Tables /\ column \in BOOLEAN /\ pivot \in BOOLEAN
      /\ class \in [ClassIds -> [year : Years, school : Schools \cup {Null}]
                                   \cup {NoClass}]
      /\ member \in [Users -> Existing \cup {0}]
      /\ PivotIsATable /\ OneClassAYear
  <2>1. CASE Empty
    <3>1. Existing = {}
      BY <2>1 DEF Empty, Existing
    <3> QED BY <2>1, <3>1 DEF Empty, PivotIsATable, OneClassAYear
  <2>2. CASE Older
    <3>1. /\ tables = Tables \ {"class_school"} /\ column = TRUE /\ pivot \in BOOLEAN
          /\ class \in [ClassIds -> [year : Years, school : Schools] \cup {NoClass}]
          /\ member \in [Users -> Existing \cup {0}]
      BY <2>2, Zenon DEF Older
    <3>2. \A r \in [year : Years, school : Schools] :
             r \in [year : Years, school : Schools \cup {Null}]
      OBVIOUS
    <3>3. class \in [ClassIds -> [year : Years, school : Schools \cup {Null}]
                                    \cup {NoClass}]
      BY <3>1, <3>2
    <3>4. "class_user" \in tables
      BY <3>1 DEF Tables
    <3>5. ~pivot => \A u \in Users : member[u] # 0 => u \in idless
      BY <1>2
    <3> QED BY <3>1, <3>3, <3>4, <3>5 DEF PivotIsATable, OneClassAYear
  <2> QED BY <1>2, <2>1, <2>2
<1>4. \A u \in Users : member[u] # 0 => class[member[u]].year \in Years
  <2>1. \A k \in Existing : class[k].year \in Years
    BY <1>3 DEF Existing
  <2> QED BY <1>3, <2>1
<1>5. /\ was \in [Users -> Years \cup {0}]
      /\ \A u \in Users : /\ member[u] # 0 => class[member[u]].year = was[u]
                          /\ was[u] # 0 => member[u] # 0
      /\ idless \subseteq Users
  BY <1>2, <1>4
<1>6. Ready = 17 /\ MaxFaults \in Nat
  BY InOrder, StartupAssumption
<1>7. TypeOK
  <2>1. /\ promise \in [Containers -> Invocations \cup {Null}]
        /\ boot \in [Invocations -> 0 .. Ready]
    BY <1>2, <1>6
  <2>2. faults \in 0 .. MaxFaults
    BY <1>2, <1>6
  <2>3. unique \in BOOLEAN /\ overlap \in BOOLEAN
    BY <1>2, Zenon
  <2> QED BY <1>2, <1>3, <1>5, <2>1, <2>2, <2>3 DEF TypeOK
<1>8. Migrating = {}
  BY <1>2 DEF Migrating, Running
<1>9. Alone /\ \A i \in Invocations : Held(i)
  BY <1>2, <1>8 DEF Alone, Held
<1>10. \A i \in Invocations : Past(i) = {}
  BY <1>2 DEF Past
<1>11. \A i \in Invocations : Passed(i)
  BY <1>10 DEF Passed
<1> QED BY <1>3, <1>5, <1>7, <1>9, <1>11 DEF Inv, MembersKeepTheirYear

LEMMA NextInv == Inv /\ [Next]_vars => Inv'
<1>1. ASSUME Inv, NEW i \in Invocations, Migrate(i) PROVE Inv'
  BY <1>1, CreateLookStep, CreateTableStep, MergeStep, AddUniqueStep, SeedYearsStep,
     PivotLookStep, DropPivotStep DEF Migrate
<1> QED BY <1>1, HandlerStep, AnswerStep, FailStep, KillStep, StutterStep DEF Next

(* However starts are cut short, begun again and interleaved, what a start *)
(* has behind it stays done, and before two of them have met nobody has    *)
(* changed what one has read.                                              *)
THEOREM Invariance == Spec => []Inv
<1>1. Init => Inv
  BY InitInv
<1>2. Inv /\ [Next]_vars => Inv'
  BY NextInv
<1> QED BY <1>1, <1>2, PTL DEF Spec

(* Every variable keeps its type; in particular the ids that seeding takes *)
(* for the years are there, and members are in classes that exist.         *)
THEOREM TypeCorrect == Spec => []TypeOK
<1>1. Inv => TypeOK
  BY DEF Inv
<1> QED BY <1>1, Invariance, PTL

LEMMA Serves ==
    ASSUME Inv, NEW i \in Invocations, boot[i] = Ready, Home[i] \in migrates
    PROVE  /\ Tables \ tables \subseteq (IF overlap THEN {"class_user"} ELSE {})
           /\ unique /\ ~column
           /\ \A y \in Years :
                 Cardinality({k \in Existing : class[k].year = y}) = 1
<1>1. boot[i] \in 0 .. Ready /\ Passed(i)
  BY DEF Inv, TypeOK
<1>2. Tables \cup {"merge", "unique", "years"} \subseteq Past(i)
  BY <1>1, PastInOrder
<1>3. \A t \in Tables : t \in tables \/ (overlap /\ t = "class_user")
  BY <1>1, <1>2 DEF Passed
<1>4. unique /\ ~column
  BY <1>1, <1>2 DEF Passed
<1>5. ASSUME NEW y \in Years
      PROVE  Cardinality({k \in Existing : class[k].year = y}) = 1
  <2>1. PICK k \in Existing : class[k].year = y
    BY <1>1, <1>2 DEF Passed
  <2>2. {l \in Existing : class[l].year = y} = {k}
    BY <1>4, <2>1 DEF Inv, OneClassAYear
  <2> QED BY <2>2, FS_Singleton
<1> QED BY <1>3, <1>4, <1>5

(* A container never has two applications, whichever requests arrive       *)
(* together and however starts end; one that migrated serves on the whole  *)
(* schema with each year once, but for the class_user that two starts that *)
(* met may lose; and until two have met a start takes away no membership   *)
(* but those of an older class_user without an id, which it drops, and     *)
(* leaves every other in its year.                                         *)
THEOREM StartsStay == Spec => []StartsHold
<1>1. Inv => OneAppEach
  BY DEF Inv, Held, OneAppEach
<1>2. Inv => ServesWholeSchema
  BY Serves DEF ServesWholeSchema
<1>3. Inv => StartsHold
  BY <1>1, <1>2 DEF Inv, StartsHold
<1> QED BY <1>3, Invariance, PTL
=============================================================================
