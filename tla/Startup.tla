------------------------------ MODULE Startup -------------------------------
(***************************************************************************)
(* Startup: cold containers and the schema (apps/api/src: lambda.ts,       *)
(* lambda-workers.ts, database/schema.service.ts, config).  A container    *)
(* bootstraps the application for its first invocation and keeps the       *)
(* promise; where RUN_MIGRATIONS is on, the bootstrap sends the statements *)
(* of SchemaService.initialize one after the other, each on its own.       *)
(* Containers share the database and know nothing of each other.           *)
(*                                                                         *)
(* An invocation is a place that may be used again, on one container; a    *)
(* bootstrap is named by the invocation that began it.  The columns a      *)
(* table gets with ALTER TABLE ... IF NOT EXISTS come with the table.      *)
(***************************************************************************)
EXTENDS Naturals, FiniteSets, Sequences

CONSTANTS
    Containers, Invocations,
    Home,          \* [Invocations -> Containers]
    Users, Schools,
    Years,         \* 1950 to the present
    MaxOld,        \* bound on the classes an older database has
    MaxFaults,     \* bound on failed statements and killed containers
    Null

ASSUME StartupAssumption ==
    /\ Home \in [Invocations -> Containers]
    /\ Years \subseteq Nat \ {0} /\ IsFiniteSet(Years) /\ IsFiniteSet(Schools)
    /\ MaxFaults \in Nat /\ MaxOld \in Nat
    /\ Null \notin Invocations \cup Schools

VARIABLES
    promise,     \* lambda.ts bootstrapped: whose bootstrap is kept, or Null
    waiting,     \* invocations that wait for an application
    boot,        \* bootstraps: 0, the next statement, or Ready
    mid,         \* bootstraps in the middle of a statement
    migrates,    \* containers with RUN_MIGRATIONS not "false"
    tables,      \* what exists
    class,       \* classes: the year and, before the merge, the school
    column,      \* classes.school_id is still there
    unique,      \* classes_year_unique is there
    member,      \* class_user: the class of each user, 0 if none
    pivot,       \* class_user has its id column
    faults,
    overlap,     \* history: two migrating bootstraps have met
    was,         \* history: the year each was last made a member of, 0 if none
    idless       \* history: users entered in a class_user without an id

schema == <<tables, class, column, unique, member, pivot, was, idless>>
vars   == <<promise, waiting, boot, mid, migrates, schema, faults, overlap>>

-----------------------------------------------------------------------------
Tables == {"schools", "classes", "class_school", "users", "profiles",
           "class_user", "events", "comments", "gallery_photos",
           "password_reset_tokens", "email_verification_tokens", "feedback"}

(* initialize, in the order "that carries migration semantics".            *)
Statements ==
    <<"schools", "classes", "class_school", "merge", "unique", "years",
      "users", "profiles", "pivot", "class_user", "events", "comments",
      "gallery_photos", "password_reset_tokens",
      "email_verification_tokens", "feedback">>

Ready    == Len(Statements) + 1
ClassIds == 1 .. 2 * Cardinality(Years)
NoClass  == [year |-> 0, school |-> Null]
Existing == {k \in ClassIds : class[k] # NoClass}

Running(i) == boot[i] \in 1 .. Len(Statements)
Migrating  == {i \in Invocations : Running(i) /\ Home[i] \in migrates}
At(i, s)   == i \in Migrating /\ Statements[boot[i]] = s

-----------------------------------------------------------------------------
(* handler: the promise is kept, not what it resolves to.                  *)

(* Mutant: only the application is kept, once there is one.                *)
HandlerResolved(i) ==
    LET c == Home[i] IN
    /\ i \notin waiting /\ ~Running(i)
    /\ waiting' = waiting \cup {i}
    /\ IF promise[c] # Null THEN UNCHANGED <<boot, overlap, promise>>
       ELSE /\ boot' = [boot EXCEPT ![i] = IF c \in migrates THEN 1 ELSE Ready]
            /\ promise' = [promise EXCEPT ![c] = IF boot'[i] = Ready THEN i ELSE Null]
            /\ overlap' = (overlap \/ (c \in migrates /\ Migrating # {}))
    /\ UNCHANGED <<mid, migrates, schema, faults>>

Handler(i) ==
    LET c == Home[i] IN
    /\ i \notin waiting /\ ~Running(i)
    /\ waiting' = waiting \cup {i}
    /\ IF promise[c] # Null THEN UNCHANGED <<promise, boot, overlap>>
       ELSE /\ promise' = [promise EXCEPT ![c] = i]
            /\ boot' = [boot EXCEPT ![i] = IF c \in migrates THEN 1 ELSE Ready]
            /\ overlap' = (overlap \/ (c \in migrates /\ Migrating # {}))
    /\ UNCHANGED <<mid, migrates, schema, faults>>

(* A request that the application answers; it may make a user the member   *)
(* of a class (an import, a claim), who had none.                          *)
Answer(i) ==
    /\ i \in waiting
    /\ promise[Home[i]] # Null /\ boot[promise[Home[i]]] = Ready
    /\ waiting' = waiting \ {i}
    /\ \/ UNCHANGED <<member, was, idless>>
       \/ \E u \in Users, k \in Existing :
             /\ "class_user" \in tables /\ member[u] = 0
             /\ member' = [member EXCEPT ![u] = k]
             /\ was' = [was EXCEPT ![u] = class[k].year]
             /\ idless' = IF pivot THEN idless \ {u} ELSE idless \cup {u}
    /\ UNCHANGED <<promise, boot, mid, migrates, tables, class, column, unique,
                   pivot, faults, overlap>>

(* Mutant: the rejected promise stays.                                     *)
RejectKeepingIt(i) ==
    /\ waiting' = waiting \ {j \in waiting : promise[Home[j]] = i}
    /\ boot' = [boot EXCEPT ![i] = 0] /\ mid' = mid \ {i}
    /\ UNCHANGED promise

(* A statement fails: the slot is cleared, everyone who waits gets the     *)
(* error.                                                                  *)
Reject(i) ==
    /\ waiting' = waiting \ {j \in waiting : promise[Home[j]] = i}
    /\ boot' = [boot EXCEPT ![i] = 0] /\ mid' = mid \ {i}
    /\ promise' = [promise EXCEPT ![Home[i]] = IF @ = i THEN Null ELSE @]

Fault == faults < MaxFaults /\ faults' = faults + 1

(* Mutant: as in the Express app, the error is logged and nothing thrown.   *)
FailServing(i) ==
    /\ i \in Migrating /\ Fault
    /\ boot' = [boot EXCEPT ![i] = Ready] /\ mid' = mid \ {i}
    /\ UNCHANGED <<promise, waiting, migrates, schema, overlap>>

Fail(i) ==
    /\ i \in Migrating /\ Fault /\ Reject(i)
    /\ UNCHANGED <<migrates, schema, overlap>>

(* The platform ends a container, or an invocation runs into its timeout.  *)
Kill(c) ==
    LET mine == {i \in Invocations : Home[i] = c} IN
    /\ promise[c] # Null /\ Fault
    /\ promise' = [promise EXCEPT ![c] = Null]
    /\ waiting' = waiting \ mine /\ mid' = mid \ mine
    /\ boot' = [i \in Invocations |-> IF i \in mine THEN 0 ELSE boot[i]]
    /\ UNCHANGED <<migrates, schema, overlap>>

-----------------------------------------------------------------------------
(* The statements.  A bootstrap that is done resolves its promise.         *)

Done(i) == /\ boot' = [boot EXCEPT ![i] = @ + 1] /\ mid' = mid \ {i}
           /\ promise' = [promise EXCEPT ![Home[i]] =
                             IF boot[i] + 1 = Ready /\ @ = Null THEN i ELSE @]
           /\ UNCHANGED waiting

Pause(i) == mid' = mid \cup {i} /\ UNCHANGED <<boot, promise, waiting>>

(* CREATE TABLE IF NOT EXISTS looks first and creates later; whoever       *)
(* comes second then fails on pg_class.                                    *)
CreateLook(i) ==
    /\ i \in Migrating \ mid /\ Statements[boot[i]] \in Tables
    /\ IF Statements[boot[i]] \in tables THEN Done(i) ELSE Pause(i)
    /\ UNCHANGED <<migrates, schema, faults, overlap>>

CreateTable(i) ==
    LET t == Statements[boot[i]] IN
    /\ i \in Migrating \cap mid /\ t \in Tables
    /\ IF t \in tables THEN Reject(i) /\ UNCHANGED <<tables, pivot>>
       ELSE /\ tables' = tables \cup {t}
            /\ pivot' = (pivot \/ t = "class_user")
            /\ Done(i)
    /\ UNCHANGED <<migrates, class, column, unique, member, was, idless, faults,
                   overlap>>

Kept(k) == CHOOSE j \in Existing : /\ class[j].year = class[k].year
                                   /\ \A l \in Existing :
                                         class[l].year = class[k].year => j <= l

(* Mutant: the members of the rows that go are not taken along.            *)
MergeForgetting(i) ==
    /\ At(i, "merge") /\ Done(i)
    /\ IF ~column THEN UNCHANGED <<class, column>>
       ELSE /\ class' = [k \in ClassIds |->
                            IF k \in Existing /\ Kept(k) = k
                            THEN [class[k] EXCEPT !.school = Null] ELSE NoClass]
            /\ column' = FALSE
    /\ UNCHANGED <<migrates, tables, unique, member, pivot, was, idless, faults,
                   overlap>>

(* The DO block that takes the school out of classes: one row per year is  *)
(* kept, and members and links of the others are moved to it.              *)
Merge(i) ==
    /\ At(i, "merge") /\ Done(i)
    /\ IF ~column THEN UNCHANGED <<class, column, member>>
       ELSE /\ member' = [u \in Users |-> IF member[u] = 0 THEN 0
                                          ELSE Kept(member[u])]
            /\ class' = [k \in ClassIds |->
                            IF k \in Existing /\ Kept(k) = k
                            THEN [class[k] EXCEPT !.school = Null] ELSE NoClass]
            /\ column' = FALSE
    /\ UNCHANGED <<migrates, tables, unique, pivot, was, idless, faults, overlap>>

(* ADD CONSTRAINT fails on years that are there twice.                     *)
AddUnique(i) ==
    /\ At(i, "unique")
    /\ IF \E k, l \in Existing : k # l /\ class[k].year = class[l].year
       THEN Reject(i) /\ UNCHANGED unique
       ELSE Done(i) /\ unique' = TRUE
    /\ UNCHANGED <<migrates, tables, class, column, member, pivot, was, idless,
                   faults, overlap>>

(* INSERT ... ON CONFLICT (year) DO NOTHING, with fresh ids.               *)
SeedYears(i) ==
    LET missing == {y \in Years : \A k \in Existing : class[k].year # y}
        id == CHOOSE f \in [missing -> ClassIds \ Existing] :
                 \A x, y \in missing : x < y => f[x] < f[y]
    IN  /\ At(i, "years") /\ Done(i)
        /\ class' = [k \in ClassIds |->
                        IF \E y \in missing : id[y] = k
                        THEN [year |-> CHOOSE y \in missing : id[y] = k,
                              school |-> Null]
                        ELSE class[k]]
        /\ UNCHANGED <<migrates, tables, column, unique, member, pivot, was,
                       idless, faults, overlap>>

(* Mutant: it is dropped wherever the statement is reached.                *)
PivotLookNever(i) ==
    /\ At(i, "pivot") /\ i \notin mid /\ Pause(i)
    /\ UNCHANGED <<migrates, schema, faults, overlap>>

(* hasIdColumn is read; without one, class_user is dropped by the next     *)
(* statement, whatever it has become, and every membership with it.        *)
PivotLook(i) ==
    /\ At(i, "pivot") /\ i \notin mid
    /\ IF "class_user" \in tables /\ pivot THEN Done(i) ELSE Pause(i)
    /\ UNCHANGED <<migrates, schema, faults, overlap>>

DropPivot(i) ==
    /\ At(i, "pivot") /\ i \in mid /\ Done(i)
    /\ tables' = tables \ {"class_user"}
    /\ pivot' = FALSE
    /\ member' = [u \in Users |-> 0]
    /\ UNCHANGED <<migrates, class, column, unique, was, idless, faults, overlap>>

Migrate(i) ==
    \/ CreateLook(i) \/ CreateTable(i) \/ Merge(i) \/ AddUnique(i)
    \/ SeedYears(i) \/ PivotLook(i) \/ DropPivot(i)

-----------------------------------------------------------------------------
Empty ==
    /\ tables = {} /\ column = FALSE /\ pivot = FALSE
    /\ class = [k \in ClassIds |-> NoClass]
    /\ member = [u \in Users |-> 0]

(* A database from when classes had a school each, one row per school and  *)
(* year, and users one class; class_user may predate its id column.        *)
Older ==
    /\ tables = Tables \ {"class_school"} /\ column = TRUE /\ pivot \in BOOLEAN
    /\ class \in [ClassIds -> [year : Years, school : Schools] \cup {NoClass}]
    /\ \A k, l \in ClassIds :
          /\ class[l] # NoClass => l <= MaxOld /\ (k < l => class[k] # NoClass)
          /\ k # l /\ class[k] # NoClass => class[k] # class[l]
    /\ member \in [Users -> Existing \cup {0}]

Init ==
    /\ Empty \/ Older
    /\ unique = FALSE
    /\ was = [u \in Users |-> IF member[u] = 0 THEN 0 ELSE class[member[u]].year]
    /\ idless = IF pivot THEN {} ELSE {u \in Users : member[u] # 0}
    /\ migrates \in SUBSET Containers
    /\ promise = [c \in Containers |-> Null]
    /\ waiting = {} /\ mid = {} /\ faults = 0 /\ overlap = FALSE
    /\ boot = [i \in Invocations |-> 0]

Next ==
    \/ \E i \in Invocations : Handler(i) \/ Answer(i) \/ Migrate(i) \/ Fail(i)
    \/ \E c \in Containers : Kill(c)

(* Statements and answers come, and a container that waits for nobody is   *)
(* invoked again: the warmer does so on a schedule.                        *)
Spec == Init /\ [][Next]_vars

FairSpec ==
    /\ Spec
    /\ \A i \in Invocations : WF_vars(Migrate(i)) /\ WF_vars(Answer(i))
    /\ \A c \in Containers : WF_vars(\E i \in Invocations : Home[i] = c /\ Handler(i))

-----------------------------------------------------------------------------
(* Every variable has its type.                                            *)
TypeOK ==
    /\ promise \in [Containers -> Invocations \cup {Null}]
    /\ waiting \subseteq Invocations /\ mid \subseteq Invocations
    /\ boot \in [Invocations -> 0 .. Ready]
    /\ migrates \subseteq Containers /\ tables \subseteq Tables
    /\ class \in [ClassIds -> [year : Years, school : Schools \cup {Null}]
                                \cup {NoClass}]
    /\ column \in BOOLEAN /\ unique \in BOOLEAN /\ pivot \in BOOLEAN
    /\ overlap \in BOOLEAN /\ faults \in 0 .. MaxFaults
    /\ member \in [Users -> Existing \cup {0}]
    /\ was \in [Users -> Years \cup {0}] /\ idless \subseteq Users

(* "Two requests arriving together on a cold container would otherwise     *)
(* each bootstrap an app, and the loser's would leak a connection pool"    *)
(* (lambda.ts:29): a container has one application, being built or built.  *)
OneAppEach ==
    \A i, j \in Invocations :
        Home[i] = Home[j] /\ boot[i] # 0 /\ boot[j] # 0 => i = j

(* "A half-applied migration is not a state worth serving traffic in"      *)
(* (schema.service.ts:359): what answers after migrating has the whole     *)
(* schema, however often a bootstrap was cut short and begun again, the    *)
(* years each once; unless two bootstraps met, when class_user is the one  *)
(* table that another may just have dropped.                               *)
ServesWholeSchema ==
    \A i \in Invocations :
        boot[i] = Ready /\ Home[i] \in migrates =>
            /\ Tables \ tables \subseteq (IF overlap THEN {"class_user"} ELSE {})
            /\ unique /\ ~column
            /\ \A y \in Years :
                  Cardinality({k \in Existing : class[k].year = y}) = 1

(* Before two migrating bootstraps have met, a membership outlives every   *)
(* start, in its year, but for one case: the members of an older           *)
(* class_user that has no id.  The merge carries them over                 *)
(* (schema.service.ts:104) and the same start then drops the table with    *)
(* all of them (schema.service.ts:230).  Whoever has a class is in the     *)
(* year he was put in, and whoever has lost his was in such a table; who   *)
(* was put in one with an id loses nothing.                                *)
MembersKeepTheirYear ==
    ~overlap => \A u \in Users :
        /\ member[u] # 0 => class[member[u]].year = was[u]
        /\ was[u] # 0 /\ member[u] = 0 => u \in idless

(* A container builds one application and serves only on a whole schema,   *)
(* and until two migrating starts meet, none moves a member to another     *)
(* year or takes away a membership of a class_user that has its id.        *)
StartsHold == OneAppEach /\ ServesWholeSchema /\ MembersKeepTheirYear

(* A rejected promise is not inherited "for the life of the container"     *)
(* (lambda.ts:55): when the faults are over, every container that is       *)
(* invoked comes to serve and goes on doing so.                            *)
EveryContainerServes ==
    \A c \in Containers : <>[](\E i \in Invocations : Home[i] = c /\ boot[i] = Ready)

=============================================================================
