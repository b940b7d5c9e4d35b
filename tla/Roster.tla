------------------------------- MODULE Roster -------------------------------
(***************************************************************************)
(* Roster: which class years a school offers, and who is in which class at *)
(* which school (apps/api/src: classes, schools, admin, and the cold start *)
(* of database/schema.service.ts).  Every handler checks with SELECTs and  *)
(* then writes with statements of their own; only the move of a user is a  *)
(* transaction, at READ COMMITTED.  Between any two statements of one      *)
(* request any statement of another may run.                               *)
(*                                                                         *)
(* A request is one element of Requests, used once.  Ids of users and of   *)
(* schools are never reused, so each is unborn, live, then gone.  A class  *)
(* is its year.  Photos are in Photos, accounts in Accounts.               *)
(***************************************************************************)
EXTENDS Naturals, FiniteSets

CONSTANTS
    Users, Schools,
    Requests,      \* the requests (and cold starts) of one behaviour
    Served,        \* [Requests -> the operations each may ask for]
    MayFail,       \* those whose statements may fail for no reason of ours
    MaxYear,       \* bound on the calendar
    MaxRows,       \* MAX_IMPORT_ROWS
    Null

ASSUME RosterAssumption ==
    /\ MayFail \subseteq Requests
    /\ MaxYear \in Nat \ {0} /\ MaxRows \in Nat \ {0}
    /\ Null \notin Users \cup Schools \cup Requests \cup Nat

Years  == 1 .. MaxYear
Places == Years \X Schools

VARIABLES
    now,       \* the current year, of Node and of Postgres alike
    classes,   \* classes: the years with a row
    school,    \* schools: unborn, live or gone
    linked,    \* class_school
    user,      \* users: unborn, live or gone
    profiled,  \* profiles: the users with one
    member,    \* class_user, UNIQUE(class_id, user_id)
    req,       \* the requests and their local variables
    earlier    \* history: the requests that had finished when this one began

rows == <<classes, school, linked, user, profiled, member>>
vars == <<now, rows, req, earlier>>

-----------------------------------------------------------------------------
Ops   == {"open", "list", "link", "bulk", "unlink", "cascade", "close",
          "create", "move", "boot"}
Final == {"ok", "refused", "failed"}
Steps == {"any", "insert", "leave", "left", "sweep", "drop", "unlink", "close",
          "row", "profile", "place", "erase", "erased", "backfill"}

ASSUME NullIsNothing == Null \notin Ops

Rows  == Users \X Years \X (Requests \cup {Null})

Local == [op     : Ops \cup {Null},
          pc     : {"idle"} \cup Steps \cup Final,
          school : Schools \cup {Null},
          year   : Years \cup {Null},
          years  : SUBSET Years,          \* bulk: what is left to link
          user   : Users \cup {Null},
          who    : SUBSET Users,          \* the users to delete
          seen   : SUBSET Rows,           \* memberships a DELETE saw
          left   : 0 .. MaxRows,          \* import: the rows still to do
          made   : SUBSET Users]          \* import: the rows reported created

NoLocal == [op |-> Null, pc |-> "idle", school |-> Null, year |-> Null,
            years |-> {}, user |-> Null, who |-> {}, seen |-> {}, left |-> 0,
            made |-> {}]

Member == [user : Users, year : Years, school : Schools \cup {Null},
           by : Requests \cup {Null}]  \* who inserted it: the row's id

At(r, op, pc) == req[r].op = op /\ req[r].pc = pc

Become(r, local) == /\ req' = [req EXCEPT ![r] = local]
                    /\ UNCHANGED <<now, earlier>>

Goto(r, pc) == Become(r, [req[r] EXCEPT !.pc = pc])

Begin(r, local) ==
    /\ req[r].pc = "idle" /\ local.op \in Served[r]
    /\ req' = [req EXCEPT ![r] = local]
    /\ earlier' = [earlier EXCEPT ![r] = {q \in Requests : req[q].pc \in Final}]
    /\ UNCHANGED now

(* An answer after which the request's local variables do not matter.      *)
Answer(r, pc) == Become(r, [NoLocal EXCEPT !.op = req[r].op, !.pc = pc])
Refuse(r, op) == Begin(r, [NoLocal EXCEPT !.op = op, !.pc = "refused"])

LiveSchools == {s \in Schools : school[s] = "live"}
Live        == {u \in Users : user[u] = "live"}
YearsAt(s)  == {y \in Years : <<y, s>> \in linked}
Classes(u)  == {m.year : m \in {n \in member : n.user = u}}
InClassAt(y, s) == {m \in member : m.year = y /\ m.school = s}
UsersOf(M)  == {m.user : m \in M}
Row(m)      == <<m.user, m.year, m.by>>
RowsOf(M)   == {Row(m) : m \in M}

(* The memberships an open transaction has deleted and still locks.        *)
Held == UNION {req[q].seen : q \in {p \in Requests : At(p, "move", "erased")}}

(* A statement that writes these memberships does not wait for a lock.     *)
Free(M) == RowsOf(M) \cap Held = {}

-----------------------------------------------------------------------------
(* createSchool: one INSERT.                                               *)
CreateSchool(r) ==
    \E s \in Schools :
        /\ school[s] = "unborn"
        /\ Begin(r, [NoLocal EXCEPT !.op = "open", !.pc = "ok"])
        /\ school' = [school EXCEPT ![s] = "live"]
        /\ UNCHANGED <<classes, linked, user, profiled, member>>

(* listSchoolClasses links the current year of a school that offers some,  *)
(* and answers for a school that does not exist too.                       *)
ListLookup(r) ==
    \E s \in Schools :
        LET local == [NoLocal EXCEPT !.op = "list", !.school = s, !.year = now]
        IN  /\ IF <<now, s>> \in linked
               THEN Begin(r, [NoLocal EXCEPT !.op = "list", !.pc = "ok"])
               ELSE Begin(r, [local EXCEPT !.pc = "any"])
            /\ UNCHANGED rows

(* Mutant: the current year is linked whether or not any other is.         *)
ListAnyway(r) ==
    /\ At(r, "list", "any")
    /\ IF req[r].year \in classes THEN Goto(r, "insert") ELSE Answer(r, "ok")
    /\ UNCHANGED rows

ListAny(r) ==
    /\ At(r, "list", "any")
    /\ IF YearsAt(req[r].school) # {} /\ req[r].year \in classes
       THEN Goto(r, "insert")
       ELSE Answer(r, "ok")
    /\ UNCHANGED rows

(* INSERT ... ON CONFLICT DO NOTHING; the school must exist.               *)
ListInsert(r) ==
    LET q == req[r] IN
    /\ At(r, "list", "insert")
    /\ IF q.school \in LiveSchools
       THEN /\ linked' = linked \cup {<<q.year, q.school>>}
            /\ Answer(r, "ok")
       ELSE Answer(r, "failed") /\ UNCHANGED linked
    /\ UNCHANGED <<classes, school, user, profiled, member>>

ListSchoolClasses(r) == ListLookup(r) \/ ListAny(r) \/ ListInsert(r)

-----------------------------------------------------------------------------
(* linkClassToSchool checks school, year and link, then INSERTs without ON *)
(* CONFLICT: a link made in between is a duplicate key.                    *)
LinkLookup(r) ==
    \E s \in Schools, y \in Years :
        LET local == [NoLocal EXCEPT !.op = "link", !.school = s, !.year = y]
        IN  /\ IF s \in LiveSchools /\ y \in classes /\ <<y, s>> \notin linked
               THEN Begin(r, [local EXCEPT !.pc = "insert"])
               ELSE Refuse(r, local.op)
            /\ UNCHANGED rows

LinkInsert(r) ==
    LET q == req[r] IN
    /\ At(r, "link", "insert")
    /\ IF q.school \in LiveSchools /\ <<q.year, q.school>> \notin linked
       THEN /\ linked' = linked \cup {<<q.year, q.school>>}
            /\ Answer(r, "ok")
       ELSE Answer(r, "failed") /\ UNCHANGED linked
    /\ UNCHANGED <<classes, school, user, profiled, member>>

LinkClassToSchool(r) == LinkLookup(r) \/ LinkInsert(r)

(* bulkLinkClasses: the years from the start to now, newest first, in one  *)
(* INSERT each.                                                            *)
BulkLookup(r) ==
    \E s \in Schools, start \in Years :
        LET local == [NoLocal EXCEPT !.op = "bulk", !.school = s]
        IN  /\ IF start <= now /\ s \in LiveSchools
               THEN Begin(r, [local EXCEPT !.pc = "insert",
                                           !.years = classes \cap (start .. now)])
               ELSE Refuse(r, local.op)
            /\ UNCHANGED rows

BulkInsert(r) ==
    LET q == req[r] IN
    /\ At(r, "bulk", "insert")
    /\ \/ /\ q.years = {}
          /\ Answer(r, "ok") /\ UNCHANGED linked
       \/ \E y \in q.years :
            /\ \A z \in q.years : z <= y
            /\ IF q.school \in LiveSchools
               THEN /\ linked' = linked \cup {<<y, q.school>>}
                    /\ Become(r, [q EXCEPT !.years = @ \ {y}])
               ELSE Answer(r, "failed") /\ UNCHANGED linked
    /\ UNCHANGED <<classes, school, user, profiled, member>>

BulkLinkClasses(r) == BulkLookup(r) \/ BulkInsert(r)

-----------------------------------------------------------------------------
(* DELETE FROM users takes the profiles and the memberships along.         *)
DeleteUsers(W) ==
    /\ user' = [u \in Users |-> IF u \in W /\ user[u] = "live" THEN "gone"
                                ELSE user[u]]
    /\ profiled' = profiled \ W
    /\ member' = {m \in member : m.user \notin W}

(* unlinkClassFromSchool: the members at the school leave the class, or    *)
(* are deleted, before the link goes.                                      *)
UnlinkLookup(r) ==
    \E s \in Schools, y \in Years, op \in {"unlink", "cascade"} :
        LET local == [NoLocal EXCEPT !.op = op, !.school = s, !.year = y]
        IN  /\ IF <<y, s>> \notin linked
               THEN Refuse(r, op)
               ELSE Begin(r, [local EXCEPT
                        !.pc = IF op = "cascade" THEN "sweep" ELSE "leave"])
            /\ UNCHANGED rows

(* Mutant: the members keep their memberships.                             *)
UnlinkLeaveNobody(r) ==
    /\ At(r, "unlink", "leave")
    /\ Goto(r, "left")
    /\ UNCHANGED rows

(* DELETE FROM class_user sees what is committed when it starts ...        *)
UnlinkLeave(r) ==
    LET q == req[r] IN
    /\ At(r, "unlink", "leave")
    /\ Become(r, [q EXCEPT !.pc = "left",
                           !.seen = RowsOf(InClassAt(q.year, q.school))])
    /\ UNCHANGED rows

(* ... and waits for the rows a move has locked, which then are gone.      *)
UnlinkLeft(r) ==
    LET q == req[r] IN
    /\ At(r, "unlink", "left")
    /\ q.seen \cap Held = {}
    /\ member' = {m \in member : Row(m) \notin q.seen
                                    \/ m.school # q.school}
    /\ Become(r, [q EXCEPT !.pc = "unlink", !.seen = {}])
    /\ UNCHANGED <<classes, school, linked, user, profiled>>

(* Mutant: the whole class is listed, not only its members at the school.  *)
SweepListClass(r) ==
    LET q == req[r] IN
    /\ q.pc = "sweep" /\ q.op \in {"cascade", "close"}
    /\ Become(r, [q EXCEPT !.pc = "drop",
                  !.who = UsersOf(IF q.op = "cascade"
                                  THEN {m \in member : m.year = q.year}
                                  ELSE {m \in member : m.school = q.school})])
    /\ UNCHANGED rows

(* deleteFolder, then the ids of the members to delete.                    *)
SweepList(r) ==
    LET q == req[r] IN
    /\ q.pc = "sweep"
    /\ q.op \in {"cascade", "close"}
    /\ Become(r, [q EXCEPT !.pc = "drop",
                  !.who = UsersOf(IF q.op = "cascade"
                                  THEN InClassAt(q.year, q.school)
                                  ELSE {m \in member : m.school = q.school})])
    /\ UNCHANGED rows

SweepDrop(r) ==
    LET q == req[r] IN
    /\ q.pc = "drop"
    /\ Free({m \in member : m.user \in q.who})
    /\ DeleteUsers(q.who)
    /\ Become(r, [q EXCEPT !.who = {}, !.pc = IF q.op = "cascade" THEN "unlink"
                                               ELSE "close"])
    /\ UNCHANGED <<classes, school, linked>>

Unlink(r) ==
    LET q == req[r] IN
    /\ q.pc = "unlink"
    /\ linked' = linked \ {<<q.year, q.school>>}
    /\ Goto(r, "ok")
    /\ UNCHANGED <<classes, school, user, profiled, member>>

UnlinkClassFromSchool(r) ==
    UnlinkLookup(r) \/ UnlinkLeave(r) \/ UnlinkLeft(r)
        \/ SweepList(r) \/ SweepDrop(r) \/ Unlink(r)

(* deleteSchool: the same sweep for a whole school; then DELETE FROM       *)
(* schools takes the links along and clears the school of memberships.     *)
CloseLookup(r) ==
    \E s \in Schools :
        LET local == [NoLocal EXCEPT !.op = "close", !.school = s]
        IN  /\ IF s \in LiveSchools
               THEN Begin(r, [local EXCEPT !.pc = "sweep"])
               ELSE Refuse(r, local.op)
            /\ UNCHANGED rows

(* Mutant: the links of the school survive it.                             *)
CloseUnlinkingNothing(r) ==
    LET s == req[r].school IN
    /\ At(r, "close", "close")
    /\ school' = [school EXCEPT ![s] = "gone"]
    /\ member' = {IF m.school = s THEN [m EXCEPT !.school = Null] ELSE m :
                     m \in member}
    /\ Goto(r, "ok")
    /\ UNCHANGED <<classes, linked, user, profiled>>

Close(r) ==
    LET s == req[r].school IN
    /\ At(r, "close", "close")
    /\ Free({m \in member : m.school = s})
    /\ school' = [school EXCEPT ![s] = "gone"]
    /\ linked' = {p \in linked : p[2] # s}
    /\ member' = {IF m.school = s THEN [m EXCEPT !.school = Null] ELSE m :
                     m \in member}
    /\ Goto(r, "ok")
    /\ UNCHANGED <<classes, user, profiled>>

DeleteSchool(r) == CloseLookup(r) \/ Close(r)

-----------------------------------------------------------------------------
(* createRosterUser is an import of one row: the URL's class and school    *)
(* are used as they are.                                                   *)
ImportLookup(r) ==
    \E s \in Schools, y \in Years, n \in 1 .. MaxRows :
        /\ Begin(r, [NoLocal EXCEPT !.op = "create", !.pc = "row",
                                    !.school = s, !.year = y, !.left = n])
        /\ UNCHANGED rows

(* Mutant: a row is counted as created once its user row is in.            *)
ImportUserCounted(r) ==
    /\ At(r, "create", "row")
    /\ \E u \in Users :
          /\ user[u] = "unborn"
          /\ user' = [user EXCEPT ![u] = "live"]
          /\ Become(r, [req[r] EXCEPT !.pc = "profile", !.user = u,
                                      !.made = @ \cup {u}])
    /\ UNCHANGED <<classes, school, linked, profiled, member>>

(* A row that fails is reported as skipped, and the next one is tried.     *)
Skip(r) ==
    LET q == req[r] IN
    Become(r, [q EXCEPT !.left = @ - 1, !.user = Null,
                        !.pc = IF q.left = 1 THEN "ok" ELSE "row"])

ImportUser(r) ==
    /\ At(r, "create", "row")
    /\ \E u \in Users :
          /\ user[u] = "unborn"
          /\ user' = [user EXCEPT ![u] = "live"]
          /\ Become(r, [req[r] EXCEPT !.pc = "profile", !.user = u])
    /\ UNCHANGED <<classes, school, linked, profiled, member>>

ImportProfile(r) ==
    LET q == req[r] IN
    /\ At(r, "create", "profile")
    /\ IF q.user \in Live
       THEN profiled' = profiled \cup {q.user} /\ Goto(r, "place")
       ELSE Skip(r) /\ UNCHANGED profiled
    /\ UNCHANGED <<classes, school, linked, user, member>>

(* ON CONFLICT DO NOTHING; user, class and school must exist.              *)
ImportPlace(r) ==
    LET q == req[r] IN
    /\ At(r, "create", "place")
    /\ IF q.user \in Live /\ q.year \in classes /\ q.school \in LiveSchools
       THEN /\ member' = IF q.year \in Classes(q.user) THEN member
                         ELSE member \cup {[user |-> q.user, year |-> q.year,
                                            school |-> q.school, by |-> r]}
            /\ Become(r, [q EXCEPT !.made = @ \cup {q.user}, !.user = Null,
                                   !.left = @ - 1,
                                   !.pc = IF q.left = 1 THEN "ok" ELSE "row"])
       ELSE Skip(r) /\ UNCHANGED member
    /\ UNCHANGED <<classes, school, linked, user, profiled>>

ImportUsers(r) ==
    ImportLookup(r) \/ ImportUser(r) \/ ImportProfile(r) \/ ImportPlace(r)

-----------------------------------------------------------------------------
(* moveUserClass checks, then deletes and inserts in one transaction.      *)
(* findCurrentClassId reads one of the user's memberships, any of them.    *)
MoveLookup(r) ==
    \E u \in Users, y \in Years :
        LET local == [NoLocal EXCEPT !.op = "move", !.user = u, !.year = y]
        IN  /\ \/ /\ u \in Live /\ y \in classes
                  /\ Classes(u) # {y}
                  /\ Begin(r, [local EXCEPT !.pc = "erase"])
               \/ /\ ~(u \in Live /\ y \in classes) \/ y \in Classes(u)
                  /\ Refuse(r, "move")
            /\ UNCHANGED rows

(* Mutant: the DELETE commits on its own.                                  *)
MoveErasedForGood(r) ==
    LET q == req[r] IN
    /\ At(r, "move", "leave")
    /\ Become(r, [q EXCEPT !.pc = "erased", !.seen = {}])
    /\ member' = {m \in member : Row(m) \notin q.seen}
    /\ UNCHANGED <<classes, school, linked, user, profiled>>

(* The DELETE sees the memberships committed by now; another move that has *)
(* deleted some of them makes it wait, and then only the others are left   *)
(* to delete: what that move inserted is not seen.                         *)
MoveErase(r) ==
    LET q == req[r] IN
    /\ At(r, "move", "erase")
    /\ Become(r, [q EXCEPT !.pc = "leave",
                  !.seen = RowsOf({m \in member : m.user = q.user})])
    /\ UNCHANGED rows

MoveErased(r) ==
    LET q == req[r] IN
    /\ At(r, "move", "leave")
    /\ q.seen \cap Held = {}
    /\ Become(r, [q EXCEPT !.pc = "erased", !.seen = @ \cap RowsOf(member)])
    /\ UNCHANGED rows

(* A class linked to several schools lands the user at any one of them.    *)
SchoolsFor(y) == LET S == {s \in Schools : <<y, s>> \in linked}
                 IN  IF S = {} THEN {Null} ELSE S

(* Mutant: the move replaces the memberships of the class only.            *)
MoveInsertBeside(r) ==
    LET q == req[r] IN
    /\ At(r, "move", "erased")
    /\ q.user \in Live /\ q.year \notin Classes(q.user)
    /\ \E s \in SchoolsFor(q.year) :
          member' = member \cup {[user |-> q.user, year |-> q.year,
                                  school |-> s, by |-> r]}
    /\ Become(r, [q EXCEPT !.pc = "ok", !.seen = {}])
    /\ UNCHANGED <<classes, school, linked, user, profiled>>

(* INSERT and COMMIT, or a duplicate key or a user gone, and ROLLBACK.     *)
MoveInsert(r) ==
    LET q    == req[r]
        rest == {m \in member : Row(m) \notin q.seen}
    IN  /\ At(r, "move", "erased")
        /\ IF q.user \in Live /\ \A m \in rest : m.user = q.user => m.year # q.year
           THEN /\ \E s \in SchoolsFor(q.year) :
                      member' = rest \cup {[user |-> q.user, year |-> q.year,
                                            school |-> s, by |-> r]}
                /\ Become(r, [q EXCEPT !.pc = "ok", !.seen = {}])
           ELSE /\ Become(r, [q EXCEPT !.pc = "failed", !.seen = {}])
                /\ UNCHANGED member
        /\ UNCHANGED <<classes, school, linked, user, profiled>>

MoveUserClass(r) ==
    MoveLookup(r) \/ MoveErase(r) \/ MoveErased(r) \/ MoveInsert(r)

-----------------------------------------------------------------------------
(* A cold start: seed the years to the current one, then give memberships  *)
(* without a school one the class is linked to, whichever.                 *)
SeedYears(r) ==
    /\ Begin(r, [NoLocal EXCEPT !.op = "boot", !.pc = "backfill"])
    /\ classes' = classes \cup (1 .. now)
    /\ UNCHANGED <<school, linked, user, profiled, member>>

Backfill(r) ==
    LET bare == {m \in member : m.school = Null /\ SchoolsFor(m.year) # {Null}}
    IN  /\ At(r, "boot", "backfill")
        /\ Free(bare)
        /\ \E f \in [bare -> Schools] :
              /\ \A m \in bare : f[m] \in SchoolsFor(m.year)
              /\ member' = (member \ bare)
                              \cup {[m EXCEPT !.school = f[m]] : m \in bare}
        /\ Goto(r, "ok")
        /\ UNCHANGED <<classes, school, linked, user, profiled>>

(* A DELETE of users waits for the memberships a move holds while the move *)
(* waits for the row of its user: Postgres aborts either.                  *)
Deadlocked(r) ==
    \E q \in Requests :
        \/ At(r, "move", "erased") /\ req[q].pc = "drop" /\ req[r].user \in req[q].who
        \/ At(q, "move", "erased") /\ req[r].pc = "drop" /\ req[q].user \in req[r].who

(* The error or the timeout that ends a request, or skips the row of an    *)
(* import, wherever it stands.  A move's transaction is rolled back.       *)
Fail(r) ==
    /\ r \in MayFail \/ Deadlocked(r)
    /\ req[r].pc \in Steps
    /\ IF req[r].op = "create" THEN Skip(r)
       ELSE Become(r, [req[r] EXCEPT !.pc = "failed", !.seen = {}, !.who = {}])
    /\ UNCHANGED rows

NewYear ==
    /\ now < MaxYear
    /\ now' = now + 1
    /\ UNCHANGED <<rows, req, earlier>>

-----------------------------------------------------------------------------
(* A database as some past of requests that did not overlap has left it:   *)
(* a user may have been left without a class by an unlink.                 *)
Init ==
    /\ now \in Years
    /\ classes = 1 .. now
    /\ school \in [Schools -> {"unborn", "live"}]
    /\ linked \in SUBSET (classes \X LiveSchools)
    /\ user \in [Users -> {"unborn", "live"}]
    /\ profiled = Live
    /\ \E f \in [Live -> linked \cup {Null}] :
          member = {[user |-> u, year |-> f[u][1], school |-> f[u][2],
                     by |-> Null] : u \in {v \in Live : f[v] # Null}}
    /\ req = [r \in Requests |-> NoLocal]
    /\ earlier = [r \in Requests |-> {}]

Next ==
    \/ NewYear
    \/ \E r \in Requests :
          \/ CreateSchool(r) \/ ListSchoolClasses(r)
          \/ LinkClassToSchool(r) \/ BulkLinkClasses(r)
          \/ UnlinkClassFromSchool(r) \/ DeleteSchool(r)
          \/ ImportUsers(r) \/ MoveUserClass(r)
          \/ SeedYears(r) \/ Backfill(r) \/ Fail(r)

Spec == Init /\ [][Next]_vars

-----------------------------------------------------------------------------
(* Every variable has its type.                                            *)
TypeOK ==
    /\ now \in Years /\ classes \subseteq Years
    /\ school \in [Schools -> {"unborn", "live", "gone"}]
    /\ linked \subseteq classes \X LiveSchools
    /\ user \in [Users -> {"unborn", "live", "gone"}]
    /\ profiled \subseteq Live
    /\ member \subseteq Member
    /\ \A m, n \in member : m.user = n.user /\ m.year = n.year => m = n
    /\ req \in [Requests -> Local]
    /\ earlier \in [Requests -> SUBSET Requests]

Overlap(q, r) == /\ q # r
                 /\ req[q].pc # "idle" /\ req[r].pc # "idle"
                 /\ q \notin earlier[r] /\ r \notin earlier[q]

(* The unlinking of a class, with or without its members.                  *)
Unlinks(q, y, s) == /\ req[q].op \in {"unlink", "cascade"}
                    /\ req[q].year = y /\ req[q].school = s

(* "Moves a user by clearing every membership and inserting one"           *)
(* (admin.repository.ts:288): nobody is in two classes, except someone     *)
(* two overlapping requests placed, at least one of them a move.  One      *)
(* move alone, or moves one after the other, leave one class.              *)
SecondClassNeedsOverlap ==
    \A m, n \in member :
        m.user = n.user /\ m # n =>
            /\ m.by # Null /\ n.by # Null
            /\ Overlap(m.by, n.by)
            /\ "move" \in {req[m.by].op, req[n.by].op}

(* Unlinking a class from a school leaves nobody in it there: whoever is   *)
(* in a class at a school that does not offer it was put there by a roster *)
(* entry for that very pair, which checks no link, or by a move or a cold  *)
(* start that ran while the class was being unlinked.                      *)
UnlinkedClassesAreEmpty ==
    \A m \in member :
        m.school # Null /\ <<m.year, m.school>> \notin linked =>
            \/ m.by # Null /\ req[m.by].op = "create"
            \/ \E q, b \in Requests :
                  /\ Unlinks(q, m.year, m.school)
                  /\ Overlap(q, b)
                  /\ b = m.by \/ req[b].op = "boot"

(* A roster row is reported as created only when the user, the profile and *)
(* the membership are all in, and stays so until the user is deleted or    *)
(* the class unlinked; what a failed row has left is never counted.        *)
CreatedRowsAreWhole ==
    \A r \in Requests : \A u \in req[r].made \cap Live :
        /\ u \in profiled
        /\ Classes(u) = {} => \E q \in Requests : req[q].op = "unlink"

(* "It only fires when the school already has at least one linked year"    *)
(* (classes.service.ts:145): a school that offers no class is given one by *)
(* an admin's link, or by a listing that was under way while the school's  *)
(* last class was unlinked.                                                *)
EmptySchoolsStayEmpty ==
    [][\A s \in Schools :
          YearsAt(s) = {} /\ YearsAt(s)' # {} =>
              \E r \in Requests :
                  /\ req[r].pc = "insert" /\ req[r].school = s
                  /\ req[r] # req'[r]
                  /\ \/ req[r].op \in {"link", "bulk"}
                     \/ /\ req[r].op = "list"
                        /\ \E q \in Requests, y \in Years :
                              Unlinks(q, y, s) /\ Overlap(q, r)]_vars

(* Only members are deleted with their class or their school: someone who  *)
(* is no longer there when the users go was moved away, unlinked, or had   *)
(* the school closed around them, while the request ran.                   *)
OnlyMembersAreSwept ==
    [][\A u \in Live, r \in Requests :
          u \notin Live' /\ req[r] # req'[r] =>
              LET here == {m \in member : m.user = u /\ m.school = req[r].school}
              IN  \/ \E m \in here : req[r].op = "close" \/ m.year = req[r].year
                  \/ \E q \in Requests :
                        /\ Overlap(q, r)
                        /\ \/ req[q].op = "move" /\ req[q].user = u
                           \/ req[q].op \in {"unlink", "close"}
                                /\ req[q].school = req[r].school]_vars

(* "The delete-then-insert pair must not be able to strand a user with no  *)
(* class membership at all" (admin.repository.ts:305): a user with a class *)
(* loses the last one only by the class being unlinked.                    *)
OnlyUnlinkStrands ==
    [][\A u \in Live :
          u \in Live' /\ Classes(u) # {} /\ Classes(u)' = {} =>
              \E r \in Requests : At(r, "unlink", "left") /\ req[r] # req'[r]]_vars

(* What a request leaves in the tables: one class for everyone, nobody in a *)
(* class that is not offered, no created row that is not whole, but for the *)
(* overlaps the parts name.                                                 *)
MembershipsHold ==
    SecondClassNeedsOverlap /\ UnlinkedClassesAreEmpty /\ CreatedRowsAreWhole

(* What no step of a request does: give an empty school a class, delete who *)
(* is not a member, or take somebody's last class away.                     *)
StepsHold == EmptySchoolsStayEmpty /\ OnlyMembersAreSwept /\ OnlyUnlinkStrands

=============================================================================
