------------------------------- MODULE Access -------------------------------
(***************************************************************************)
(* Access: who may do what to a comment, an event or a user, and when      *)
(* (apps/api/src: common/class-scope, common/guards, comments, events,     *)
(* admin).  A login token carries the roles of the moment it was made and  *)
(* is believed until it expires; memberships, and for moderation the roles *)
(* too, are read again by each request.  Every check is a statement of its *)
(* own, and the change it allows another.                                  *)
(*                                                                         *)
(* A request is one element of Requests, used once; the comment or event   *)
(* it may insert is named by it.  Only is_class_admin ever changes:        *)
(* no handler writes is_admin.                                             *)
(***************************************************************************)
EXTENDS Naturals, FiniteSets

CONSTANTS
    Users,
    Supers,        \* users.is_admin
    Classes,
    Requests,      \* the requests of one behaviour
    Served,        \* [Requests -> the operations each may ask for]
    Old,           \* a comment and an event from before
    TTL,           \* how long a token is good, in ticks of the clock
    MaxTime,       \* bound on the clock
    Null

ASSUME AccessAssumption ==
    /\ Supers \subseteq Users
    /\ Old \notin Requests /\ Null \notin Requests \cup {Old} \cup Users \cup Classes
    /\ TTL \in Nat /\ MaxTime \in Nat

Ids   == Requests \cup {Old}
Times == 0 .. MaxTime

VARIABLES
    live,        \* users with a row
    classAdmin,  \* users.is_class_admin
    in,          \* class_user: the classes of each user
    token,       \* what each user's browser holds, Null or a signed token
    now,         \* the clock that tokens expire by
    comment,     \* comments
    event,       \* events
    req,         \* the requests and their local variables
    earlier      \* history: the requests that had finished when this one began

people == <<live, classAdmin, in>>
rows   == <<people, comment, event>>
vars   == <<rows, token, now, req, earlier>>

-----------------------------------------------------------------------------
Ops   == {"login", "comment", "moderate", "remove", "create", "change",
          "cancel", "role", "move", "delete"}
Steps == {"sign", "insert", "own", "standing", "shared", "write", "member"}
Final == {"ok", "refused", "failed"}

Claims == [admin : BOOLEAN, classAdmin : BOOLEAN, at : Times,
           by : Requests \cup {Null}]      \* by: history, the login
Comment == [target : Users, commenter : Users, published : BOOLEAN,
            words    : Ids,                \* history: who wrote the content
            approver : Requests \cup {Null}]  \* history: who published it
Event   == [class : Classes, by : Ids]     \* by: history, who wrote it last

Local == [op : Ops \cup {Null}, pc : {"idle"} \cup Steps \cup Final,
          caller : Users \cup {Null}, claims : Claims \cup {Null},
          at      : Times,                 \* when the guard let it pass
          user    : Users \cup {Null},     \* the user acted upon, a comment's target
          author  : Users \cup {Null},     \* a comment's commenter
          row     : Ids \cup {Null},       \* the comment or event
          class   : Classes \cup {Null},
          words   : BOOLEAN,               \* content is sent
          publish : BOOLEAN \cup {Null}]   \* published, if sent

NoLocal == [op |-> Null, pc |-> "idle", caller |-> Null, claims |-> Null,
            at |-> 0, user |-> Null, author |-> Null, row |-> Null, class |-> Null,
            words |-> FALSE, publish |-> Null]

Comments == {c \in Ids : comment[c] # Null}
Events   == {e \in Ids : event[e] # Null}

At(r, op, pc) == req[r].op = op /\ req[r].pc = pc

Become(r, local) == req' = [req EXCEPT ![r] = local] /\ UNCHANGED earlier
Goto(r, pc)      == Become(r, [req[r] EXCEPT !.pc = pc])

(* A request that was refused, or whose event is written, is of no more    *)
(* interest.                                                               *)
Over(r, pc) == Become(r, [NoLocal EXCEPT !.op = req[r].op, !.pc = pc])

Start(r, local) ==
    /\ req[r].pc = "idle" /\ local.op \in Served[r]
    /\ req' = [req EXCEPT ![r] = local]
    /\ earlier' = [earlier EXCEPT ![r] = {q \in Requests : req[q].pc \in Final}]

(* Mutant: an expired token still verifies.                                *)
ExtractForever(u) == token[u]

(* The claims of the token the browser sends, if it verifies.              *)
ExtractAuthUser(u) ==
    IF token[u] # Null /\ now < token[u].at + TTL THEN token[u] ELSE Null

(* Requests behind JwtAuthGuard; without a good token it is a 401.         *)
Begin(r, u, local) ==
    LET claims == ExtractAuthUser(u) IN
    /\ claims # Null
    /\ Start(r, [local EXCEPT !.caller = u, !.claims = claims, !.at = now])

(* An id that names no row is answered before any right is checked.        *)
Missing(r) ==
    \E op \in {"moderate", "remove", "change", "cancel", "delete", "role"}, u \in Users :
        /\ Begin(r, u, [NoLocal EXCEPT !.op = op, !.pc = "refused"])
        /\ UNCHANGED <<rows, token, now>>

-----------------------------------------------------------------------------
(* ClassScopeService.                                                      *)

SharesAClass(u, v) == in[u] \cap in[v] # {}

(* The roles are read from the users table.                                *)
CanModerateComments(u, commenter, target) ==
    \/ u = target
    \/ u \in live /\ u \in Supers
    \/ u \in live /\ u \in classAdmin /\ SharesAClass(u, commenter)

CanManagePhotos(claims, u, target) ==
    u = target \/ claims.admin \/ (claims.classAdmin /\ SharesAClass(u, target))

(* Mutant: being a classmate is not enough to see.                         *)
CanViewOwnPhotos(claims, u, target) == u = target \/ claims.admin

CanViewPhotos(claims, u, target) ==
    u = target \/ claims.admin \/ SharesAClass(u, target)

CanManageUser(claims, u, target) ==
    claims.admin \/ (claims.classAdmin /\ SharesAClass(u, target))

CanManageEvent(claims, u, class) ==
    claims.admin \/ (claims.classAdmin /\ class \in in[u])

(* The moderation queue of a user, by the claims and one query.            *)
AllPending(claims, u) ==
    {c \in Comments : /\ ~comment[c].published
                      /\ \/ claims.admin
                         \/ claims.classAdmin /\ SharesAClass(comment[c].commenter, u)}

-----------------------------------------------------------------------------
(* login: read the row, compare the password, sign.                        *)
LoginRead(r) ==
    \E u \in live :
        Start(r, [NoLocal EXCEPT !.op = "login", !.pc = "sign", !.caller = u,
                      !.claims = [admin |-> u \in Supers, at |-> 0,
                                  classAdmin |-> u \in classAdmin, by |-> r]])
        /\ UNCHANGED <<rows, token, now>>

LoginSign(r) ==
    LET q == req[r] IN
    /\ At(r, "login", "sign")
    /\ token' = [token EXCEPT ![q.caller] = [q.claims EXCEPT !.at = now]]
    /\ Goto(r, "ok")
    /\ UNCHANGED <<rows, now>>

Login(r) == LoginRead(r) \/ LoginSign(r)

-----------------------------------------------------------------------------
(* createComment: both users must exist; the foreign keys say so again.    *)
CommentLookup(r) ==
    \E u, v \in Users :
        LET local == [NoLocal EXCEPT !.op = "comment", !.user = v]
        IN  /\ Begin(r, u, [local EXCEPT !.pc = IF {u, v} \subseteq live
                                                THEN "insert" ELSE "refused"])
            /\ UNCHANGED <<rows, token, now>>

(* Mutant: the table has no foreign keys.                                  *)
CommentInsertDangling(r) ==
    LET q == req[r] IN
    /\ At(r, "comment", "insert")
    /\ comment' = [comment EXCEPT ![r] = [target |-> q.user,
                         commenter |-> q.caller, published |-> FALSE,
                         words |-> r, approver |-> Null]]
    /\ Goto(r, "ok")
    /\ UNCHANGED <<people, event, token, now>>

CommentInsert(r) ==
    LET q == req[r] IN
    /\ At(r, "comment", "insert")
    /\ IF {q.user, q.caller} \subseteq live
       THEN /\ comment' = [comment EXCEPT ![r] = [target |-> q.user,
                               commenter |-> q.caller, published |-> FALSE,
                               words |-> r, approver |-> Null]]
            /\ Goto(r, "ok")
       ELSE Goto(r, "failed") /\ UNCHANGED comment
    /\ UNCHANGED <<people, event, token, now>>

CreateComment(r) == CommentLookup(r) \/ CommentInsert(r)

(* updateComment and deleteComment read who wrote the comment on whose     *)
(* profile.  Publishing needs standing, editing needs authorship, sending  *)
(* both needs both.                                                        *)
UpdateLookup(r) ==
    \E u \in Users, c \in Comments, words \in BOOLEAN, publish \in BOOLEAN \cup {Null} :
        /\ words \/ publish # Null
        /\ Begin(r, u, [NoLocal EXCEPT !.op = "moderate", !.row = c,
                           !.words = words, !.publish = publish,
                           !.user = comment[c].target,
                           !.author = comment[c].commenter,
                           !.pc = IF publish = Null THEN "own" ELSE "standing"])
        /\ UNCHANGED <<rows, token, now>>

RemoveLookup(r) ==
    \E u \in Users, c \in Comments :
        /\ Begin(r, u, [NoLocal EXCEPT !.op = "remove", !.row = c,
                           !.user = comment[c].target,
                           !.author = comment[c].commenter,
                           !.pc = IF u = comment[c].commenter THEN "write"
                                  ELSE "standing"])
        /\ UNCHANGED <<rows, token, now>>

Granted(r) == Goto(r, IF req[r].op = "remove" \/ ~req[r].words THEN "write"
                      ELSE "own")

(* Mutant: the roles of the token decide, as in the other checks.          *)
StandingByToken(r) ==
    LET q == req[r] IN
    /\ q.pc = "standing"
    /\ IF q.caller = q.user \/ q.claims.admin THEN Granted(r)
       ELSE IF q.claims.classAdmin THEN Goto(r, "shared")
       ELSE Over(r, "refused")
    /\ UNCHANGED <<rows, token, now>>

Standing(r) ==
    LET q == req[r] IN
    /\ q.pc = "standing"
    /\ IF q.caller = q.user \/ q.caller \in live \cap Supers
       THEN Granted(r)
       ELSE IF q.caller \in live \cap classAdmin THEN Goto(r, "shared")
       ELSE Over(r, "refused")
    /\ UNCHANGED <<rows, token, now>>

SharedClass(r) ==
    LET q == req[r] IN
    /\ q.pc = "shared" /\ q.op \in {"moderate", "remove"}
    /\ IF SharesAClass(q.caller, q.author) THEN Granted(r) ELSE Over(r, "refused")
    /\ UNCHANGED <<rows, token, now>>

OwnWords(r) ==
    LET q == req[r] IN
    /\ At(r, "moderate", "own")
    /\ IF q.caller = q.author THEN Goto(r, "write") ELSE Over(r, "refused")
    /\ UNCHANGED <<rows, token, now>>

(* Mutant: when both are sent, the explicit value wins.                    *)
UpdateCommentLastWins(r) ==
    LET q == req[r]
        c == comment[q.row]
        p == q.publish = TRUE
    IN  /\ At(r, "moderate", "write") /\ c # Null
        /\ comment' = [comment EXCEPT ![q.row] =
                          [c EXCEPT !.words = IF q.words THEN r ELSE @,
                                    !.published = p,
                                    !.approver = IF p THEN r ELSE Null]]
        /\ Goto(r, "ok")
        /\ UNCHANGED <<people, event, token, now>>

(* One UPDATE: new words unpublish, whatever else was sent.                *)
UpdateComment(r) ==
    LET q == req[r]
        c == comment[q.row]
        p == ~q.words /\ q.publish
    IN  /\ At(r, "moderate", "write")
        /\ IF c = Null THEN Over(r, "refused") /\ UNCHANGED comment
           ELSE /\ comment' = [comment EXCEPT ![q.row] =
                          [c EXCEPT !.words = IF q.words THEN r ELSE @,
                                    !.published = p,
                                    !.approver = IF p THEN r ELSE Null]]
                /\ Goto(r, "ok")
        /\ UNCHANGED <<people, event, token, now>>

DeleteComment(r) ==
    /\ At(r, "remove", "write")
    /\ comment' = [comment EXCEPT ![req[r].row] = Null]
    /\ Over(r, "ok")
    /\ UNCHANGED <<people, event, token, now>>

Moderate(r) ==
    UpdateLookup(r) \/ RemoveLookup(r) \/ Standing(r) \/ SharedClass(r)
        \/ OwnWords(r) \/ UpdateComment(r) \/ DeleteComment(r)

-----------------------------------------------------------------------------
(* createEvent, updateEvent, deleteEvent: the claims decide; for a class   *)
(* admin the membership of the event's class is read.  (That the class is  *)
(* linked to the school is left out here.)                                 *)
CreateLookup(r) ==
    \E u \in Users, class \in Classes :
        /\ Begin(r, u, [NoLocal EXCEPT !.op = "create", !.pc = "member",
                                       !.row = r, !.class = class])
        /\ UNCHANGED <<rows, token, now>>

EventLookup(r) ==
    \E u \in Users, e \in Events, op \in {"change", "cancel"} :
        /\ Begin(r, u, [NoLocal EXCEPT !.op = op, !.pc = "member",
                                       !.row = e, !.class = event[e].class])
        /\ UNCHANGED <<rows, token, now>>

EventCheck(r) ==
    LET q == req[r] IN
    /\ q.pc = "member" /\ q.op \in {"create", "change", "cancel"}
    /\ IF CanManageEvent(q.claims, q.caller, q.class) THEN Goto(r, "write")
       ELSE Over(r, "refused")
    /\ UNCHANGED <<rows, token, now>>

(* An UPDATE of an event that went since changes no row, and answers 200.  *)
EventWrite(r) ==
    LET q == req[r]
        new == [class |-> q.class, by |-> r]
    IN  /\ q.pc = "write" /\ q.op \in {"create", "change", "cancel"}
        /\ event' = [event EXCEPT ![q.row] =
                        CASE q.op = "create" -> new
                          [] q.op = "cancel" -> Null
                          [] OTHER -> IF @ = Null THEN Null ELSE new]
        /\ Over(r, "ok")
        /\ UNCHANGED <<people, comment, token, now>>

ManageEvent(r) == CreateLookup(r) \/ EventLookup(r) \/ EventCheck(r) \/ EventWrite(r)

-----------------------------------------------------------------------------
(* SuperAdminGuard: setClassAdmin, and moveUserClass, whose own steps are  *)
(* those of Roster.                                                        *)
SetClassAdmin(r) ==
    \E u \in Users, v \in live, promote \in BOOLEAN :
        /\ token[u] # Null /\ token[u].admin
        /\ Begin(r, u, [NoLocal EXCEPT !.op = "role", !.pc = "ok", !.user = v])
        /\ classAdmin' = IF promote THEN classAdmin \cup {v} ELSE classAdmin \ {v}
        /\ UNCHANGED <<live, in, comment, event, token, now>>

MoveUser(r) ==
    \E u \in Users, v \in live, class \in Classes :
        /\ token[u] # Null /\ token[u].admin
        /\ Begin(r, u, [NoLocal EXCEPT !.op = "move", !.pc = "ok", !.user = v])
        /\ in' = [in EXCEPT ![v] = {class}]
        /\ UNCHANGED <<live, classAdmin, comment, event, token, now>>

(* AdminGuard: deleteUser, existence before authorization.                 *)
DeleteLookup(r) ==
    \E u \in Users, v \in live :
        /\ token[u] # Null
        /\ token[u].admin \/ token[u].classAdmin
        /\ Begin(r, u, [NoLocal EXCEPT !.op = "delete", !.pc = "shared", !.user = v])
        /\ UNCHANGED <<rows, token, now>>

DeleteCheck(r) ==
    LET q == req[r] IN
    /\ At(r, "delete", "shared")
    /\ IF CanManageUser(q.claims, q.caller, q.user) THEN Goto(r, "write")
       ELSE Over(r, "refused")
    /\ UNCHANGED <<rows, token, now>>

(* The row goes, and with it memberships and comments to and from.         *)
DeleteUser(r) ==
    LET u == req[r].user IN
    /\ At(r, "delete", "write")
    /\ live' = live \ {u} /\ classAdmin' = classAdmin \ {u}
    /\ in' = [in EXCEPT ![u] = {}]
    /\ comment' = [c \in Ids |-> IF comment[c] # Null
                                    /\ u \in {comment[c].target, comment[c].commenter}
                                 THEN Null ELSE comment[c]]
    /\ Goto(r, "ok")
    /\ UNCHANGED <<event, token, now>>

Administer(r) == SetClassAdmin(r) \/ MoveUser(r) \/ DeleteLookup(r)
                    \/ DeleteCheck(r) \/ DeleteUser(r)

Tick == now < MaxTime /\ now' = now + 1 /\ UNCHANGED <<rows, token, req, earlier>>

-----------------------------------------------------------------------------
TokenOf(u, admins) == [admin |-> u \in Supers, classAdmin |-> u \in admins,
                       at |-> 0, by |-> Null]

(* Everybody has just logged in, there is a comment and an event.          *)
Init ==
    /\ live = Users
    /\ classAdmin \in SUBSET (Users \ Supers)
    /\ in \in [Users -> {{c} : c \in Classes}]
    /\ token = [u \in Users |-> TokenOf(u, classAdmin)]
    /\ now = 0
    /\ \E t, u \in Users :
          comment = [c \in Ids |-> IF c # Old THEN Null ELSE
                        [target |-> t, commenter |-> u, published |-> FALSE,
                         words |-> Old, approver |-> Null]]
    /\ \E k \in Classes :
          event = [e \in Ids |-> IF e # Old THEN Null
                                 ELSE [class |-> k, by |-> Old]]
    /\ req = [r \in Requests |-> NoLocal]
    /\ earlier = [r \in Requests |-> {}]

Next ==
    \/ Tick
    \/ \E r \in Requests : Missing(r) \/ Login(r) \/ CreateComment(r) \/ Moderate(r)
                              \/ ManageEvent(r) \/ Administer(r)

Spec == Init /\ [][Next]_vars

-----------------------------------------------------------------------------
(* Every variable has its type, and a comment's users exist.               *)
TypeOK ==
    /\ live \subseteq Users /\ classAdmin \subseteq live
    /\ in \in [Users -> SUBSET Classes]
    /\ token \in [Users -> Claims \cup {Null}] /\ now \in Times
    /\ comment \in [Ids -> Comment \cup {Null}]
    /\ event \in [Ids -> Event \cup {Null}]
    /\ req \in [Requests -> Local]
    /\ earlier \in [Requests -> SUBSET Requests]
    /\ \A c \in Comments :
          {comment[c].target, comment[c].commenter} \subseteq live

(* "An edit always unpublishes" (comments.repository.ts:171): published    *)
(* words were let through by another request than the one that wrote them, *)
(* whose UPDATE came after it, and whose caller is the profile's owner or  *)
(* had, while the request ran, a role: whatever overlapped.  It does not   *)
(* say that the caller has read them: a moderator's UPDATE that lands      *)
(* after an edit publishes words he was never shown.                       *)
EditsAreModerated ==
    \A c \in Comments : comment[c].published =>
        LET r == comment[c].approver IN
        /\ r # Null /\ r # comment[c].words
        /\ \/ req[r].caller \in {comment[c].target} \cup Supers \cup classAdmin
           \/ \E q \in Requests : /\ req[q].op \in {"role", "delete"}
                                  /\ req[q].user = req[r].caller
                                  /\ q \notin earlier[r]

(* A moderator has no role left, and lost it before the request began.     *)
Lost(r, u) == /\ u \notin live \cap (Supers \cup classAdmin)
              /\ \A q \in Requests :
                    req[q].op \in {"role", "delete"} /\ req[q].user = u
                       => q \in earlier[r]

(* "A demoted one loses comment moderation immediately"                    *)
(* (class-scope.service.ts:21): what somebody who lost the role before the *)
(* request began does to a comment is to delete one of his own, edit it,   *)
(* or act on his own profile, whatever his token says.                     *)
DemotionEndsModeration ==
    [][\A r \in Requests, c \in Ids :
             /\ req[r] # req'[r] /\ req[r].pc = "write"
             /\ req[r].op \in {"moderate", "remove"}
             /\ comment[c] # Null /\ comment'[c] # comment[c]
             /\ Lost(r, req[r].caller)
          => \/ req[r].caller = comment[c].target
             \/ req[r].caller = comment[c].commenter /\ req[r].publish = Null]_vars

(* "... while keeping event control for up to 24h": an event is changed    *)
(* with no such role in the database only by a request whose token had not *)
(* expired when it began, and was made by a login that the demotion, or    *)
(* the deletion of the user, did not precede.                              *)
ClaimsOutliveRoles ==
    [][\A r \in Requests, e \in Ids :
             /\ event'[e] # event[e] /\ req[r] # req'[r]
             /\ req[r].caller \notin live \cap (Supers \cup classAdmin)
          => LET claims == req[r].claims IN
             /\ req[r].at < claims.at + TTL
             /\ \E q \in Requests :
                   /\ req[q].op \in {"role", "delete"}
                   /\ req[q].user = req[r].caller
                   /\ claims.by # Null => q \notin earlier[claims.by]]_vars

(* The checks that are written separately agree.  The queue of a moderator *)
(* whose token is up to date is what the per-comment check lets him act on *)
(* ("the same rule [...] expressed as a single query",                     *)
(* comments.repository.ts:125), but for his own profile; and who may       *)
(* manage somebody may manage the photos, and who may manage those may see *)
(* them ("broader than managing").                                         *)
ChecksAgree ==
    \A u \in live : token[u] # Null =>
        /\ token[u].classAdmin = (u \in classAdmin) =>
              \A c \in {d \in Comments : ~comment[d].published} :
                  LET may == CanModerateComments(u, comment[c].commenter,
                                                 comment[c].target)
                  IN  /\ c \in AllPending(token[u], u) => may
                      /\ may => c \in AllPending(token[u], u)
                                   \/ u = comment[c].target
        /\ \A v \in Users :
              /\ CanManageUser(token[u], u, v) => CanManagePhotos(token[u], u, v)
              /\ CanManagePhotos(token[u], u, v) => CanViewPhotos(token[u], u, v)

(* No words are published by the request that wrote them, or by somebody    *)
(* who might not, and whoever is shown a thing may do with it what the      *)
(* page offers.                                                             *)
ModerationHolds == EditsAreModerated /\ ChecksAgree

(* A role that was lost is lost: at once for comments, and within the life  *)
(* of a token for events.                                                   *)
RolesEnd == DemotionEndsModeration /\ ClaimsOutliveRoles

=============================================================================
