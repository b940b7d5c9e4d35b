------------------------------- MODULE Session -------------------------------
(***************************************************************************)
(* Who is signed in, in a browser with several tabs.  localStorage, which  *)
(* the tabs share, holds the token and the user (api.ts, AppContext.tsx);  *)
(* each tab keeps its own copy of the user and reads the shared one only   *)
(* when its page loads.  A request carries the token that is stored when   *)
(* it is sent, whoever the tab shows; its answer may find the tab signed   *)
(* out, signed in as somebody else, or about to leave for /login.          *)
(*                                                                         *)
(* Sessions are numbered in the order their answers arrive; token n is the *)
(* token of session n and 0 is no token.  What a user is called (profile,  *)
(* first and last name) is "the name of user u".                           *)
(***************************************************************************)
EXTENDS Naturals, Sequences, FiniteSets

CONSTANTS NumTabs, Users, SuperAdmins, Slots, MaxSessions, NoUser,
          PhotoUsers    \* those who change their photos (a bound)

ASSUME SessionAssumption ==
    /\ SuperAdmins \subseteq Users
    /\ NumTabs \in Nat /\ MaxSessions \in Nat
    /\ NoUser \notin Users

VARIABLES
    sessions,   \* how many sessions have begun
    stored,     \* localStorage: [token, user]; whom the token names, if it expired
    tab,        \* per tab: what AppContext holds, the path, leaving for /login
    slot,       \* the requests in flight
    showed      \* history: the tabs that ever showed somebody signed in

sessionVars == <<sessions, stored, tab, slot, showed>>

(* Tabs are numbered in the order they are opened. *)
Tabs == 1..NumTabs

Paths == {"unopened", "login", "public", "app"}
Cleared == [token |-> 0, whose |-> NoUser, expired |-> FALSE, user |-> NoUser]
FreeSlot == [kind |-> "idle"]

(* A user as AppContext keeps it: the id, whose name it bears, and (history) *)
(* whether a name not its own was asked for in an earlier session.           *)
UserRecords == [id : Users, name : Users, late : BOOLEAN]

Adopt(user, n) == [id |-> user.id, name |-> user.name, late |-> user.late,
                   since |-> n]
Adopted == [id : Users, name : Users, late : BOOLEAN, since : 1..MaxSessions]
Bare(cur) == [id |-> cur.id, name |-> cur.name, late |-> cur.late]

ASSUME NoUserIsNobody == NoUser \notin Adopted

SessionTypeOK ==
    /\ sessions \in 0..MaxSessions
    /\ stored.token \in 0..sessions
    /\ stored.expired \in BOOLEAN
    /\ stored.whose \in Users \cup {NoUser}
    /\ stored.user \in UserRecords \cup {NoUser}
    /\ \A t \in Tabs :
          /\ tab[t].cur = NoUser \/ /\ Bare(tab[t].cur) \in UserRecords
                                    /\ tab[t].cur.since \in 1..sessions
          /\ tab[t].path \in Paths
          /\ tab[t].leaving \in BOOLEAN
          (* AppRouter: nobody signed in, no page of the application *)
          /\ tab[t].path = "app" <=> tab[t].cur # NoUser
    /\ \A c \in Slots : slot[c].kind \in {"idle", "sign_in", "ask"}
    /\ showed \subseteq Tabs

SessionInit ==
    /\ sessions = 0
    /\ stored = Cleared
    /\ tab = [t \in Tabs |-> [cur |-> NoUser, path |-> "unopened", leaving |-> FALSE]]
    /\ slot = [c \in Slots |-> FreeSlot]
    /\ showed = {}

-----------------------------------------------------------------------------
(* The pieces the handlers are made of. *)

(* Mutant: the router keeps the path it is given. *)
RouteNever(cur, path) == path

(* AppRouter: without a user only the public pages exist and any other path *)
(* leads to /login; with one, a public path leads to "/".                   *)
Route(cur, path) ==
    IF cur # NoUser THEN "app" ELSE IF path = "app" THEN "login" ELSE path

(* The request interceptor attaches whatever token is stored now. *)
Attach == stored.token

IsFree(c) == slot[c].kind = "idle"

(* Which free slot a request takes makes no difference. *)
SendRequest(c, r) ==
    /\ IsFree(c) /\ c = CHOOSE d \in Slots : IsFree(d)
    /\ slot' = [slot EXCEPT ![c] = r]

Show(t, cur, path) ==
    /\ tab' = [tab EXCEPT ![t].cur = cur, ![t].path = Route(cur, path)]
    /\ showed' = IF cur = NoUser THEN showed ELSE showed \cup {t}

(* AppContext.updateCurrentUser: a patch of the user this tab shows now, if *)
(* it shows one, written to the shared storage as well.                     *)
PatchedUser(cur, whose, asked) ==
    [cur EXCEPT !.name = whose, !.late = whose # cur.id /\ asked < cur.since]

UpdateCurrentUser(t, whose, asked) ==
    IF tab[t].cur = NoUser
    THEN UNCHANGED <<stored, tab>>
    ELSE /\ tab' = [tab EXCEPT ![t].cur = PatchedUser(tab[t].cur, whose, asked)]
         /\ stored' = [stored EXCEPT !.user = Bare(PatchedUser(tab[t].cur, whose, asked))]

-----------------------------------------------------------------------------
(* Loading the page, signing in and signing out. *)

(* Mutant: only the stored user is looked at. *)
RestoredWithoutToken ==
    IF stored.user # NoUser THEN Adopt(stored.user, stored.token) ELSE NoUser

(* AppProvider's effect: the stored user is believed if a token is stored. *)
RestoredUser ==
    IF stored.token # 0 /\ stored.user # NoUser
    THEN Adopt(stored.user, stored.token)
    ELSE NoUser

(* A page load: the first one of a tab, or the one that the response        *)
(* interceptor asked for.  The code of the old page is gone, and with it    *)
(* what it would have done with the answers still to come.                  *)
Load(t) ==
    /\ \/ tab[t].leaving
       \/ /\ tab[t].path = "unopened"
          /\ t > 1 => tab[t - 1].path # "unopened"
    /\ tab' = [tab EXCEPT ![t] = [cur |-> RestoredUser,
                                  path |-> Route(RestoredUser, "login"),
                                  leaving |-> FALSE]]
    /\ showed' = IF RestoredUser = NoUser THEN showed ELSE showed \cup {t}
    /\ slot' = [c \in Slots |->
                  IF ~IsFree(c) /\ slot[c].tab = t THEN FreeSlot ELSE slot[c]]
    /\ UNCHANGED <<sessions, stored>>

(* Login and JoinPage are two public pages: one form each. *)
Wander(t) ==
    /\ tab[t].path \in {"login", "public"} /\ ~tab[t].leaving
    /\ \E p \in {"login", "public"} \ {tab[t].path} :
          tab' = [tab EXCEPT ![t].path = p]
    /\ UNCHANGED <<sessions, stored, slot, showed>>

(* handleSubmit of Login: the form is disabled while its request is out, but *)
(* the reader may leave it for the other form.                               *)
SubmitLogin(t, c, u) ==
    /\ tab[t].cur = NoUser /\ tab[t].path = "login"
    /\ ~ \E d \in Slots : /\ slot[d].kind = "sign_in"
                          /\ slot[d].tab = t /\ slot[d].form = "login"
    /\ SendRequest(c, [kind |-> "sign_in", tab |-> t, whose |-> u, form |-> "login"])
    /\ UNCHANGED <<sessions, stored, tab, showed>>

(* handleClaim of JoinPage signs the claimed account in the same way. *)
SubmitClaim(t, c, u) ==
    /\ tab[t].cur = NoUser /\ tab[t].path = "public"
    /\ u \notin SuperAdmins
    /\ ~ \E d \in Slots : /\ slot[d].kind = "sign_in"
                          /\ slot[d].tab = t /\ slot[d].form = "claim"
    /\ SendRequest(c, [kind |-> "sign_in", tab |-> t, whose |-> u, form |-> "claim"])
    /\ UNCHANGED <<sessions, stored, tab, showed>>

(* The answer: the token and the user are stored and shown, whatever page  *)
(* the tab is on by now; one run of synchronous code.                      *)
SignedIn(c) ==
    /\ slot[c].kind = "sign_in"
    /\ sessions < MaxSessions
    /\ LET n    == sessions + 1
           u    == slot[c].whose
           user == [id |-> u, name |-> u, late |-> FALSE]
       IN  /\ sessions' = n
           /\ stored' = [token |-> n, whose |-> u, expired |-> FALSE,
                         user |-> user]
           /\ Show(slot[c].tab, Adopt(user, n), "app")
    /\ slot' = [slot EXCEPT ![c] = FreeSlot]

(* Header, AdminHeader: logout, then home, which leads to /login. *)
Logout(t) ==
    /\ tab[t].cur # NoUser
    /\ stored' = Cleared
    /\ Show(t, NoUser, "app")
    /\ UNCHANGED <<sessions, slot>>

-----------------------------------------------------------------------------
(* Asking the API. *)

(* Whose profile a page may load: one's own on /profile, anybody's on the *)
(* super admin's /admin/user/:userId.                                     *)
MayView(cur, u) == u = cur.id \/ cur.id \in SuperAdmins

(* Mutant: every profile that is loaded is taken for one's own. *)
OwnProfileAlways(cur, u) == TRUE

(* isOwnProfile, computed when the page was rendered: before the request. *)
OwnProfile(cur, u) == u = cur.id

(* A request with the token of now; patch is whose name its answer puts     *)
(* into the session, asked (history, kept where it is looked at) the        *)
(* session its page showed when it was rendered; photo: its answer is       *)
(* followed by fetching the profile.                                        *)
ApiRequest(t, patch, asked, photo) ==
    LET good == Attach # 0 /\ ~stored.expired IN
    [kind |-> "ask", tab |-> t, as |-> Attach, good |-> good,
     expired |-> stored.expired, photo |-> good /\ photo,
     patch |-> IF good THEN patch ELSE NoUser,
     asked |-> IF good /\ patch = NoUser THEN 0 ELSE asked]

(* Any request of a page of the application. *)
AskApi(t, c, patch, photo) ==
    /\ tab[t].cur # NoUser
    /\ SendRequest(c, ApiRequest(t, patch, tab[t].cur.since, photo))
    /\ UNCHANGED <<sessions, stored, tab, showed>>

AskData(t, c) == AskApi(t, c, NoUser, FALSE)

(* fetchProfile of UserProfile, up to its first answer. *)
FetchProfile(t, c, u) ==
    /\ tab[t].cur # NoUser /\ MayView(tab[t].cur, u)
    /\ AskApi(t, c, IF OwnProfile(tab[t].cur, u) THEN u ELSE NoUser, FALSE)

(* handlePhotoUpload, handlePhotoDelete: of one's own then or now photo.    *)
ChangePhoto(t, c) ==
    /\ tab[t].cur # NoUser /\ tab[t].cur.id \in PhotoUsers
    /\ AskApi(t, c, tab[t].cur.id, TRUE)

AsksApi(c) == slot[c].kind = "ask"

(* ... which end with the fetchProfile of the render they were clicked in:  *)
(* whose profile, and that it is one's own, is of then, the token of now.   *)
FetchAgain(c) ==
    /\ AsksApi(c) /\ slot[c].good /\ slot[c].photo
    /\ slot' = [slot EXCEPT ![c] = ApiRequest(slot[c].tab, slot[c].patch, slot[c].asked, FALSE)]
    /\ UNCHANGED <<sessions, stored, tab, showed>>

(* An answer with what was asked: possible if the token was good when the  *)
(* request left, even if it has expired since.                             *)
Answered(c) ==
    /\ AsksApi(c) /\ slot[c].good /\ ~slot[c].photo
    /\ IF slot[c].patch # NoUser
       THEN UpdateCurrentUser(slot[c].tab, slot[c].patch, slot[c].asked)
       ELSE UNCHANGED <<stored, tab>>
    /\ slot' = [slot EXCEPT ![c] = FreeSlot]
    /\ UNCHANGED <<sessions, showed>>

(* Mutant: the interceptor treats every error as a refused token. *)
UnauthorizedAlways(c) == TRUE

(* JwtAuthGuard: 401 for no token and for one that has expired. *)
Unauthorized(c) == slot[c].as = 0 \/ slot[c].expired

(* Mutant: the storage is cleared and the page left as it is. *)
LeaveForLoginNever(t) == UNCHANGED tab

(* The response interceptor on 401: storage is cleared, whichever token was *)
(* refused, and the tab leaves for /login unless it is there.               *)
LeaveForLogin(t) == tab' = [tab EXCEPT ![t].leaving = tab[t].path # "login"]

RequestRefused(c) ==
    /\ AsksApi(c)
    /\ Unauthorized(c)
    /\ stored' = Cleared
    /\ LeaveForLogin(slot[c].tab)
    /\ slot' = [slot EXCEPT ![c] = FreeSlot]
    /\ UNCHANGED <<sessions, showed>>

(* Any other error, a wrong password's 401 included: the page says so. *)
RequestFailed(c) ==
    /\ slot[c].kind = "sign_in" \/ (AsksApi(c) /\ slot[c].good)
    /\ slot' = [slot EXCEPT ![c] = FreeSlot]
    /\ UNCHANGED <<sessions, stored, tab, showed>>

(* 24 hours after it was issued, wherever the token is: stored, or on its *)
(* way in a request.                                                      *)
Carries(c, n) == AsksApi(c) /\ slot[c].as = n

Expire(n) ==
    /\ \/ stored.token = n /\ ~stored.expired
       \/ \E c \in Slots : Carries(c, n) /\ ~slot[c].expired
    /\ stored' = [stored EXCEPT !.expired = @ \/ stored.token = n]
    /\ slot' = [c \in Slots |->
                  IF Carries(c, n) THEN [slot[c] EXCEPT !.expired = TRUE]
                  ELSE slot[c]]
    /\ UNCHANGED <<sessions, tab, showed>>

SessionNext ==
    \/ \E t \in Tabs : Load(t) \/ Wander(t) \/ Logout(t)
    \/ \E t \in Tabs, c \in Slots :
          \/ AskData(t, c)
          \/ ChangePhoto(t, c)
          \/ \E u \in Users : SubmitLogin(t, c, u) \/ SubmitClaim(t, c, u)
                              \/ FetchProfile(t, c, u)
    \/ \E c \in Slots : \/ SignedIn(c) \/ Answered(c) \/ FetchAgain(c)
                        \/ RequestRefused(c) \/ RequestFailed(c)
    \/ \E n \in 1..MaxSessions : Expire(n)

SessionSpec == SessionInit /\ [][SessionNext]_sessionVars

(* The API answers what it is asked, and a browser told to go to /login     *)
(* goes there.  Nothing is assumed of readers: they need not sign in, sign  *)
(* out, reload or ask.                                                      *)
FairSession ==
    /\ SessionSpec
    /\ \A c \in Slots : WF_sessionVars(\/ Answered(c) \/ FetchAgain(c)
                                     \/ RequestRefused(c) \/ RequestFailed(c))
    /\ \A t \in Tabs : WF_sessionVars(tab[t].leaving /\ Load(t))

-----------------------------------------------------------------------------
(* A browser in which one tab is used never shows one user while it sends  *)
(* the token of another, and never shows a user whose token is gone:       *)
(* however sign-ins, late answers, page loads and refusals are ordered.    *)
(* (The moment between a refusal and the page load it asks for is the      *)
(* exception.)  With a second tab it does not hold: a tab that shows Ada   *)
(* sends Bob's token once another tab has signed Bob in.                   *)
OneTabMatches ==
    Cardinality(showed) <= 1 =>
        \A t \in Tabs :
            tab[t].cur # NoUser /\ ~tab[t].leaving =>
                /\ stored.token # 0
                /\ stored.whose = tab[t].cur.id

(* A tab shows the name of somebody else only when a profile it had asked  *)
(* for in an earlier session was answered late, or was asked for again     *)
(* late, after a photo changed in that session: the patch is applied to    *)
(* whoever is signed in when the answer comes.  Looking at other people's  *)
(* profiles, which super admins do, never renames anybody.                 *)
NamesAreOwn ==
    \A t \in Tabs :
        tab[t].cur # NoUser /\ tab[t].cur.name # tab[t].cur.id =>
            tab[t].cur.late

(* A good session that is stored ends in one of three ways: somebody signs *)
(* out, somebody signs in, or a request that carried ANOTHER token, or     *)
(* none, is refused.  The last is how the code is: the interceptor does    *)
(* not look at which token was refused, so an old tab's late 401 signs the *)
(* browser out of a session begun since.  No error but a 401 does it.      *)
LiveSessionsLast ==
    [][ stored.token # 0 /\ ~stored.expired /\ stored'.token # stored.token =>
          \/ \E t \in Tabs : tab[t].cur # NoUser /\ tab'[t].cur = NoUser
          \/ sessions' # sessions
          \/ \E c \in Slots : /\ AsksApi(c) /\ slot'[c] = FreeSlot
                              /\ slot[c].as # stored.token ]_sessionVars

(* A tab that asks with a token that has expired, or with none because the *)
(* browser was signed out in another tab, stops showing that session.      *)
RefusalSignsOut ==
    \A t \in Tabs, n \in 1..MaxSessions :
        (/\ tab[t].cur # NoUser /\ tab[t].cur.since = n /\ ~tab[t].leaving
         /\ \E c \in Slots : /\ AsksApi(c) /\ ~slot[c].good
                             /\ slot[c].tab = t /\ slot[c].asked = n)
        ~> (tab[t].cur = NoUser \/ tab[t].cur.since # n)

(* A tab shows the user whose token it sends, under the user's own name.    *)
TabsMatch == OneTabMatches /\ NamesAreOwn

(* A session ends when it should, and only then.                            *)
SessionsEnd == LiveSessionsLast /\ RefusalSignsOut

=============================================================================
