-------------------------------- MODULE Drafts --------------------------------
(***************************************************************************)
(* The forms of the web application: those of visitors (register, with a    *)
(* link or without, a forgotten password, a new one, a verified address),   *)
(* those of the users' manager (add, edit, import, move, password links),   *)
(* the reader's own profile and the feedback.  What the reader has typed,   *)
(* while a request is out and when it is answered, refused or lost; the     *)
(* timers that leave a page or close a dialog later.  One form is open.     *)
(***************************************************************************)
EXTENDS Naturals, FiniteSets

CONSTANTS
    DraftPages,     \* the forms of this instance
    Subjects,       \* the users a manager's form may be about
    MaxTyped,       \* how often something is typed
    MaxAsks,        \* how many requests are started by the reader
    Nobody

VisitorPages == {"register", "link", "reset", "forgot", "verify"}
ManagerForms == {"add", "edit", "import", "move", "links"}

ASSUME DraftsAssumption ==
    /\ DraftPages \subseteq VisitorPages \cup ManagerForms \cup {"profile", "feedback"}
    /\ MaxTyped \in Nat \ {0} /\ MaxAsks \in Nat
    /\ Nobody \notin Subjects \cup {"self"}

VARIABLES
    draftPage,  \* the form; Nobody: none of these pages is open
    there,      \* "form": the reader is on the page; "elsewhere", or "login"
    about,      \* editUser, moveUserId, editMode, a dialog that is open; or Nobody
    draft,      \* what is typed in the form, 0 nothing
    typed,      \* how often something was typed
    disabled,   \* the form's flags: whose button or fields are disabled
    photo,      \* uploadingPhoto
    told,       \* what the page says
    requests,   \* in flight
    asks,       \* how many were started
    timers,     \* setTimeout
    kept,       \* what the API keeps about each subject
    link,       \* pwLink: the link that is shown, with its user
    lost,       \* history: something typed is gone, neither saved nor cancelled
    hurried     \* history: the reader did not wait for what was out

draftVars == <<draftPage, there, about, draft, typed, disabled, photo, told, requests, asks,
               timers, kept, link, lost, hurried>>

Self  == "self"
All   == Subjects \cup {Self}
NoLink == [user |-> Nobody, number |-> 0]

DraftsTypeOK ==
    /\ draftPage \in DraftPages \cup {Nobody}
    /\ there \in {"form", "elsewhere", "login"}
    /\ about \in All \cup {Nobody} /\ disabled \in All \cup {Nobody}
    /\ {draft, typed} \subseteq 0..MaxTyped /\ photo \in BOOLEAN
    /\ told \in {"nothing", "loading", "success", "skipped", "error", "dead"}
    /\ requests \subseteq [id : 0..MaxAsks, what : {"save", "photo", "fetch"},
                           whom : All, text : 0..(MaxTyped + MaxAsks),
                           st : {"asked", "done", "refused", "invalid"}]
    /\ asks \in 0..MaxAsks /\ timers \in Nat
    /\ kept \in [All -> 0..(MaxTyped + MaxAsks)]
    /\ link \in [user : All \cup {Nobody}, number : 0..MaxAsks]
    /\ lost \in BOOLEAN /\ hurried \in BOOLEAN

Ask0(what) == [id |-> 0, what |-> what, whom |-> Self, text |-> 0, st |-> "asked"]

(* A link to register is looked up, and an address verified, when the page  *)
(* is opened.                                                               *)
DraftsInit ==
    /\ draftPage \in DraftPages \cup {Nobody}
    /\ there = "form"
    /\ about = IF draftPage \in VisitorPages \cup {"feedback"} THEN Self ELSE Nobody
    /\ told = IF draftPage \in {"link", "verify"} THEN "loading" ELSE "nothing"
    /\ requests = CASE draftPage = "link"   -> {Ask0("fetch")}
                    [] draftPage = "verify" -> {Ask0("save")}
                    [] OTHER                -> {}
    /\ draft = 0 /\ typed = 0 /\ disabled = Nobody /\ photo = FALSE
    /\ asks = 0 /\ timers = 0
    /\ kept = [s \in All |-> 0] /\ link = NoLink
    /\ lost = FALSE /\ hurried = FALSE

-----------------------------------------------------------------------------
(* The reader. *)

Editing == there = "form" /\ about # Nobody /\ told \notin {"loading", "success", "skipped", "dead"}

(* Forms whose fields are disabled, or hidden, while they are saved; the    *)
(* rows of a file, the year to move to and the feedback can be changed.     *)
Locked == disabled # Nobody /\ draftPage \notin {"import", "move", "feedback"}

Busy == requests # {} \/ timers > 0

Type ==
    /\ Editing /\ ~Locked
    /\ typed < MaxTyped
    /\ draft' = typed + 1 /\ typed' = typed + 1
    /\ hurried' = (hurried \/ Busy)
    /\ UNCHANGED <<draftPage, there, about, disabled, photo, told, requests, asks, timers, kept,
                   link, lost>>

(* A dialog, or the edited profile, is opened.  Who is added and the        *)
(* profile's text are still what was typed before.                          *)
Open(s) ==
    /\ there = "form"
    /\ draftPage = "profile" => disabled = Nobody
    /\ CASE draftPage \in {"add", "import", "profile"} -> about = Nobody /\ s = Self
         [] draftPage = "edit" -> about = Nobody /\ s \in Subjects
         [] draftPage = "move" -> about # s /\ s \in Subjects
         [] OTHER              -> FALSE
    /\ about' = s
    /\ draft' = IF draftPage \in {"add", "profile"} THEN draft ELSE 0
    /\ told' = IF draftPage = "import" THEN "nothing" ELSE told
    /\ hurried' = (hurried \/ Busy)
    /\ UNCHANGED <<draftPage, there, typed, disabled, photo, requests, asks, timers, kept, link,
                   lost>>

(* Cancel, and a click beside the dialog.                                   *)
Cancel ==
    /\ there = "form" /\ about # Nobody
    /\ draftPage \in {"add", "edit", "import", "move"}
          \/ (draftPage = "profile" /\ disabled = Nobody)
    /\ about' = Nobody
    /\ draft' = IF draftPage \in {"add", "profile"} THEN draft ELSE 0
    /\ told' = IF draftPage = "import" THEN "nothing" ELSE told
    /\ hurried' = (hurried \/ Busy)
    /\ UNCHANGED <<draftPage, there, typed, disabled, photo, requests, asks, timers, kept, link,
                   lost>>

(* The reader goes to another page.  A visitor's answer and timer come all  *)
(* the same.                                                                *)
Leave ==
    /\ draftPage # Nobody /\ there = "form"
    /\ there' = "elsewhere"
    /\ UNCHANGED <<draftPage, about, draft, typed, disabled, photo, told, requests, asks, timers,
                   kept, link, lost, hurried>>

Send(what, whom, text) ==
    /\ asks < MaxAsks /\ asks' = asks + 1
    /\ requests' = requests \cup {[id |-> asks', what |-> what, whom |-> whom, text |-> text,
                                   st |-> "asked"]}

(* Mutant: the fields and the button of a form are not disabled. *)
DisablesNever(s) == IF draftPage = "links" THEN s ELSE Nobody

(* The flag a handler sets and its `finally` clears.                        *)
Disables(s) == s

(* handleSubmit, handleAddSubmit, handleUpdateUser, handleImport,           *)
(* handleMoveClass, handleProfileUpdate.                                    *)
Submits ==
    /\ Editing /\ disabled = Nobody /\ draftPage # "links"
    /\ draft # 0 \/ draftPage \in {"edit", "profile"}
    /\ Send("save", about, draft)
    /\ disabled' = Disables(about)
    /\ told' = "nothing"
    /\ hurried' = (hurried \/ Busy)
    /\ UNCHANGED <<draftPage, there, about, draft, typed, photo, timers, kept, link, lost>>

(* Names, passwords or rows that will not do are refused by the page.       *)
Rejects ==
    /\ Editing /\ disabled = Nobody /\ draftPage \in {"register", "link", "reset"}
    /\ told' = "error"
    /\ UNCHANGED <<draftPage, there, about, draft, typed, disabled, photo, requests, asks, timers,
                   kept, link, lost, hurried>>

(* Mutant: the button is not disabled while the link is made. *)
FreeAlways(s) == TRUE

Free(s) == disabled # s

(* handlePasswordLink: the button of that user is disabled, and the one     *)
(* that was disabled before is not any more.                                *)
AsksLink(s) ==
    /\ draftPage = "links" /\ there = "form"
    /\ Free(s)
    /\ Send("save", s, asks + 1)
    /\ disabled' = s
    /\ hurried' = (hurried \/ \E r \in requests : r.whom # s)
    /\ UNCHANGED <<draftPage, there, about, draft, typed, photo, told, timers, kept, link, lost>>

(* The link that is shown is put away. *)
PutsLinkAway ==
    /\ draftPage = "links" /\ there = "form" /\ link # NoLink
    /\ link' = NoLink
    /\ UNCHANGED <<draftPage, there, about, draft, typed, disabled, photo, told, requests, asks,
                   timers, kept, lost, hurried>>

(* A photo of the profile is replaced or removed, also while it is edited.  *)
ChangesPhoto ==
    /\ draftPage = "profile" /\ there = "form" /\ ~photo /\ disabled = Nobody
    /\ Send("photo", Self, 0)
    /\ photo' = TRUE
    /\ hurried' = (hurried \/ draft # kept[Self])
    /\ UNCHANGED <<draftPage, there, about, draft, typed, disabled, told, timers, kept, link,
                   lost>>

-----------------------------------------------------------------------------
(* The API. *)

ApiOnly == UNCHANGED <<draftPage, there, about, draft, typed, disabled, photo, told, asks, timers,
                       link, lost, hurried>>

Becomes(r, new) == requests' = (requests \ {r}) \cup {new}

(* Registration is switched off: the API refuses every one.  A token is     *)
(* spent once.                                                              *)
Accepts(r) ==
    r.what = "save" =>
        /\ draftPage \notin {"register", "link"}
        /\ draftPage \in {"reset", "verify"} => kept[Self] = 0

Write(r) ==
    kept' = IF r.what # "save" THEN kept
            ELSE [kept EXCEPT ![r.whom] = IF draftPage = "verify" THEN 1 ELSE r.text]

Performs(r) ==
    /\ r.st = "asked" /\ Accepts(r)
    /\ Becomes(r, [r EXCEPT !.st = "done", !.text = IF r.what = "fetch" THEN kept[Self] ELSE @])
    /\ Write(r) /\ ApiOnly

Refuses(r) ==
    /\ r.st = "asked"
    /\ \E st \in {"refused"} \cup (IF draftPage = "reset" THEN {"invalid"} ELSE {}) :
           Becomes(r, [r EXCEPT !.st = st])
    /\ UNCHANGED kept /\ ApiOnly

(* Performed, but the answer is lost. *)
Loses(r) ==
    /\ r.st = "asked" /\ Accepts(r)
    /\ Becomes(r, [r EXCEPT !.st = "refused"])
    /\ Write(r) /\ ApiOnly

-----------------------------------------------------------------------------
(* The page, when an answer comes. *)

Done(r, what) == r.st = "done" /\ r.what = what /\ requests' = requests \ {r}

(* What is typed goes: it is lost if it is not what was saved. *)
Clears(saved) ==
    /\ draft' = 0
    /\ lost' = (lost \/ draft \notin {0, saved})

(* "Redirecting to login...": wherever the reader is by then.  From another *)
(* page there is nothing to be told.                                        *)
VisitorDone(r) ==
    /\ draftPage \in VisitorPages /\ Done(r, "save")
    /\ told' = IF there = "form" THEN "success" ELSE told
    /\ disabled' = Nobody
    /\ timers' = timers + 1
    /\ UNCHANGED <<draftPage, there, about, draft, typed, photo, asks, kept, link, lost, hurried>>

(* fetchRegistrationLink *)
LinkFound(r) ==
    /\ draftPage = "link" /\ Done(r, "fetch")
    /\ told' = "nothing"
    /\ UNCHANGED <<draftPage, there, about, draft, typed, disabled, photo, asks, timers, kept,
                   link, lost, hurried>>

Here(r, what) ==
    /\ there = "form" /\ Done(r, what)
    /\ UNCHANGED <<draftPage, there, typed, asks, kept, hurried>>

(* The form is closed, whomever it is about by now. *)
FormSaved(r) ==
    /\ draftPage \in {"add", "edit", "move"} /\ Here(r, "save")
    /\ Clears(r.text) /\ about' = Nobody /\ disabled' = Nobody
    /\ UNCHANGED <<photo, told, timers, link>>

(* The result is shown instead of the rows; if none was skipped, the dialog *)
(* is closed a moment later.                                                *)
ImportDone(r, skipped) ==
    /\ draftPage = "import" /\ Here(r, "save")
    /\ Clears(r.text) /\ disabled' = Nobody
    /\ told' = IF skipped THEN "skipped" ELSE "success"
    /\ timers' = IF skipped THEN timers ELSE timers + 1
    /\ UNCHANGED <<about, photo, link>>

LinkMade(r) ==
    /\ draftPage = "links" /\ Here(r, "save")
    /\ link' = [user |-> r.whom, number |-> r.text] /\ disabled' = Nobody
    /\ UNCHANGED <<about, draft, photo, told, timers, lost>>

ProfileSaved(r) ==
    /\ draftPage = "profile" /\ Here(r, "save")
    /\ about' = Nobody /\ disabled' = Nobody
    /\ UNCHANGED <<draft, photo, told, timers, link, lost>>

(* fetchProfile: the page is fetched again, its text with it; loadFeedback. *)
ThenFetch(r, what) ==
    /\ r.what = what /\ r.st = "done" /\ there = "form"
    /\ requests' = (requests \ {r}) \cup {[r EXCEPT !.what = "fetch", !.st = "asked"]}
    /\ UNCHANGED <<draftPage, there, about, typed, photo, asks, timers, kept, link, hurried>>

PhotoStored(r) ==
    /\ draftPage = "profile" /\ ThenFetch(r, "photo")
    /\ disabled' = Self
    /\ UNCHANGED <<draft, told, lost>>

FeedbackSent(r) ==
    /\ draftPage = "feedback" /\ ThenFetch(r, "save")
    /\ Clears(r.text)
    /\ UNCHANGED <<disabled, told>>

Fetched(r) ==
    /\ draftPage \in {"profile", "feedback"} /\ Here(r, "fetch")
    /\ disabled' = Nobody /\ photo' = FALSE
    /\ IF draftPage = "profile"
       THEN draft' = r.text /\ lost' = (lost \/ (draft # r.text /\ about # Nobody))
       ELSE UNCHANGED <<draft, lost>>
    /\ UNCHANGED <<about, told, timers, link>>

(* A refusal is shown and the form stays; a link that is not good, or an    *)
(* address that was not verified, leaves no form.                           *)
Refused(r) ==
    /\ r.st \in {"refused", "invalid"}
    /\ there = "form" \/ draftPage \in VisitorPages
    /\ requests' = requests \ {r}
    /\ told' = IF r.st = "invalid" \/ draftPage = "verify" \/ (draftPage = "link" /\ r.what = "fetch")
               THEN "dead"
               ELSE IF draftPage = "import" /\ told \in {"success", "skipped"} THEN told ELSE "error"
    /\ disabled' = IF r.what = "photo" THEN disabled ELSE Nobody
    /\ photo' = (photo /\ r.what = "save")
    /\ link' = IF draftPage = "links" THEN NoLink ELSE link
    /\ UNCHANGED <<draftPage, there, about, draft, typed, asks, timers, kept, lost, hurried>>

(* The answer to a page that is gone. *)
Ignored(r) ==
    /\ there # "form" /\ draftPage \notin VisitorPages /\ r.st # "asked"
    /\ requests' = requests \ {r}
    /\ UNCHANGED <<draftPage, there, about, draft, typed, disabled, photo, told, asks, timers,
                   kept, link, lost, hurried>>

(* Nobody clears a timer: a visitor is taken to /login from any page, and   *)
(* the import's dialog closed even if it has been opened again.             *)
Timer ==
    /\ timers > 0 /\ timers' = timers - 1
    /\ IF draftPage \in VisitorPages
       THEN there' = "login" /\ UNCHANGED <<about, told, draft, lost>>
       ELSE /\ about' = Nobody
            /\ told' = "nothing"
            /\ Clears(0)
            /\ UNCHANGED there
    /\ UNCHANGED <<draftPage, typed, disabled, photo, requests, asks, kept, link, hurried>>

-----------------------------------------------------------------------------
DraftsStep ==
    \/ Type \/ Cancel \/ Leave \/ Submits \/ Rejects \/ ChangesPhoto \/ PutsLinkAway \/ Timer
    \/ \E s \in All : Open(s)
    \/ \E s \in Subjects : AsksLink(s)
    \/ \E r \in requests :
          \/ Performs(r) \/ Refuses(r) \/ Loses(r)
          \/ VisitorDone(r) \/ LinkFound(r) \/ FormSaved(r) \/ LinkMade(r) \/ ProfileSaved(r)
          \/ PhotoStored(r) \/ FeedbackSent(r) \/ Fetched(r) \/ Refused(r) \/ Ignored(r)
          \/ \E skipped \in BOOLEAN : ImportDone(r, skipped)

-----------------------------------------------------------------------------
(* What the reader typed is never gone from the forms of visitors, of a new *)
(* user and of an edited one, unless it was saved or cancelled, whatever is *)
(* refused, lost or clicked meanwhile; nor from the others, if the reader   *)
(* waits for what is out and saves before changing a photo.                 *)
DraftsAreKept == lost => hurried /\ draftPage \in {"import", "move", "profile", "feedback"}

(* No form is sent twice at once (a profile's only after a photo was        *)
(* changed in the middle of editing it; links are no form, and those of two *)
(* users may be asked for together), and what a visitor was told has        *)
(* succeeded has, and is not asked for again.                               *)
FormsAskOnce ==
    /\ \A a, b \in requests : a.what = "save" /\ b.what = "save" /\ a # b =>
           draftPage = "links" \/ (draftPage = "profile" /\ hurried)
    /\ told = "success" /\ draftPage \in VisitorPages =>
           kept[Self] # 0 /\ ~\E r \in requests : r.what = "save"

(* The password link shown under a user is the one that works, when nothing *)
(* is asked for that user; unless links of two users were asked for at once *)
(* and one of them again.                                                   *)
ShownLinkWorks ==
    there = "form" /\ link # NoLink /\ ~hurried /\ (\A r \in requests : r.whom # link.user) =>
        kept[link.user] = link.number
===============================================================================
