-------------------------------- MODULE Lists ---------------------------------
(***************************************************************************)
(* The web pages that list rows of the API and change them one at a time:   *)
(* the comments on a profile, a reader's own comments, the pending ones,    *)
(* the public page of a classmate, the photo gallery, the class directory,  *)
(* and the managers of classes, schools and events.  Each keeps its own     *)
(* copy of the rows and patches it when a request is answered; some patch   *)
(* what they show then, some what they showed when the button was clicked.  *)
(* Three of them also change a then or now photo, and fetch all again.      *)
(* One reader uses one page; nobody else changes the rows meanwhile.        *)
(***************************************************************************)
EXTENDS Naturals, FiniteSets

CONSTANTS
    Pages,          \* the pages of this instance
    Old,            \* the rows there may be when the page is opened
    Mine,           \* the comments the reader has written, or the reader's row
    Calls,          \* places for the requests in flight at once
    MaxClicks,      \* how many requests the reader starts
    ClicksOn,       \* on each of the pages
    GalleryLimit,
    Null

ClosurePages  == {"profile", "authored", "pending", "other"}
CommentPages  == ClosurePages
PhotoPages    == {"profile", "other", "gallery"}
ManagerPages  == {"schools", "events"}
ListPages     == ClosurePages \cup ManagerPages \cup {"gallery", "directory", "classes"}

(* A row added by the n-th click is row n; a text is the click that wrote   *)
(* it, 0 at the start.                                                      *)
Rows    == Old \cup 1..MaxClicks
Row     == [text : 0..MaxClicks, published : BOOLEAN]
File    == 0

ASSUME ListsAssumption ==
    /\ Pages \subseteq ListPages /\ 1 \in Calls
    /\ Mine \subseteq Old
    /\ MaxClicks \in Nat /\ ClicksOn \in [Pages -> 0..MaxClicks] /\ GalleryLimit \in Nat
    /\ Old \cap (0..MaxClicks) = {} /\ Null \notin Rows \cup Row \cup ListPages \cup {File}

VARIABLES
    listPage,   \* the page that is open; Null: none of these
    server,     \* the rows the API keeps
    list,       \* the rows the page keeps: comments, users, linkedClasses ...
    twice,      \* the rows it lists twice
    loading,    \* it shows "Loading..." in the place of its rows
    editing,    \* the row whose form is open: editingId, editingUser
    dialog,     \* the row a dialog asks about, or the file to upload
    busy,       \* the flags that disable buttons: submitting, savingUser ...
    acting,     \* actionLoading, deletingId: the row whose button is disabled
    call,       \* the requests in flight, each with what its handler closed over
    clicks,     \* how many requests the reader has started
    loaded,     \* userProfile of a classmate's page; history elsewhere: the rows came
    clean,      \* history: no two requests crossed and no answer was lost
    cut         \* history: a fetch that failed in part left rows out

shownVars == <<list, twice, loading, editing, dialog, busy, acting>>
listVars == <<listPage, server, shownVars, call, clicks, loaded, clean, cut>>

Listing == [Rows -> Row \cup {Null}]
NoRows  == [r \in Rows |-> Null]
Flags   == {"edit", "add", "setup", "save", "photo"}

Idle == [st |-> "idle", op |-> Null, id |-> Null, n |-> 0, publish |-> FALSE,
         base |-> NoRows, closes |-> FALSE, frees |-> {}, reply |-> NoRows]

CallType ==
    [st : {"idle", "asked", "done", "refused"},
     op : {"fetch", "publish", "edit", "delete", "add", "setup", "photo", Null},
     id : Rows \cup {Null}, n : 0..MaxClicks, publish : BOOLEAN,
     base : Listing, closes : BOOLEAN, frees : SUBSET (Flags \cup {"row"}), reply : Listing]

ListsTypeOK ==
    /\ listPage \in Pages \cup {Null}
    /\ server \in Listing /\ list \in Listing
    /\ twice \subseteq Rows /\ loading \in BOOLEAN
    /\ editing \in Rows \cup {Null} /\ dialog \in Rows \cup {File, Null}
    /\ busy \subseteq Flags /\ acting \in Rows \cup {Null}
    /\ call \in [Calls -> CallType]
    /\ clicks \in 0..MaxClicks
    /\ loaded \in BOOLEAN /\ clean \in BOOLEAN /\ cut \in BOOLEAN

Fetch == [Idle EXCEPT !.st = "asked", !.op = "fetch"]

(* A page is opened and asks for its rows. *)
ListsInit ==
    /\ listPage \in Pages \cup {Null}
    /\ server \in {[r \in Rows |-> IF r \in there
                        THEN [text |-> 0, published |-> listPage # "pending"]
                        ELSE Null] :
                       there \in IF listPage = Null THEN {{}} ELSE {Old, {}}}
    /\ list = NoRows /\ twice = {} /\ loading = TRUE
    /\ editing = Null /\ dialog = Null /\ busy = {} /\ acting = Null
    /\ call = [c \in Calls |-> IF c = 1 /\ listPage # Null THEN Fetch ELSE Idle]
    /\ clicks = 0 /\ loaded = FALSE /\ clean = TRUE /\ cut = FALSE

-----------------------------------------------------------------------------
(* What each page lets the reader ask for: pairs of an operation and a row. *)

Shown   == {r \in Rows : list[r] # Null}
Visible == IF loading THEN {} ELSE Shown
Next1   == clicks + 1
Ask(op, rows) == {<<op, r>> : r \in rows}

(* The author's and the moderator's buttons; the form's Save; none is ever disabled   *)
(* while a request is out.                                                  *)
ProfileButtons ==
    Ask("publish", Visible \ {editing}) \cup Ask("delete", (Visible \cap Mine) \ {editing})
        \cup Ask("edit", Visible \cap Mine \cap {editing})

AuthoredButtons ==
    (IF "edit" \in busy THEN {} ELSE Ask("edit", Visible \cap {editing}))
        \cup (IF dialog = Null THEN {} ELSE Ask("delete", {dialog}))

PendingButtons ==
    Ask("publish", Visible \ {acting}) \cup (IF dialog = Null THEN {} ELSE Ask("delete", {dialog}))

(* Mutant: the button is not disabled while a comment is posted. *)
OtherButtonsAlways == IF loading \/ ~loaded THEN {} ELSE Ask("add", {Next1})

(* A page that could not fetch its user says so, and nothing else.          *)
OtherButtons ==
    IF loading \/ ~loaded \/ "add" \in busy THEN {} ELSE Ask("add", {Next1})

(* The Enter key saves a caption whether or not one is being saved. *)
GalleryButtons ==
    Ask("delete", Visible) \cup Ask("edit", Visible \cap {editing})
        \cup (IF dialog = File /\ ~loading /\ "add" \notin busy THEN Ask("add", {Next1})
              ELSE {})

DirectoryButtons ==
    IF editing = Null THEN {}
    ELSE (IF "edit" \in busy THEN {} ELSE Ask("edit", {editing}))
             \cup (IF dialog = Null THEN {} ELSE Ask("delete", {editing}))

(* A year that is not listed may be added even while the list is loading;   *)
(* all of them only when it is loaded and empty.                            *)
ClassesButtons ==
    (IF "add" \in busy THEN {} ELSE Ask("add", Old \ Shown))
        \cup (IF loading \/ Shown # {} \/ "setup" \in busy THEN {} ELSE {<<"setup", Null>>})
        \cup (IF dialog = Null THEN {} ELSE Ask("delete", {dialog}))

Submit == IF editing = Null THEN Ask("add", {Next1}) ELSE Ask("edit", {editing})

SchoolsButtons ==
    IF loading THEN {}
    ELSE IF dialog # Null THEN Ask("delete", {dialog})
    ELSE Submit

EventsButtons ==
    (IF "save" \in busy THEN {} ELSE Submit) \cup Ask("delete", Visible \ {acting})

RowButtons ==
    CASE listPage = "profile"   -> ProfileButtons
      [] listPage = "authored"  -> AuthoredButtons
      [] listPage = "pending"   -> PendingButtons
      [] listPage = "other"     -> OtherButtons
      [] listPage = "gallery"   -> GalleryButtons
      [] listPage = "directory" -> DirectoryButtons
      [] listPage = "classes"   -> ClassesButtons
      [] listPage = "schools"   -> SchoolsButtons
      [] listPage = "events"    -> EventsButtons
      [] OTHER                  -> {}

(* The then or the now photo is uploaded or removed.                        *)
PhotoButton ==
    IF /\ listPage \in PhotoPages /\ ~loading /\ dialog = Null /\ "photo" \notin busy
       /\ listPage = "other" => loaded
    THEN {<<"photo", Null>>} ELSE {}

Buttons == RowButtons \cup PhotoButton

(* The rows whose form may be opened. *)
Forms ==
    CASE listPage = "profile"  -> Visible \cap Mine
      [] listPage \in {"authored", "gallery", "directory", "schools", "events"} -> Visible
      [] OTHER -> {}

(* What a dialog may be opened on. *)
Dialogs ==
    CASE listPage \in {"authored", "classes", "schools"} -> Visible
      [] listPage = "pending"   -> Visible \ {acting}
      [] listPage = "directory" -> IF "edit" \in busy THEN {} ELSE {editing} \ (Mine \cup {Null})
      [] listPage = "gallery"   -> IF "add" \notin busy /\ ~loading
                                     /\ Cardinality(Shown) < GalleryLimit
                                   THEN {File} ELSE {}
      [] OTHER -> {}

-----------------------------------------------------------------------------
(* The reader. *)

ReaderOnly == UNCHANGED <<listPage, server, list, twice, loading, call, clicks, loaded, clean, cut>>

(* "Loading..." takes the place of a whole page with photos, forms and       *)
(* dialogs included.                                                        *)
Hidden == loading /\ listPage \in PhotoPages

(* A dialog covers the page; the directory's form is one. *)
Covered == dialog # Null \/ (listPage = "directory" /\ editing # Null)

(* startEdit, setEditingUser, handleEdit: opening the directory's form also *)
(* forgets the dialogs of the one before.                                   *)
OpenForm(r) ==
    /\ r \in Forms /\ ~Covered
    /\ editing' = r
    /\ UNCHANGED <<dialog, busy, acting>> /\ ReaderOnly

CloseForm ==
    /\ editing # Null /\ ~Hidden
    /\ editing' = Null /\ dialog' = IF listPage = "directory" THEN Null ELSE dialog
    /\ UNCHANGED <<busy, acting>> /\ ReaderOnly

OpenDialog(d) ==
    /\ d \in Dialogs /\ dialog = Null
    /\ dialog' = d
    /\ UNCHANGED <<editing, busy, acting>> /\ ReaderOnly

(* cancelGalleryUpload is disabled while the photo is uploaded. *)
CloseDialog ==
    /\ dialog # Null /\ ~Hidden /\ ~(dialog = File /\ "add" \in busy)
    /\ dialog' = Null
    /\ UNCHANGED <<editing, busy, acting>> /\ ReaderOnly

(* The flags a handler sets and its `finally` clears; "row" is actionLoading *)
(* or deletingId, which holds one row: a second click frees the first's.    *)
Marks(op) ==
    CASE listPage = "pending" -> {"row"}
      [] listPage = "events"  -> IF op = "delete" THEN {"row"} ELSE {"save"}
      [] listPage = "authored" \/ listPage = "directory" -> {"edit"} \cap {op}
      [] listPage = "profile" -> {"photo"} \cap {op}
      [] listPage = "other"   -> {"add", "photo"} \cap {op}
      [] listPage = "gallery" -> {"add", "edit", "photo"} \cap {op}
      [] listPage = "classes" -> {"add", "setup"} \cap {op}
      [] OTHER -> {}

(* What the answer does to the form, decided by what the handler closed     *)
(* over: the events' form is cleared if it showed the deleted event then.   *)
Closes(op, r) ==
    \/ op = "edit" \/ (op = "add" /\ listPage \in ManagerPages)
    \/ (op = "delete" /\ (listPage = "directory" \/ (listPage = "events" /\ editing = r)))

Out == {c \in Calls : call[c].st # "idle"}

(* Requests that replace the page's rows when they are answered. *)
Replaces(op) ==
    op \in {"fetch", "setup", "photo"} \/ (op \in {"add", "edit"} /\ listPage \in ManagerPages)
        \/ (op = "add" /\ listPage = "gallery")

Crosses(op, r) ==
    \E c \in Out : listPage \in ClosurePages \/ Replaces(op) \/ Replaces(call[c].op)
                       \/ call[c].id = r

Click(op, r) ==
    /\ <<op, r>> \in Buttons
    /\ clicks < ClicksOn[listPage]
    /\ Out # Calls
    /\ LET c == CHOOSE c \in Calls \ Out : TRUE IN
       call' = [call EXCEPT ![c] =
                   [st |-> "asked", op |-> op, id |-> r, n |-> Next1,
                    publish |-> (listPage = "profile" /\ op = "publish") => ~list[r].published,
                    base |-> IF listPage \in ClosurePages THEN list ELSE NoRows,
                    closes |-> Closes(op, r), frees |-> Marks(op), reply |-> NoRows]]
    /\ busy' = busy \cup (Marks(op) \ {"row"})
    /\ acting' = IF "row" \in Marks(op) THEN r ELSE acting
    /\ clicks' = Next1
    /\ clean' = (clean /\ ~Crosses(op, r))
    /\ UNCHANGED <<listPage, server, list, twice, loading, editing, dialog, loaded, cut>>

-----------------------------------------------------------------------------
(* The API. *)

(* An author's edit takes the comment down until it is approved. *)
Written(c) == [text |-> c.n, published |-> listPage \notin CommentPages]

Possible(c) ==
    CASE c.op \in {"publish", "edit", "delete"} -> server[c.id] # Null
      [] c.op = "add"                           -> server[c.id] = Null
      [] OTHER                                  -> TRUE

Effect(c) ==
    CASE c.op = "publish" -> [server EXCEPT ![c.id].published = c.publish]
      [] c.op \in {"edit", "add"} -> [server EXCEPT ![c.id] = Written(c)]
      [] c.op = "delete"  -> [server EXCEPT ![c.id] = Null]
      [] c.op = "setup"   -> [r \in Rows |-> IF r \in Old /\ server[r] = Null
                                             THEN Written(c) ELSE server[r]]
      [] OTHER            -> server

(* The rows a page asks for: those to be approved, those that are public,   *)
(* or all.                                                                  *)
View(rows) ==
    [r \in Rows |->
        IF rows[r] = Null THEN Null
        ELSE IF listPage = "pending" /\ rows[r].published THEN Null
        ELSE IF listPage = "other" /\ ~rows[r].published THEN Null
        ELSE rows[r]]

Reply(c, rows) ==
    IF c.op \in {"fetch", "setup"} THEN View(rows)
    ELSE [r \in Rows |-> IF r = c.id THEN rows[r] ELSE Null]

Perform(i) ==
    /\ call[i].st = "asked" /\ Possible(call[i])
    /\ server' = Effect(call[i])
    /\ call' = [call EXCEPT ![i].st = "done", ![i].reply = Reply(call[i], server')]
    /\ UNCHANGED <<listPage, shownVars, clicks, loaded, clean, cut>>

(* A profile whose pending comments are refused asks for the public ones.   *)
FallBack(i) ==
    /\ listPage = "profile" /\ call[i].st = "asked" /\ call[i].op = "fetch"
    /\ call' = [call EXCEPT ![i].st = "done",
                            ![i].reply = [r \in Rows |->
                                IF server[r] = Null \/ ~server[r].published THEN Null
                                ELSE server[r]]]
    /\ clean' = FALSE /\ cut' = TRUE
    /\ UNCHANGED <<listPage, server, shownVars, clicks, loaded>>

(* It refuses, or is not reached; the row may have been deleted before. *)
Refuse(i) ==
    /\ call[i].st = "asked"
    /\ call' = [call EXCEPT ![i].st = "refused"]
    /\ clean' = (clean /\ call[i].op # "fetch")
    /\ UNCHANGED <<listPage, server, shownVars, clicks, loaded, cut>>

(* The request is performed but the page sees it fail: its answer is lost,  *)
(* or the photo could not be stored after its row was made.                 *)
Lose(i) ==
    /\ call[i].st = "asked" /\ Possible(call[i])
    /\ server' = Effect(call[i])
    /\ call' = [call EXCEPT ![i].st = "refused"]
    /\ clean' = FALSE
    /\ UNCHANGED <<listPage, shownVars, clicks, loaded, cut>>

-----------------------------------------------------------------------------
(* The pages, when an answer comes: the rows each handler leaves. *)

With(rows, r, row) == [rows EXCEPT ![r] = row]

(* prev.map: a row that is not listed any more is not brought back. *)
Mapped(rows, r, row) == IF rows[r] = Null THEN rows ELSE With(rows, r, row)

(* Mutant: of an edited comment only the text is taken from the answer. *)
OnProfileText(c) ==
    CASE c.op = "publish" ->
            [c.base EXCEPT ![c.id].published = c.reply[c.id].published]
      [] c.op = "edit"    -> [c.base EXCEPT ![c.id].text = c.n]
      [] c.op = "delete"  -> With(c.base, c.id, Null)

(* setComments(comments.map(...)): only `published` is taken from the       *)
(* answer of a moderator's click.                                           *)
OnProfile(c) ==
    CASE c.op = "publish" ->
            [c.base EXCEPT ![c.id].published = c.reply[c.id].published]
      [] c.op = "edit"    -> Mapped(c.base, c.id, c.reply[c.id])
      [] c.op = "delete"  -> With(c.base, c.id, Null)

OnAuthored(c) ==
    IF c.op = "edit" THEN Mapped(c.base, c.id, c.reply[c.id]) ELSE With(c.base, c.id, Null)

OnPending(c) == With(c.base, c.id, Null)

OnOther(c) == With(c.base, c.id, c.reply[c.id])

OnGallery(c) ==
    CASE c.op = "edit"   -> Mapped(list, c.id, Written(c))
      [] c.op = "add"    -> With(list, c.id, Written(c))
      [] c.op = "delete" -> With(list, c.id, Null)

OnDirectory(c) ==
    IF c.op = "edit" THEN Mapped(list, c.id, Written(c)) ELSE With(list, c.id, Null)

OnClasses(c) ==
    CASE c.op = "add"    -> With(list, c.id, Written(c))
      [] c.op = "setup"  -> c.reply
      [] c.op = "delete" -> With(list, c.id, Null)

(* The managers of schools and events show a saved row when they fetch the  *)
(* list again.                                                              *)
OnManaged(c) == IF c.op = "delete" THEN With(list, c.id, Null) ELSE list

Patched(c) ==
    IF c.op = "fetch" THEN c.reply ELSE
    IF c.op = "photo" THEN list ELSE
    CASE listPage = "profile"     -> OnProfile(c)
      [] listPage = "authored"    -> OnAuthored(c)
      [] listPage = "pending"     -> OnPending(c)
      [] listPage = "other"       -> OnOther(c)
      [] listPage = "gallery"     -> OnGallery(c)
      [] listPage = "directory"   -> OnDirectory(c)
      [] listPage = "classes"     -> OnClasses(c)
      [] listPage \in ManagerPages -> OnManaged(c)

(* `[...prev, year]`, and `[...prev, photo]`, do not look whether the row is *)
(* there already.                                                           *)
Twice(c) ==
    CASE listPage \in {"classes", "gallery"} /\ c.op = "add" ->
                                              IF list[c.id] = Null THEN twice ELSE twice \cup {c.id}
      [] c.op \in {"fetch", "setup"}          -> {}
      [] c.op = "delete"                      -> twice \ {c.id}
      [] OTHER                                -> twice

(* The gallery alone, fetched after an upload to it.                        *)
GalleryOnly(c) == c.op = "fetch" /\ listPage = "gallery" /\ "add" \in c.frees

(* Whether the dialog is closed when a request is over, answered or not. *)
ClosesDialog(c, answered) ==
    CASE c.op = "delete" -> listPage \in {"directory", "classes", "schools"}
                               \/ (answered /\ listPage \in {"authored", "pending"})
      [] c.op = "fetch"  -> answered /\ GalleryOnly(c)
      [] OTHER           -> FALSE

(* Saving, and changing a photo, is followed by fetching the list again;    *)
(* the handlers wait for it, with their flags still set.                    *)
Refetches(c) ==
    \/ c.op = "photo"
    \/ c.op = "add" /\ listPage = "gallery"
    \/ c.op \in {"add", "edit"} /\ listPage \in ManagerPages

Refetch(c) == [Fetch EXCEPT !.frees = c.frees]

(* The answer comes: rows, form and dialog; then `finally`, unless the      *)
(* handler goes on by fetching the list.                                    *)
Answer(i) ==
    /\ call[i].st = "done"
    /\ LET c == call[i] IN
       /\ list' = Patched(c)
       /\ twice' = Twice(c)
       /\ editing' = IF c.closes THEN Null ELSE editing
       /\ dialog' = IF ClosesDialog(c, TRUE) THEN Null ELSE dialog
       /\ call' = [call EXCEPT ![i] = IF Refetches(c) THEN Refetch(c) ELSE Idle]
       /\ busy' = IF Refetches(c) THEN busy ELSE busy \ c.frees
       /\ acting' = IF "row" \in c.frees THEN Null ELSE acting
       /\ loading' = IF Refetches(c)
                     THEN loading \/ c.op = "photo" \/ listPage \in ManagerPages
                     ELSE loading /\ (c.op = "fetch" => GalleryOnly(c))
       /\ loaded' = (loaded \/ c.op = "fetch")
    /\ UNCHANGED <<listPage, server, clicks, clean, cut>>

(* Mutant: the row is taken away whether or not the request succeeded. *)
KeptNever(c) == {IF c.op = "delete" THEN With(list, c.id, Null) ELSE list}

(* A request that failed leaves the rows, the form and a comment's dialog;  *)
(* a fetch that failed empties some of the lists, and the gallery if it was *)
(* the gallery's part that failed.                                          *)
Kept(c) ==
    IF c.op = "fetch" /\ listPage \in {"authored", "directory", "other"} THEN {NoRows}
    ELSE IF c.op = "fetch" /\ listPage = "gallery" /\ ~GalleryOnly(c) THEN {list, NoRows}
    ELSE {list}

Fail(i) ==
    /\ call[i].st = "refused"
    /\ LET c == call[i] IN
       /\ list' \in Kept(c)
       /\ cut' = (cut \/ list' # list)
       /\ loaded' = (loaded /\ ~(c.op = "fetch" /\ listPage = "other"))
       /\ dialog' = IF ClosesDialog(c, FALSE) THEN Null ELSE dialog
       /\ busy' = busy \ c.frees
       /\ acting' = IF "row" \in c.frees THEN Null ELSE acting
       /\ loading' = (loading /\ (c.op = "fetch" => GalleryOnly(c)))
       /\ call' = [call EXCEPT ![i] = Idle]
    /\ UNCHANGED <<listPage, server, twice, editing, clicks, clean>>

-----------------------------------------------------------------------------
ListsStep ==
    \/ \E r \in Rows : OpenForm(r)
    \/ CloseForm
    \/ \E d \in Rows \cup {File} : OpenDialog(d)
    \/ CloseDialog
    \/ \E op \in {"publish", "edit", "delete", "add", "setup", "photo"}, r \in Rows \cup {Null} :
          Click(op, r)
    \/ \E i \in Calls :
          Perform(i) \/ FallBack(i) \/ Refuse(i) \/ Lose(i) \/ Answer(i) \/ Fail(i)

-----------------------------------------------------------------------------
Quiet == Out = {}

(* A row is shown as the API would give it; or it is a comment the reader   *)
(* has just left, which a classmate's page shows although it awaits its     *)
(* approval, until it fetches the comments again.                           *)
Agrees(r) ==
    \/ list[r] = View(server)[r]
    \/ listPage = "other" /\ r \notin Old /\ list[r] = server[r]

(* When nothing is in flight, no two requests crossed and no answer was     *)
(* lost, a page lists exactly what the API would give it, each row once,    *)
(* with the text and the state the API has, after a photo was changed and   *)
(* all fetched again as well.                                               *)
ListsAgree ==
    listPage # Null /\ Quiet /\ clean => (\A r \in Rows : Agrees(r)) /\ twice = {}

(* Whatever crosses, fails or is lost, no page but the one of the classes,   *)
(* whose years may be linked again, hides a row that was there when it was  *)
(* opened and still is: a patch of an old copy brings rows back, but never  *)
(* takes one away.  Only a fetch that fails in part does: of a profile's    *)
(* comments the public ones alone may come, at first or after a photo was   *)
(* changed, and a classmate's page or a gallery fetched again may lose all. *)
RowsStayVisible ==
    listPage \notin {"classes", Null} /\ loaded /\ ~cut =>
        \A r \in Old : View(server)[r] # Null => list[r] # Null

(* A disabled button is enabled again when nothing is in flight, and what   *)
(* it guards is never asked for twice at once: a comment is not posted, a   *)
(* photo not uploaded or changed and an event not created twice by two      *)
(* clicks.                                                                  *)
ButtonsGuard ==
    /\ Quiet => busy = {} /\ acting = Null
    /\ \A i, j \in Out : i # j /\ call[i].op = call[j].op =>
           ~ \/ call[i].op = "add" /\ listPage \in {"other", "gallery", "classes", "events"}
             \/ call[i].op = "edit" /\ listPage \in {"authored", "directory", "events"}
             \/ call[i].op \in {"setup", "photo"}
===============================================================================
