------------------------------ MODULE Selections ------------------------------
(***************************************************************************)
(* The web pages whose rows depend on what the reader has selected: the     *)
(* managers of users, events and classes, the page to join, the class's     *)
(* photos, and the two pages about one user.  An effect asks for the rows   *)
(* of a selection whenever one of its dependencies changes; only the photos *)
(* forget an answer that is not wanted any more, elsewhere the answer that  *)
(* comes last stays.  What the API keeps does not change here.              *)
(***************************************************************************)
EXTENDS Naturals, FiniteSets

CONSTANTS
    SelPages,       \* the pages of this instance
    Schools,        \* what is selected first: a school, or the user of a page
    Classes,        \* the years all schools share
    Linked,         \* the years of each school
    Newest,         \* classes[0]: the first of them
    MaxPage,
    MaxMoves,       \* per page, how often the reader acts
    Nothing

Terms == {1, 2}     \* two orders of the photos, or two searches

PageNames == {"users", "events", "ownEvents", "classes", "join", "photos", "user", "profile"}

Selection == [school : Schools \cup {Nothing}, class : Classes \cup {Nothing},
              page : 0..MaxPage, term : 0..2]

ASSUME SelectionsAssumption ==
    /\ SelPages \subseteq PageNames
    /\ Linked \in [Schools -> SUBSET Classes]
    /\ Newest \in [Schools -> Classes] /\ \A s \in Schools : Newest[s] \in Linked[s]
    /\ MaxPage \in Nat \ {0} /\ SelPages \subseteq DOMAIN MaxMoves
    /\ Nothing \notin Schools \cup Classes \cup PageNames \cup Selection

VARIABLES
    selPage,    \* the page that is open; Nothing: none of these
    sel,        \* selectedSchoolId, selectedClassId, the page and the term
    shown,      \* per part of the page, the selection it was fetched for
    asked,      \* the requests in flight
    waits,      \* the parts whose loading flag is set
    pending,    \* pendingClassId: the class to select when the years are there
    saved,      \* what sessionStorage keeps of the users' page
    step,       \* of joining: school, search, results or claim
    many,       \* matches.length > 1
    moves,      \* how often the reader has selected, saved, searched or left
    wanted,     \* history: the selection the reader made last
    smooth      \* history: nothing failed, and the reader never selected,
                \* saved or left while a request was out

selVars == <<selPage, sel, shown, asked, waits, pending, saved, step, many, moves,
             wanted, smooth>>

Parts == {"years", "zone", "rows", "profile", "class", "gallery", "comments", "chosen"}

NoKey == [school |-> Nothing, class |-> Nothing, page |-> 0, term |-> 0]
Unselected == [school |-> Nothing, class |-> Nothing, page |-> 1, term |-> 1]

Request == [part : Parts \cup {"own", "save", "claim"}, key : Selection, by : Nat]

SelectionsTypeOK ==
    /\ selPage \in SelPages \cup {Nothing}
    /\ sel \in Selection /\ saved \in Selection /\ wanted \in Selection
    /\ shown \in [Parts -> Selection \cup {Nothing}]
    /\ asked \subseteq Request
    /\ waits \subseteq Parts
    /\ pending \in Classes \cup {Nothing}
    /\ step \in {"school", "search", "results", "claim"} /\ many \in BOOLEAN
    /\ moves \in Nat /\ smooth \in BOOLEAN
    /\ step = "claim" => shown["chosen"] # Nothing

-----------------------------------------------------------------------------
(* Effects: which parts a page fetches, what each depends on, and what must *)
(* be selected.                                                             *)

EffectsOf ==
    CASE selPage = "users"     -> {"years", "rows"}
      [] selPage = "events"    -> {"years", "rows", "zone"}
      [] selPage = "ownEvents" -> {"rows", "zone"}
      [] selPage \in {"classes", "join"} -> {"years"}
      [] selPage = "photos"    -> {"rows"}
      [] OTHER                 -> {"profile"}

(* Mutant: the users are not fetched again for another page or search. *)
DependsOnClass(part) == IF part = "rows" THEN {"class"} ELSE {"school"}

(* The events are fetched again for another class, not for another school.  *)
Depends(part) ==
    IF part # "rows" THEN {"school"}
    ELSE IF selPage \in {"users", "photos"} THEN {"class", "page", "term"}
    ELSE {"class"}

Gate(part) == IF part = "rows" THEN "class" ELSE "school"

KeyOf(part, s) ==
    IF part # "rows" THEN [NoKey EXCEPT !.school = s.school] ELSE
    CASE selPage \in {"users", "photos"} -> [s EXCEPT !.school = Nothing]
      [] selPage = "join"   -> [NoKey EXCEPT !.class = s.class]
      [] OTHER              -> [NoKey EXCEPT !.school = s.school, !.class = s.class]

(* Mutant: the effect of the photos does not return the function that sets  *)
(* `cancelled`.                                                             *)
CancelsNever(part) == FALSE

Cancels(part) == selPage = "photos" /\ part = "rows"

(* Parts that say "Loading..." while they are fetched. *)
Flagged ==
    CASE selPage \in {"users", "events", "ownEvents", "photos"} -> {"rows"}
      [] selPage \in {"classes", "join"} -> {"years"}
      [] OTHER -> {"profile"}

(* The selection becomes `new` and the effects run that depend on what has  *)
(* changed; `rest`, `shows` and `flags` are what the caller leaves of the   *)
(* requests, the parts and the flags.                                       *)
Settle(new, by, rest, shows, flags) ==
    LET reran == {p \in EffectsOf : \E f \in Depends(p) : new[f] # sel[f]}
        asks  == {p \in reran : new[Gate(p)] # Nothing}
    IN  /\ sel' = new
        /\ asked' = {r \in rest : ~(r.part \in reran /\ Cancels(r.part))}
                        \cup {[part |-> p, key |-> KeyOf(p, new), by |-> by] : p \in asks}
        /\ shown' = [p \in Parts |->
                        IF p \in reran \ asks /\ ~(p = "rows" /\ selPage = "users")
                        THEN Nothing ELSE shows[p]]
        /\ waits' = flags \cup (asks \cap Flagged)
        /\ saved' = IF selPage = "users" THEN new ELSE saved

-----------------------------------------------------------------------------
(* The pages are opened.  Two pages ask for the reader's own class first.   *)

Asking(part, s) == [part |-> part, key |-> KeyOf(part, s), by |-> 0]

SelectionsInit ==
    /\ selPage \in SelPages \cup {Nothing}
    /\ sel \in IF selPage \in {"user", "profile"}
               THEN {[Unselected EXCEPT !.school = u] : u \in Schools} ELSE {Unselected}
    /\ shown = [p \in Parts |-> Nothing]
    /\ asked = CASE selPage \in {"photos", "ownEvents"} -> {Asking("own", sel)}
                 [] selPage \in {"user", "profile"}     -> {Asking("profile", sel)}
                 [] OTHER                               -> {}
    /\ waits = CASE selPage = "photos"              -> {"rows"}
                 [] selPage \in {"user", "profile"} -> {"profile"}
                 [] OTHER                           -> {}
    /\ pending = Nothing /\ saved = Unselected
    /\ step = "school" /\ many = FALSE
    /\ moves = 0 /\ wanted = sel /\ smooth = TRUE

-----------------------------------------------------------------------------
(* The reader. *)

Moves == moves < MaxMoves[selPage] /\ moves' = moves + 1

Selects(new) ==
    /\ new # sel
    /\ Moves
    /\ Settle(new, moves', asked, shown, waits)
    /\ wanted' = new
    /\ smooth' = (smooth /\ asked = {})
    /\ UNCHANGED <<selPage, pending, step, many>>

(* The other ways to leave a part that nothing is selected for. *)
Without(s) == IF s.school = Nothing THEN [s EXCEPT !.class = Nothing] ELSE s

(* Another school deselects the class, but not on the events' page. *)
SelectSchool(s) ==
    /\ \/ selPage \in {"users", "join"} /\ step = "school"
          /\ Selects([sel EXCEPT !.school = s, !.class = Nothing])
       \/ selPage = "events" /\ Selects(Without([sel EXCEPT !.school = s]))
       \/ selPage = "classes" /\ Selects([sel EXCEPT !.school = s])

(* From one user's page to another's: the component stays mounted. *)
Navigate(u) ==
    /\ selPage \in {"user", "profile"}
    /\ u # Nothing
    /\ Selects([sel EXCEPT !.school = u])

YearsListed == IF shown["years"] = Nothing THEN {} ELSE Linked[shown["years"].school]

SelectClass(c) ==
    /\ sel.school # Nothing
    /\ \/ selPage = "users" /\ c \in YearsListed \cup {Nothing}
          /\ Selects([sel EXCEPT !.class = c, !.page = 1])
       \/ selPage = "events" /\ c \in YearsListed /\ Selects([sel EXCEPT !.class = c])
       \/ selPage = "join" /\ step = "school" /\ "years" \notin waits
          /\ c \in YearsListed \cup {Nothing}
          /\ Selects([sel EXCEPT !.class = c])

(* The pager is there when rows are. *)
SelectPage(p) ==
    /\ selPage \in {"users", "photos"} /\ sel.class # Nothing
    /\ shown["rows"] # Nothing /\ "rows" \notin waits
    /\ Selects([sel EXCEPT !.page = p])

(* Another search or order starts at the first page. *)
SelectTerm(t) ==
    /\ \/ selPage = "users" /\ sel.class # Nothing
       \/ selPage = "photos" /\ (shown["rows"] # Nothing \/ "rows" \in waits)
    /\ t # sel.term
    /\ Selects([sel EXCEPT !.term = t, !.page = 1])

(* A change is saved: a user added, imported, moved, edited or deleted; an  *)
(* event; a photo.  What is selected now will be fetched again then.        *)
Save ==
    /\ \/ selPage \in {"users", "events", "ownEvents"} /\ sel.class # Nothing
             /\ sel.school # Nothing
       \/ selPage \in {"user", "profile"} /\ waits = {} /\ shown["profile"] # Nothing
    /\ Moves
    /\ asked' = asked \cup {[part |-> "save", key |-> sel, by |-> moves']}
    /\ smooth' = (smooth /\ asked = {})
    /\ UNCHANGED <<selPage, sel, shown, waits, pending, saved, step, many, wanted>>

(* The users' page is left and opened again: it restores what it saved, the *)
(* class once the years are there.                                          *)
LeaveAndReturn ==
    /\ selPage = "users"
    /\ Moves
    /\ LET back == [saved EXCEPT !.class = Nothing] IN
       /\ sel' = back /\ saved' = back
       /\ asked' = IF back.school = Nothing THEN {}
                   ELSE {[part |-> "years", key |-> KeyOf("years", back), by |-> moves']}
    /\ pending' = saved.class
    /\ shown' = [p \in Parts |-> Nothing] /\ waits' = {}
    /\ smooth' = (smooth /\ asked = {})
    /\ UNCHANGED <<selPage, step, many, wanted>>

Searching == \E r \in asked : r.part = "rows"
Claiming  == \E r \in asked : r.part = "claim"

Joining ==
    /\ selPage = "join"
    /\ UNCHANGED <<selPage, sel, waits, pending, saved, wanted, smooth>>

Continue ==
    /\ step = "school" /\ sel.school # Nothing /\ sel.class # Nothing
    /\ Joining /\ step' = "search"
    /\ UNCHANGED <<moves, shown, asked, many>>

Search ==
    /\ step = "search" /\ ~Searching
    /\ Joining /\ Moves
    /\ asked' = asked \cup {[part |-> "rows", key |-> KeyOf("rows", sel), by |-> moves']}
    /\ UNCHANGED <<shown, step, many>>

ChooseMatch ==
    /\ step = "results"
    /\ Joining /\ step' = "claim"
    /\ shown' = [shown EXCEPT !["chosen"] = shown["rows"]]
    /\ UNCHANGED <<moves, asked, many>>

Claim ==
    /\ step = "claim" /\ ~Claiming
    /\ Joining /\ Moves
    /\ asked' = asked \cup {[part |-> "claim", key |-> shown["chosen"], by |-> moves']}
    /\ UNCHANGED <<shown, step, many>>

(* One step back, even while a search or a claim is out. *)
Back ==
    /\ step # "school"
    /\ Joining
    /\ step' = CASE step = "search"  -> "school"
                 [] step = "results" -> "search"
                 [] step = "claim"   -> IF many THEN "results" ELSE "search"
    /\ many' = (many /\ step # "results")
    /\ UNCHANGED <<moves, shown, asked>>

-----------------------------------------------------------------------------
(* The answers.  What was asked for is shown, whatever is selected now.     *)

Rest(r)  == asked \ {r}
Shows(r) == [shown EXCEPT ![r.part] = r.key]
Over(r)  == waits \ {r.part}
Then(r, part, key) == Rest(r) \cup {[part |-> part, key |-> key, by |-> r.by]}

AnswerOnly == UNCHANGED <<selPage, moves, wanted, smooth>>
SameStep   == UNCHANGED <<step, many>>

(* Mutant: a restored class is selected like one the reader selects. *)
RestoredFirstPage(r) ==
    IF pending = Nothing THEN sel ELSE [sel EXCEPT !.class = pending, !.page = 1]

(* The users' page then selects the class it restores, once.                *)
Restored(r) == IF pending = Nothing THEN sel ELSE [sel EXCEPT !.class = pending]

YearsAnswered(r) ==
    /\ r.part = "years"
    /\ LET new == CASE selPage = "users"  -> Restored(r)
                    [] selPage = "events" -> [sel EXCEPT !.class = Newest[r.key.school]]
                    [] OTHER              -> sel
       IN Settle(new, r.by, Rest(r), Shows(r), Over(r))
    /\ pending' = Nothing
    /\ SameStep /\ AnswerOnly

RowsAnswered(r) ==
    /\ r.part \in {"rows", "zone"} /\ selPage # "join"
    /\ shown' = Shows(r) /\ asked' = Rest(r) /\ waits' = Over(r)
    /\ UNCHANGED <<sel, pending, saved>> /\ SameStep /\ AnswerOnly

(* Mutant: the only person found is not chosen. *)
FoundUnselected(r, n) ==
    /\ r.part = "rows" /\ selPage = "join"
    /\ asked' = Rest(r) /\ many' = (n > 1) /\ shown' = Shows(r)
    /\ step' = CASE n = 0 -> step [] n = 1 -> "claim" [] n = 2 -> "results"
    /\ UNCHANGED <<sel, waits, pending, saved>> /\ AnswerOnly

(* None, one or several people of that name: one is chosen at once.         *)
Found(r, n) ==
    /\ r.part = "rows" /\ selPage = "join"
    /\ asked' = Rest(r) /\ many' = (n > 1)
    /\ shown' = [Shows(r) EXCEPT !["chosen"] = IF n = 1 THEN r.key ELSE @]
    /\ step' = CASE n = 0 -> step [] n = 1 -> "claim" [] n = 2 -> "results"
    /\ UNCHANGED <<sel, waits, pending, saved>> /\ AnswerOnly

(* The account is the reader's: the page is left. *)
Claimed(r) ==
    /\ r.part = "claim"
    /\ selPage' = Nothing /\ asked' = {}
    /\ UNCHANGED <<sel, shown, waits, pending, saved, moves, wanted, smooth>> /\ SameStep

(* The reader's own class: the events of its school, the photos of its members. *)
OwnAnswered(r, s) ==
    /\ r.part = "own"
    /\ LET new == [sel EXCEPT !.school = IF selPage = "photos" THEN Nothing ELSE s,
                              !.class = Newest[s]]
       IN /\ Settle(new, r.by, Rest(r), shown, waits)
          /\ wanted' = new
    /\ UNCHANGED <<selPage, pending, moves, smooth>> /\ SameStep

(* A user's page asks for one part after the other.                         *)
After(part) ==
    CASE part = "profile" -> IF selPage = "profile" THEN "class" ELSE "gallery"
      [] part = "class"   -> "gallery"
      [] part = "gallery" -> "comments"

UserAnswered(r) ==
    /\ r.part \in {"profile", "class", "gallery", "comments"}
    /\ shown' = Shows(r)
    /\ IF r.part = "comments"
       THEN asked' = Rest(r) /\ waits' = waits \ {"profile"}
       ELSE asked' = Then(r, After(r.part), r.key) /\ UNCHANGED waits
    /\ UNCHANGED <<sel, pending, saved>> /\ SameStep /\ AnswerOnly

(* What was selected when the change was asked for is fetched again.        *)
Saved(r) ==
    /\ r.part = "save"
    /\ LET part == IF selPage \in {"user", "profile"} THEN "profile" ELSE "rows" IN
       /\ asked' = Then(r, part, KeyOf(part, r.key))
       /\ waits' = waits \cup {part}
    /\ UNCHANGED <<sel, shown, pending, saved>> /\ SameStep /\ AnswerOnly

(* What a page shows after a request that failed: a list is emptied or not. *)
Emptied(r) ==
    CASE r.part = "years" -> IF selPage = "events" THEN {"years"} ELSE {}
      [] r.part = "zone"  -> {"zone"}
      [] r.part = "rows"  -> IF selPage \in {"users", "photos"} THEN {"rows"} ELSE {}
      [] r.part = "gallery" -> {"gallery"}
      [] r.part \in {"profile", "comments"} /\ selPage = "user" -> {"profile", "comments"}
      [] OTHER -> {}

Failed(r) ==
    /\ shown' = [p \in Parts |-> IF p \in Emptied(r) THEN Nothing ELSE shown[p]]
    /\ IF r.part = "gallery"
       THEN asked' = Then(r, "comments", r.key) /\ UNCHANGED waits
       ELSE /\ asked' = Rest(r)
            /\ waits' = CASE r.part = "own" -> {}
                          [] r.part \in {"profile", "class", "comments"} -> waits \ {"profile"}
                          [] OTHER -> Over(r)
    /\ smooth' = FALSE
    /\ UNCHANGED <<selPage, sel, pending, saved, moves, wanted>> /\ SameStep

-----------------------------------------------------------------------------
SelectionsStep ==
    \/ \E s \in Schools \cup {Nothing} : SelectSchool(s) \/ Navigate(s)
    \/ \E c \in Classes \cup {Nothing} : SelectClass(c)
    \/ \E p \in 1..MaxPage : SelectPage(p)
    \/ \E t \in Terms : SelectTerm(t)
    \/ Save \/ LeaveAndReturn
    \/ Continue \/ Search \/ ChooseMatch \/ Claim \/ Back
    \/ \E r \in asked :
          \/ YearsAnswered(r) \/ RowsAnswered(r) \/ Claimed(r) \/ UserAnswered(r)
          \/ Saved(r) \/ Failed(r)
          \/ \E n \in 0..2 : Found(r, n)
          \/ \E s \in Schools : OwnAnswered(r, s)

-----------------------------------------------------------------------------
PartsOf == EffectsOf \cup CASE selPage = "user"    -> {"gallery", "comments"}
                            [] selPage = "profile" -> {"class", "gallery", "comments"}
                            [] OTHER               -> {}

Settled == selPage # Nothing /\ asked = {} /\ smooth

(* Once everything asked for was answered, a reader who never hurried sees  *)
(* what is selected: the years of the school, the rows of the class, page   *)
(* and search, the parts of one user; a class of the school is selected,    *)
(* and joining goes on with somebody of the selected class.  (Whether       *)
(* events are of the selected school is another question: EventsOfSchool.)  *)
SelectionsMatch ==
    Settled =>
        /\ \A p \in PartsOf : sel[Gate(p)] # Nothing =>
               IF selPage = "events" /\ p = "rows"
               THEN shown[p] # Nothing /\ shown[p].class = sel.class
               ELSE shown[p] = KeyOf(p, sel)
        /\ sel.school # Nothing /\ sel.class # Nothing => sel.class \in Linked[sel.school]
        /\ step = "claim" => shown["chosen"].class = sel.class
        /\ waits = {}

(* However fast the reader turns pages and changes the order, photos that   *)
(* are shown are those of the page and the order that are selected.         *)
PhotosAreCurrent ==
    selPage = "photos" /\ "rows" \notin waits /\ shown["rows"] # Nothing =>
        shown["rows"] = KeyOf("rows", sel)

(* The users' page comes back with the selection that was left: school,     *)
(* class, page and search, though the class waits for the years.            *)
RestoreBringsBack == Settled /\ selPage = "users" => sel = wanted

(* The events listed are those of the selected school and class: "Select a  *)
(* school and class year to manage events." (EventsManager.tsx:205).        *)
(* (Refuted: the effect depends on the class alone, and classes are shared  *)
(* by schools.)                                                             *)
EventsOfSchool ==
    Settled /\ selPage = "events" /\ sel.school # Nothing /\ sel.class # Nothing =>
        shown["rows"] = KeyOf("rows", sel)
===============================================================================
