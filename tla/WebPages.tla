------------------------------- MODULE WebPages -------------------------------
(***************************************************************************)
(* The pages of the web application: one that patches a list (Lists), that  *)
(* loads what is selected (Selections), that holds a form (Drafts), or the  *)
(* one where the hour of an event is entered (EventTimes) is open.          *)
(***************************************************************************)
EXTENDS Lists, Selections, Drafts, EventTimes

webVars == <<listVars, selVars, draftVars, hoursVars>>

(* The parts have their types. *)
TypeOK == ListsTypeOK /\ SelectionsTypeOK /\ DraftsTypeOK /\ EventTimesTypeOK

IsOpen ==
    <<listPage # Null, selPage # Nothing, draftPage # Nobody, hoursPage>>

Init ==
    /\ ListsInit /\ SelectionsInit /\ DraftsInit /\ EventTimesInit
    /\ \E i \in 1..4 : \A j \in 1..4 : IsOpen[j] <=> i = j

Next ==
    \/ ListsStep /\ UNCHANGED <<selVars, draftVars, hoursVars>>
    \/ SelectionsStep /\ UNCHANGED <<listVars, draftVars, hoursVars>>
    \/ DraftsStep /\ UNCHANGED <<listVars, selVars, hoursVars>>
    \/ EventTimesStep /\ UNCHANGED <<listVars, selVars, draftVars>>

Spec == Init /\ [][Next]_webVars

-----------------------------------------------------------------------------
(* What the lists promise: a page that patches its rows after each call     *)
(* shows, once everything is answered and if nothing crossed or failed to   *)
(* come, what the API keeps, and on a classmate's page the comment just     *)
(* left there; no row goes from view but by a fetch that failed in part (or *)
(* at the manager of classes); and a disabled button keeps a second call of *)
(* its kind away.                                                           *)
ListsHold == ListsAgree /\ RowsStayVisible /\ ButtonsGuard

(* What the selections promise: once everything is answered, what is listed *)
(* belongs to the school, the year and the page that are selected; photos   *)
(* never are those of an earlier selection; and a page that is come back to *)
(* stands where it was left.                                                *)
SelectionsHold == SelectionsMatch /\ PhotosAreCurrent /\ RestoreBringsBack

(* What the forms promise: what was typed is gone only when it was saved or *)
(* cancelled, but for the forms that DraftsAreKept exempts (a hurried       *)
(* import or move, the profile, the feedback); no form is sent twice at     *)
(* once; the password link that is shown is the one that works; and an      *)
(* event is shown at the hour that was entered, but near a change of the    *)
(* clock.                                                                   *)
FormsHold == DraftsAreKept /\ FormsAskOnce /\ ShownLinkWorks /\ HoursAreKept
===============================================================================
