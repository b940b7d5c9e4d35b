------------------------------ MODULE MCPhotos ------------------------------
(***************************************************************************)
(* Photos at one school of some classes, or none.  Only the requests that  *)
(* may fail differ from the others.                                        *)
(***************************************************************************)
EXTENDS Photos, TLC

MCSchool == [p \in Places |-> CHOOSE s \in Schools : TRUE]
Interchangeable ==
    Permutations(Users) \cup Permutations(Requests \ MayFail)
        \cup Permutations(MayFail) \cup Permutations(Places)

(* Three requests about the profile photos, or the gallery, of users in no  *)
(* class; two that delete the school or a user, or sweep or unlink one of   *)
(* two classes; or a photo replaced in the class that is swept.             *)
MCMixes ==
    {[ops |-> {"replace", "clear", "delete"}, most |-> 3, places |-> {}],
     [ops |-> {"add", "remove", "delete"}, most |-> 3, places |-> {}],
     [ops |-> {"delete", "school", "cascade", "unlink"}, most |-> 2, places |-> Places]}
    \cup {[ops |-> {"replace", "school", "cascade", "unlink"}, most |-> 2, places |-> {p}] :
              p \in Places}
=============================================================================
