------------------------------ MODULE MCSession ------------------------------
(* Two tabs of one browser, a member and a super admin. *)
EXTENDS Session

CONSTANTS ada, sue, c1, c2

MCUsers  == {ada, sue}
MCAdmins == {sue}
MCPhotos == {ada}
MCCalls  == {c1, c2}
=============================================================================
