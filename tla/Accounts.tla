------------------------------ MODULE Accounts ------------------------------
(***************************************************************************)
(* Accounts and the three ways into one: claiming a roster entry, setting  *)
(* a password through an e-mailed or admin-minted link, and being created  *)
(* with an address.  Every handler is the sequence of statements it awaits *)
(* (apps/api/src/auth, admin and users); between two statements any other  *)
(* request may run, and at any of them the request may die.                *)
(*                                                                         *)
(* A request is one element of Requests, used once.  The random token a    *)
(* minting request generates is named by that request.                     *)
(***************************************************************************)

CONSTANTS
    Users,      \* primary keys the users table may hand out
    Requests,   \* the requests of one behaviour
    Raw,        \* spellings of an e-mail address a client may send
    Norm,       \* [Raw -> Raw]: s.toLowerCase().trim()
    Empty,      \* the empty string, a member of Raw
    Null        \* SQL NULL, and "not set" in a request

ASSUME RawAssumption ==
    /\ Empty \in Raw
    /\ Norm \in [Raw -> Raw]
    /\ Norm[Empty] = Empty
    /\ \A a \in Raw : Norm[Norm[a]] = Norm[a]

ASSUME NullAssumption == Null \notin Users \cup Requests \cup Raw

VARIABLES
    status,      \* users: "free" id, "live" row, "gone" (deleted)
    email,       \* users.email
    password,    \* users.password: "none", "random" (nobody knows it), "chosen"
    verified,    \* users with email_verified
    profiles,    \* users with a profiles row
    members,     \* users with a class_user row
    resetToken,  \* password_reset_tokens, by the request that minted the token
    verifyToken, \* email_verification_tokens, left over from registration
    req,         \* the requests in flight and their local variables
    earlier      \* history: the requests that had finished when this one began

users  == <<status, email, password, verified>>
roster == <<profiles, members>>
tokens == <<resetToken, verifyToken>>
vars   == <<users, roster, tokens, req, earlier>>

-----------------------------------------------------------------------------
Ops == {"forgot", "link", "reset", "verify", "claim", "update", "create",
        "delete"}
Mints == {"forgot", "link"}
Final == {"ok", "refused", "failed"}
Steps == {"delete", "insert", "deliver", "update", "sweep", "mark", "spend",
          "taken", "write", "user", "profile", "class", "reply", "erase"}

Request == [op   : Ops \cup {Null},
            pc   : {"idle"} \cup Steps \cup Final,
            user : Users \cup {Null},
            mail : Raw \cup {Null},
            link : Requests \cup {Null}]

NoRequest == [op |-> Null, pc |-> "idle", user |-> Null, mail |-> Null,
              link |-> Null]

(* Rows of one user; the UNIQUE constraint on users.email.                 *)
Holders(e)  == {u \in Users : email[u] = e}
Violates(u, e) == e # Null /\ Holders(e) \ {u} # {}
LinksOf(u)  == {t \in Requests : /\ req[t].user = u
                                 /\ resetToken[t] \in {"open", "expired"}}

Begin(r, op, pc, u, e, t) ==
    /\ req[r].pc = "idle"
    /\ req' = [req EXCEPT ![r] = [op |-> op, pc |-> pc, user |-> u,
                                  mail |-> e, link |-> t]]
    /\ earlier' = [earlier EXCEPT ![r] = {q \in Requests : req[q].pc \in Final}]

At(r, op, pc) == req[r].op = op /\ req[r].pc = pc

Goto(r, pc) == /\ req' = [req EXCEPT ![r].pc = pc]
               /\ UNCHANGED earlier

(* Mutant: the DELETE loses its WHERE clause.                              *)
DropLinksOfAll(u) ==
    resetToken' = [t \in Requests |-> IF resetToken[t] \in {"open", "expired"}
                                        THEN "deleted" ELSE resetToken[t]]

DropLinks(u) ==
    resetToken' = [t \in Requests |-> IF t \in LinksOf(u) THEN "deleted"
                                                          ELSE resetToken[t]]

-----------------------------------------------------------------------------
(* Minting a link.  Both handlers look the user up, DELETE the tokens the  *)
(* user has, INSERT the new one and hand it over: three awaited statements *)
(* with no transaction round them.                                         *)

(* Mutant: the address is kept where the id belongs.                       *)
ForgotLookupKeepsMail(r) ==
    /\ \E u \in Users : /\ email[u] # Null
                        /\ Begin(r, "forgot", "delete", email[u], email[u], Null)
    /\ UNCHANGED <<users, roster, tokens>>

ForgotLookup(r) ==
    /\ \E raw \in Raw \ {Empty} :
          LET e == Norm[raw] IN
          \/ \E u \in Holders(e) : Begin(r, "forgot", "delete", u, e, Null)
          \/ Holders(e) = {} /\ Begin(r, "forgot", "refused", Null, e, Null)
    /\ UNCHANGED <<users, roster, tokens>>

(* Mutant: no "User has no email on file" check.                           *)
LinkLookupWithoutMail(r) ==
    /\ \E u \in Users :
          Begin(r, "link", IF status[u] = "live" THEN "delete" ELSE "refused",
                u, Null, Null)
    /\ UNCHANGED <<users, roster, tokens>>

LinkLookup(r) ==
    /\ \E u \in Users :
          LET hasMail == status[u] = "live" /\ email[u] \notin {Null, Empty}
          IN  Begin(r, "link", IF hasMail THEN "delete" ELSE "refused",
                    u, Null, Null)
    /\ UNCHANGED <<users, roster, tokens>>

(* Mutant: minting adds a token and replaces none.                         *)
MintDeleteNothing(r, op) ==
    /\ At(r, op, "delete")
    /\ Goto(r, "insert")
    /\ UNCHANGED <<users, roster, tokens>>

MintDelete(r, op) ==
    /\ At(r, op, "delete")
    /\ DropLinks(req[r].user)
    /\ Goto(r, "insert")
    /\ UNCHANGED <<users, roster, verifyToken>>

(* Mutant: user_id without its foreign key.                                *)
MintInsertForAnyone(r, op) ==
    /\ At(r, op, "insert")
    /\ resetToken' = [resetToken EXCEPT ![r] = "open"]
    /\ Goto(r, "deliver")
    /\ UNCHANGED <<users, roster, verifyToken>>

(* The foreign key refuses a token for a user who is gone.                 *)
MintInsert(r, op) ==
    /\ At(r, op, "insert")
    /\ IF status[req[r].user] = "live"
         THEN /\ resetToken' = [resetToken EXCEPT ![r] = "open"]
              /\ Goto(r, "deliver")
         ELSE Goto(r, "failed") /\ UNCHANGED resetToken
    /\ UNCHANGED <<users, roster, verifyToken>>

(* Queueing the e-mail, or answering the admin with the URL.               *)
MintDeliver(r, op) ==
    /\ At(r, op, "deliver")
    /\ Goto(r, "ok")
    /\ UNCHANGED <<users, roster, tokens>>

ForgotPassword(r) ==
    \/ ForgotLookup(r)
    \/ MintDelete(r, "forgot") \/ MintInsert(r, "forgot")
    \/ MintDeliver(r, "forgot")

CreatePasswordLink(r) ==
    \/ LinkLookup(r)
    \/ MintDelete(r, "link") \/ MintInsert(r, "link") \/ MintDeliver(r, "link")

-----------------------------------------------------------------------------
(* Using a link: SELECT by hash, hash the password, UPDATE, DELETE.        *)

ResetLookup(r) ==
    /\ \E t \in Requests :
          /\ resetToken[t] # "unminted"
          /\ Begin(r, "reset",
                   IF resetToken[t] = "open" THEN "update" ELSE "refused",
                   req[t].user, Null, t)
    /\ UNCHANGED <<users, roster, tokens>>

ResetUpdate(r) ==
    /\ At(r, "reset", "update")
    /\ password' = [password EXCEPT
                      ![req[r].user] = IF status[req[r].user] = "live"
                                         THEN "chosen" ELSE @]
    /\ Goto(r, "sweep")
    /\ UNCHANGED <<status, email, verified, roster, tokens>>

(* Mutant: a used token stays.                                             *)
ResetSweepNothing(r) ==
    /\ At(r, "reset", "sweep")
    /\ Goto(r, "ok")
    /\ UNCHANGED <<users, roster, tokens>>

ResetSweep(r) ==
    /\ At(r, "reset", "sweep")
    /\ DropLinks(req[r].user)
    /\ Goto(r, "ok")
    /\ UNCHANGED <<users, roster, verifyToken>>

ResetPassword(r) == ResetLookup(r) \/ ResetUpdate(r) \/ ResetSweep(r)

(* expires_at passes.                                                      *)
Expire(t) ==
    /\ resetToken[t] = "open"
    /\ resetToken' = [resetToken EXCEPT ![t] = "expired"]
    /\ UNCHANGED <<users, roster, verifyToken, req, earlier>>

-----------------------------------------------------------------------------
(* Verifying an address; the SELECT also misses a token past its expiry.   *)

(* Mutant: the token is spent without marking the user.                    *)
VerifyLookupSkipsMark(r) ==
    /\ \E u \in Users :
          verifyToken[u] = "open" /\ Begin(r, "verify", "spend", u, Null, Null)
    /\ UNCHANGED <<users, roster, tokens>>

VerifyLookup(r) ==
    /\ \E u \in Users :
          \/ verifyToken[u] = "open" /\ Begin(r, "verify", "mark", u, Null, Null)
          \/ verifyToken[u] # "none"
             /\ Begin(r, "verify", "refused", u, Null, Null)
    /\ UNCHANGED <<users, roster, tokens>>

VerifyMark(r) ==
    /\ At(r, "verify", "mark")
    /\ verified' = IF status[req[r].user] = "live"
                     THEN verified \cup {req[r].user} ELSE verified
    /\ Goto(r, "spend")
    /\ UNCHANGED <<status, email, password, roster, tokens>>

VerifySpend(r) ==
    /\ At(r, "verify", "spend")
    /\ verifyToken' = [verifyToken EXCEPT
                         ![req[r].user] = IF @ = "none" THEN @ ELSE "used"]
    /\ Goto(r, "ok")
    /\ UNCHANGED <<users, roster, resetToken>>

VerifyEmail(r) == VerifyLookup(r) \/ VerifyMark(r) \/ VerifySpend(r)

-----------------------------------------------------------------------------
(* Claiming a roster entry: two SELECTs, then an UPDATE by primary key.    *)

(* Mutant: the lookup loses "AND email IS NULL".                           *)
UnclaimedOrNot(u) == status[u] = "live"

Unclaimed(u) == status[u] = "live" /\ email[u] = Null

ClaimLookup(r) ==
    /\ \E u \in Users, raw \in Raw \ {Empty} :
          Begin(r, "claim", IF Unclaimed(u) THEN "taken" ELSE "refused",
                u, Norm[raw], Null)
    /\ UNCHANGED <<users, roster, tokens>>

ClaimTaken(r) ==
    /\ At(r, "claim", "taken")
    /\ Goto(r, IF Holders(req[r].mail) # {} THEN "refused" ELSE "write")
    /\ UNCHANGED <<users, roster, tokens>>

(* The UPDATE fails on the UNIQUE constraint, and a row that has gone is   *)
(* rows[0] = undefined, whose id the handler then reads.                   *)
ClaimWrite(r) ==
    LET u == req[r].user  e == req[r].mail IN
    /\ At(r, "claim", "write")
    /\ IF status[u] = "live" /\ ~Violates(u, e)
         THEN /\ email' = [email EXCEPT ![u] = e]
              /\ password' = [password EXCEPT ![u] = "chosen"]
              /\ Goto(r, "reply")
         ELSE Goto(r, "failed") /\ UNCHANGED <<email, password>>
    /\ UNCHANGED <<status, verified, roster, tokens>>

Reply(r, op) ==
    /\ At(r, op, "reply")
    /\ Goto(r, "ok")
    /\ UNCHANGED <<users, roster, tokens>>

ClaimAccount(r) ==
    ClaimLookup(r) \/ ClaimTaken(r) \/ ClaimWrite(r) \/ Reply(r, "claim")

-----------------------------------------------------------------------------
(* Changing one's address (the e-mail half of a profile update; a falsy    *)
(* e-mail skips both statements).                                          *)

(* Mutant: the address is stored as it was typed.                          *)
UpdateTakenAsTyped(r) ==
    /\ \E u \in Users, raw \in Raw \ {Empty} :
          Begin(r, "update",
                IF Holders(raw) \ {u} # {} THEN "refused" ELSE "write",
                u, raw, Null)
    /\ UNCHANGED <<users, roster, tokens>>

UpdateTaken(r) ==
    /\ \E u \in Users, raw \in Raw \ {Empty} :
          Begin(r, "update",
                IF Holders(Norm[raw]) \ {u} # {} THEN "refused" ELSE "write",
                u, Norm[raw], Null)
    /\ UNCHANGED <<users, roster, tokens>>

UpdateWrite(r) ==
    LET u == req[r].user  e == req[r].mail IN
    /\ At(r, "update", "write")
    /\ IF status[u] = "live" /\ Violates(u, e)
         THEN Goto(r, "failed") /\ UNCHANGED email
         ELSE /\ email' = [email EXCEPT ![u] = IF status[u] = "live"
                                                 THEN e ELSE @]
              /\ Goto(r, "reply")
    /\ UNCHANGED <<status, password, verified, roster, tokens>>

UpdateProfile(r) == UpdateTaken(r) \/ UpdateWrite(r) \/ Reply(r, "update")

-----------------------------------------------------------------------------
(* Adding a roster entry, one by one or as a row of an import: three       *)
(* INSERTs, deliberately not a transaction.                                *)

RosterMail(raw) == IF raw = Null THEN Null
                   ELSE IF Norm[raw] = Empty THEN Null ELSE Norm[raw]

CreateLookup(r) ==
    /\ \E raw \in Raw \cup {Null} :
          LET e == RosterMail(raw) IN
          Begin(r, "create",
                IF e # Null /\ Holders(e) # {} THEN "refused" ELSE "user",
                Null, e, Null)
    /\ UNCHANGED <<users, roster, tokens>>

CreateUser(r) ==
    LET e == req[r].mail IN
    /\ At(r, "create", "user")
    /\ \/ \E u \in Users :
             /\ status[u] = "free"
             /\ ~Violates(u, e)
             /\ status' = [status EXCEPT ![u] = "live"]
             /\ email' = [email EXCEPT ![u] = e]
             /\ password' = [password EXCEPT
                               ![u] = IF e = Null THEN "none" ELSE "random"]
             /\ req' = [req EXCEPT ![r].user = u, ![r].pc = "profile"]
             /\ UNCHANGED earlier
       \/ /\ e # Null /\ Holders(e) # {}
          /\ Goto(r, "failed")
          /\ UNCHANGED <<status, email, password>>
    /\ UNCHANGED <<verified, roster, tokens>>

(* An INSERT that references the new user: refused once the user is gone.  *)
CreateProfile(r) ==
    LET u == req[r].user IN
    /\ At(r, "create", "profile")
    /\ IF status[u] = "live"
         THEN profiles' = profiles \cup {u} /\ Goto(r, "class")
         ELSE Goto(r, "failed") /\ UNCHANGED profiles
    /\ UNCHANGED <<users, members, tokens>>

(* Mutant: the class_user INSERT does not await the profiles one.          *)
CreateMemberEarly(r) ==
    /\ At(r, "create", "profile") \/ At(r, "create", "class")
    /\ status[req[r].user] = "live"
    /\ members' = members \cup {req[r].user}
    /\ Goto(r, "ok")
    /\ UNCHANGED <<users, profiles, tokens>>

CreateMember(r) ==
    LET u == req[r].user IN
    /\ At(r, "create", "class")
    /\ IF status[u] = "live"
         THEN members' = members \cup {u} /\ Goto(r, "ok")
         ELSE Goto(r, "failed") /\ UNCHANGED members
    /\ UNCHANGED <<users, profiles, tokens>>

CreateRosterUser(r) ==
    CreateLookup(r) \/ CreateUser(r) \/ CreateProfile(r) \/ CreateMember(r)

-----------------------------------------------------------------------------
(* Deleting a user; the foreign keys cascade.                              *)

DeleteLookup(r) ==
    /\ \E u \in Users :
          Begin(r, "delete", IF status[u] = "live" THEN "erase" ELSE "refused",
                u, Null, Null)
    /\ UNCHANGED <<users, roster, tokens>>

DeleteErase(r) ==
    LET u == req[r].user IN
    /\ At(r, "delete", "erase")
    /\ status' = [status EXCEPT ![u] = "gone"]
    /\ email' = [email EXCEPT ![u] = Null]
    /\ password' = [password EXCEPT ![u] = "none"]
    /\ verified' = verified \ {u}
    /\ profiles' = profiles \ {u}
    /\ members' = members \ {u}
    /\ DropLinks(u)
    /\ verifyToken' = [verifyToken EXCEPT ![u] = "none"]
    /\ Goto(r, "ok")

DeleteUser(r) == DeleteLookup(r) \/ DeleteErase(r)

-----------------------------------------------------------------------------
(* The statement a request awaits fails, or the Lambda running it dies.    *)
Fail(r) ==
    /\ req[r].pc \in Steps
    /\ Goto(r, "failed")
    /\ UNCHANGED <<users, roster, tokens>>

(* Any table a finished set of requests could have left: entries with and  *)
(* without an address, and verification tokens of the old registration.    *)
Init ==
    /\ status \in [Users -> {"free", "live"}]
    /\ email \in [Users -> {Null} \cup ({Norm[a] : a \in Raw} \ {Empty})]
    /\ \A u, v \in Users : u # v /\ email[u] = email[v] => email[u] = Null
    /\ \A u \in Users : status[u] = "free" => email[u] = Null
    /\ password = [u \in Users |-> IF email[u] = Null THEN "none" ELSE "random"]
    /\ verified = {}
    /\ profiles = {u \in Users : status[u] = "live"}
    /\ members = profiles
    /\ resetToken = [t \in Requests |-> "unminted"]
    /\ verifyToken = [u \in Users |-> IF email[u] = Null THEN "none" ELSE "open"]
    /\ req = [r \in Requests |-> NoRequest]
    /\ earlier = [r \in Requests |-> {}]

Next ==
    \E r \in Requests :
        \/ ForgotPassword(r) \/ CreatePasswordLink(r)
        \/ ResetPassword(r)  \/ Expire(r)
        \/ VerifyEmail(r)
        \/ ClaimAccount(r)   \/ UpdateProfile(r)
        \/ CreateRosterUser(r) \/ DeleteUser(r)
        \/ Fail(r)

Spec == Init /\ [][Next]_vars

-----------------------------------------------------------------------------
(* Every variable holds the kind of value its column or local has.         *)
TypeOK ==
    /\ status \in [Users -> {"free", "live", "gone"}]
    /\ email \in [Users -> Raw \cup {Null}]
    /\ password \in [Users -> {"none", "random", "chosen"}]
    /\ verified \in SUBSET Users
    /\ profiles \in SUBSET Users
    /\ members \in SUBSET Users
    /\ resetToken \in [Requests -> {"unminted", "open", "expired", "deleted"}]
    /\ verifyToken \in [Users -> {"none", "open", "used"}]
    /\ req \in [Requests -> Request]
    /\ earlier \in [Requests -> SUBSET Requests]

(* No two accounts have addresses that differ only in case or surrounding  *)
(* blanks: every path that writes users.email normalises what it was sent, *)
(* and the UNIQUE constraint settles the races the handlers' own checks    *)
(* lose.                                                                   *)
OneAccountPerAddress ==
    \A u, v \in Users :
        u # v /\ email[u] # Null /\ email[v] # Null
            => Norm[email[u]] # Norm[email[v]]

(* An account with a password has an address to sign in with: links are    *)
(* only minted for users who have one, and no path takes an address away   *)
(* while a link or a reset for the user is outstanding.                    *)
PasswordNeedsAddress ==
    \A u \in Users : password[u] # "none" => email[u] # Null

(* A stored link belongs to a user who exists, whatever deletion raced the *)
(* request that minted it.                                                 *)
LinksHaveOwners ==
    \A t \in Requests :
        resetToken[t] \in {"open", "expired"}
            => req[t].user # Null /\ status[req[t].user] = "live"

(* A class member always has a profile row (the roster and the directory   *)
(* join the two), although the three INSERTs are not a transaction and the *)
(* request may die or the user may be deleted between them.                *)
MembersHaveProfiles == members \subseteq profiles

(* A verification token is only ever marked used once the account it       *)
(* verifies is marked verified: a crash between the two UPDATEs loses      *)
(* nothing, the link still works.                                          *)
VerifiedBeforeSpent ==
    \A u \in Users : verifyToken[u] = "used" => u \in verified

(* Minting a second link invalidates the first: once a link is delivered,  *)
(* no link of the same user whose mint had finished before this one began  *)
(* still opens the account.                                                *)
LinkReplacesOlder ==
    \A r \in Requests : \A q \in earlier[r] :
        /\ req[r].op \in Mints /\ req[r].pc = "ok"
        /\ req[q].op \in Mints /\ req[q].user = req[r].user
        => resetToken[q] # "open"

(* A delivered link stays good until it expires, its user goes, or a mint  *)
(* or a reset for the same user that was not over when it was minted       *)
(* removes it: nothing about another user, and nothing older, can.         *)
LinkOutlivesOlder ==
    \A t \in Requests :
        resetToken[t] = "deleted" =>
            \E q \in Requests \ {t} :
                /\ q \notin earlier[t]
                /\ req[q].user = req[t].user
                /\ req[q].op \in Mints \cup {"reset", "delete"}

(* A link sets one password: a reset that starts after another reset with  *)
(* the same link has succeeded is refused.                                 *)
ResetSpendsLink ==
    \A r \in Requests : \A q \in earlier[r] :
        /\ req[q].op = "reset" /\ req[q].pc = "ok"
        /\ req[r].op = "reset" /\ req[r].link = req[q].link
        => req[r].pc = "refused"

(* A claim that starts after another claim of the entry has succeeded is   *)
(* refused, however the account has been used since.                       *)
ClaimIsFinal ==
    \A r \in Requests : \A q \in earlier[r] :
        /\ req[q].op = "claim" /\ req[q].pc = "ok"
        /\ req[r].op = "claim" /\ req[r].user = req[q].user
        => req[r].pc = "refused"

(* What was minted, used or claimed stays so for every request that starts  *)
(* later, and nothing else ends a link.                                    *)
LinksHold == LinkReplacesOlder /\ LinkOutlivesOlder /\ ResetSpendsLink /\ ClaimIsFinal

(* An entry created with an address is opened by a link and by nothing     *)
(* else: its random password is replaced only by a reset of that user.     *)
InvitedOnlyByLink ==
    [][\A u \in Users :
          password[u] = "random" /\ password'[u] = "chosen"
              => \E r \in Requests : /\ At(r, "reset", "update")
                                     /\ req[r].user = u]_vars

(* What admin.service.ts says of createPasswordLink: "Any outstanding      *)
(* token for the user is replaced, so minting a second link invalidates    *)
(* the first", that is, a user never has two links that work.  (Refuted by *)
(* two mints that overlap; LinkReplacesOlder is what holds.)               *)
OneWorkingLink ==
    \A q, r \in Requests :
        /\ resetToken[q] = "open" /\ resetToken[r] = "open"
        /\ req[q].user = req[r].user
        => q = r

(* What claimAccount tells the second claimant, "Account not found or      *)
(* already registered.": two claims of one entry never both succeed.       *)
(* (Refuted by two that overlap; ClaimIsFinal is what holds.)              *)
ClaimedOnce ==
    \A q, r \in Requests :
        /\ At(q, "claim", "ok") /\ At(r, "claim", "ok")
        /\ req[q].user = req[r].user
        => q = r
=============================================================================
