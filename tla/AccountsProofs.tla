--------------------------- MODULE AccountsProofs ---------------------------
(***************************************************************************)
(* The safety of Accounts, for any number of users, requests and spellings.*)
(*                                                                         *)
(* None of the properties is inductive: each depends on what the requests  *)
(* in flight remember from the statements they have already run.  Inv adds *)
(* that: a request past its lookup has a user, an address it carries is    *)
(* normalised, and a mint or a reset in flight is for a user who had an    *)
(* address - which no handler takes away, so it is still there.            *)
(***************************************************************************)
EXTENDS Accounts, TLAPS

(* What a request in flight knows about the tables.  Past its first        *)
(* statement it has a user; only an update may have been sent an id that   *)
(* has not been handed out.                                                *)
Addressed(u) == status[u] = "live" => email[u] # Null

InFlight(r) ==
    /\ req[r].pc \in Steps \ {"user"}
       => /\ req[r].user \in Users
          /\ req[r].op = "update" \/ status[req[r].user] # "free"
    /\ req[r].mail # Null => Norm[req[r].mail] = req[r].mail
    /\ req[r].pc # "idle" /\ req[r].op \in {"claim", "update"}
       => req[r].mail # Null
    /\ req[r].op = "claim" /\ req[r].pc \in Steps \ {"user"}
       => password[req[r].user] # "random"
    /\ \/ req[r].op \in Mints /\ req[r].pc \in {"delete", "insert"}
       \/ At(r, "reset", "update")
       => Addressed(req[r].user)
    /\ At(r, "create", "class") /\ status[req[r].user] = "live"
       => req[r].user \in profiles
    /\ At(r, "verify", "spend") /\ status[req[r].user] = "live"
       => req[r].user \in verified

(* What a users row is like.                                               *)
Row(u) ==
    /\ status[u] # "live" => password[u] = "none" /\ email[u] = Null
    /\ password[u] # "none" => email[u] # Null
    /\ email[u] # Null => Norm[email[u]] = email[u]
    /\ verifyToken[u] # "none" => status[u] = "live"
    /\ verifyToken[u] = "used" => u \in verified
    /\ u \in members => u \in profiles
    /\ u \in profiles => status[u] = "live"

(* What a password_reset_tokens row is like.                               *)
Token(t) ==
    /\ resetToken[t] # "unminted" => req[t].op \in Mints /\ req[t].pc # "idle"
    /\ resetToken[t] \in {"open", "expired"}
       => /\ req[t].user \in Users
          /\ status[req[t].user] = "live"
          /\ email[req[t].user] # Null

UniqueEmail == \A u, v \in Users : u # v /\ email[u] # Null => email[u] # email[v]

Inv == /\ TypeOK
       /\ \A r \in Requests : InFlight(r)
       /\ \A u \in Users : Row(u)
       /\ \A t \in Requests : Token(t)
       /\ UniqueEmail

-----------------------------------------------------------------------------
(* What the two ways a request moves on do to the request table.           *)
Moves(r) == /\ req' \in [Requests -> Request]
            /\ earlier' \in [Requests -> SUBSET Requests]
            /\ \A q \in Requests \ {r} : req'[q] = req[q]

LEMMA GotoEffect ==
    ASSUME TypeOK, NEW r \in Requests, NEW pc \in Steps \cup Final, Goto(r, pc)
    PROVE  /\ Moves(r)
           /\ req'[r].pc = pc
           /\ req'[r].op = req[r].op
           /\ req'[r].user = req[r].user
           /\ req'[r].mail = req[r].mail
BY DEF TypeOK, Goto, Request, Moves

LEMMA BeginEffect ==
    ASSUME TypeOK, NEW r \in Requests, NEW op \in Ops, NEW pc \in Steps \cup Final,
           NEW u \in Users \cup {Null}, NEW e \in Raw \cup {Null},
           NEW t \in Requests \cup {Null}, Begin(r, op, pc, u, e, t)
    PROVE  /\ Moves(r)
           /\ req[r].pc = "idle"
           /\ req'[r].pc = pc
           /\ req'[r].op = op
           /\ req'[r].user = u
           /\ req'[r].mail = e
BY DEF TypeOK, Begin, Request, Moves

(* What every step does to the tables, as far as a request in flight can   *)
(* tell: an id handed out stays so, a deleted user stays deleted, and a    *)
(* living one keeps having an address, a profile and a verified mark.      *)
Grows ==
    \A u \in Users : status[u] # "free" =>
        /\ status'[u] # "free"
        /\ status'[u] = "live" => /\ status[u] = "live"
                                  /\ email[u] # Null => email'[u] # Null
                                  /\ u \in profiles => u \in profiles'
                                  /\ u \in verified => u \in verified'
        /\ password[u] # "random" => password'[u] # "random"

LEMMA OthersInFlight ==
    ASSUME Inv, NEW r \in Requests, Moves(r), Grows, InFlight(r)'
    PROVE  \A q \in Requests : InFlight(q)'
<1> SUFFICES ASSUME NEW q \in Requests, q # r PROVE InFlight(q)'
  OBVIOUS
<1>1. req'[q] = req[q] /\ InFlight(q)
  BY DEF Inv, Moves
<1>2. CASE req[q].pc \in Steps \ {"user"}
  <2> DEFINE u == req[q].user
  <2>1. u \in Users
    BY <1>1, <1>2 DEF InFlight
  <2>2. CASE status[u] = "free"
    BY <1>1, <1>2, <2>1, <2>2 DEF InFlight, At, Mints
  <2>3. CASE status[u] # "free"
    <3>1. /\ status'[u] # "free"
          /\ status'[u] = "live" => /\ status[u] = "live"
                                    /\ email[u] # Null => email'[u] # Null
                                    /\ u \in profiles => u \in profiles'
                                    /\ u \in verified => u \in verified'
          /\ password[u] # "random" => password'[u] # "random"
      BY <2>1, <2>3 DEF Grows
    <3> QED BY <1>1, <1>2, <2>1, <3>1 DEF InFlight, At, Addressed
  <2> QED BY <2>2, <2>3
<1>3. CASE req[q].pc \notin Steps \ {"user"}
  BY <1>1, <1>3 DEF InFlight, At, Steps
<1> QED BY <1>2, <1>3

(* A request moving on for the same user leaves the tokens table valid if  *)
(* no row appears and the owners of the open ones keep their address.      *)
LEMMA TokensKeep ==
    ASSUME Inv, NEW r \in Requests, Moves(r), req'[r].pc # "idle",
           \/ req[r].pc = "idle"
           \/ req'[r].op = req[r].op /\ req'[r].user = req[r].user
           \/ req[r].op \notin Mints /\ req'[r].op = req[r].op,
           \A t \in Requests :
               /\ resetToken'[t] # "unminted" => resetToken[t] # "unminted"
               /\ resetToken'[t] \in {"open", "expired"}
                  => /\ resetToken[t] \in {"open", "expired"}
                     /\ status'[req[t].user] = "live"
                     /\ email'[req[t].user] # Null
    PROVE  \A t \in Requests : Token(t)'
<1> SUFFICES ASSUME NEW t \in Requests PROVE Token(t)'
  OBVIOUS
<1>1. Token(t) /\ (t # r => req'[t] = req[t])
  BY DEF Inv, Moves
<1> QED BY <1>1 DEF Token

-----------------------------------------------------------------------------
(* Steps that only move the request on.                                    *)

LEMMA LocalStep ==
    ASSUME Inv, NEW r \in Requests, Moves(r), UNCHANGED <<users, roster, tokens>>,
           InFlight(r)', req'[r].pc # "idle",
           \/ req[r].pc = "idle"
           \/ req'[r].op = req[r].op /\ req'[r].user = req[r].user
    PROVE  Inv'
<1>1. UNCHANGED <<status, email, password, verified, profiles, members,
                  resetToken, verifyToken>>
  BY DEF users, roster, tokens
<1>2. TypeOK'
  BY <1>1 DEF Inv, TypeOK, Moves
<1>3. \A q \in Requests : InFlight(q)'
  BY <1>1, OthersInFlight DEF Grows
<1>4. \A u \in Users : Row(u)'
  BY <1>1 DEF Inv, Row
<1>5. \A t \in Requests : Token(t)'
  <2>1. \A t \in Requests :
            resetToken[t] \in {"open", "expired"}
            => status[req[t].user] = "live" /\ email[req[t].user] # Null
    BY DEF Inv, Token
  <2> QED BY <1>1, <2>1, TokensKeep
<1>6. UniqueEmail'
  BY <1>1 DEF Inv, UniqueEmail
<1> QED BY <1>2, <1>3, <1>4, <1>5, <1>6 DEF Inv

(* A handler's first statement.                                            *)
LEMMA BeginStep ==
    ASSUME Inv, NEW r \in Requests, NEW op \in Ops, NEW pc \in Steps \cup Final,
           NEW u \in Users \cup {Null}, NEW e \in Raw \cup {Null},
           NEW t \in Requests \cup {Null}, Begin(r, op, pc, u, e, t),
           UNCHANGED <<users, roster, tokens>>,
           pc \in Steps \ {"user"}
              => u \in Users /\ (op = "update" \/ status[u] # "free"),
           e # Null => Norm[e] = e,
           op \in {"claim", "update"} => e # Null,
           (op \in Mints /\ pc = "delete") \/ (op = "reset" /\ pc = "update")
              => Addressed(u),
           op = "claim" /\ pc \in Steps => password[u] # "random",
           pc \notin {"insert", "class", "spend"}
    PROVE  Inv'
<1>1. /\ Moves(r) /\ req[r].pc = "idle" /\ req'[r].pc = pc /\ req'[r].op = op
      /\ req'[r].user = u /\ req'[r].mail = e
  BY BeginEffect DEF Inv
<1>2. pc # "idle" /\ UNCHANGED <<status, email, password>>
  BY DEF Steps, Final, users
<1>3. InFlight(r)'
  BY <1>1, <1>2 DEF InFlight, At, Addressed
<1> QED BY <1>1, <1>2, <1>3, LocalStep

LEMMA ForgotLookupKeeps ==
    ASSUME Inv, NEW r \in Requests, ForgotLookup(r)  PROVE Inv'
<1> USE RawAssumption, NullAssumption
<1>1. PICK raw \in Raw \ {Empty} :
        \/ \E u \in Holders(Norm[raw]) :
               Begin(r, "forgot", "delete", u, Norm[raw], Null)
        \/ Begin(r, "forgot", "refused", Null, Norm[raw], Null)
  BY DEF ForgotLookup
<1>2. Norm[raw] \in Raw /\ Norm[Norm[raw]] = Norm[raw] /\ Norm[raw] # Null
  BY <1>1
<1>3. UNCHANGED <<users, roster, tokens>>
  BY DEF ForgotLookup
<1>4. ASSUME NEW u \in Holders(Norm[raw]),
             Begin(r, "forgot", "delete", u, Norm[raw], Null)
      PROVE  Inv'
  <2>1. u \in Users /\ email[u] # Null /\ Row(u)
    BY <1>2, <1>4 DEF Holders, Inv
  <2>2. status[u] # "free" /\ Addressed(u)
    BY <2>1 DEF Row, Addressed
  <2> QED BY <1>2, <1>3, <1>4, <2>1, <2>2, BeginStep DEF Ops, Steps
<1>5. CASE Begin(r, "forgot", "refused", Null, Norm[raw], Null)
  BY <1>2, <1>3, <1>5, BeginStep DEF Ops, Steps, Final
<1> QED BY <1>1, <1>4, <1>5

LEMMA LinkLookupKeeps ==
    ASSUME Inv, NEW r \in Requests, LinkLookup(r)  PROVE Inv'
<1> DEFINE pc(u) == IF status[u] = "live" /\ email[u] \notin {Null, Empty}
                      THEN "delete" ELSE "refused"
<1>1. PICK u \in Users : Begin(r, "link", pc(u), u, Null, Null)
  BY DEF LinkLookup
<1>2. UNCHANGED <<users, roster, tokens>>
  BY DEF LinkLookup
<1>3. pc(u) = "delete" => status[u] = "live" /\ email[u] # Null
  OBVIOUS
<1>4. pc(u) \in {"delete", "refused"}
  OBVIOUS
<1> HIDE DEF pc
<1> QED BY <1>1, <1>2, <1>3, <1>4, BeginStep DEF Ops, Steps, Final, Addressed

LEMMA ResetLookupKeeps ==
    ASSUME Inv, NEW r \in Requests, ResetLookup(r)  PROVE Inv'
<1> DEFINE pc(t) == IF resetToken[t] = "open" THEN "update" ELSE "refused"
<1>1. PICK t \in Requests : Begin(r, "reset", pc(t), req[t].user, Null, t)
  BY DEF ResetLookup
<1>2. UNCHANGED <<users, roster, tokens>>
  BY DEF ResetLookup
<1> DEFINE u == req[t].user
<1>3. pc(t) = "update" => u \in Users /\ status[u] # "free" /\ Addressed(u)
  BY DEF Inv, Token, Addressed
<1>4. pc(t) \in {"update", "refused"} /\ u \in Users \cup {Null}
  BY DEF Inv, TypeOK, Request
<1>5. Begin(r, "reset", pc(t), u, Null, t)
  BY <1>1
<1> HIDE DEF pc, u
<1> QED BY <1>2, <1>3, <1>4, <1>5, BeginStep DEF Ops, Mints, Steps, Final

LEMMA VerifyLookupKeeps ==
    ASSUME Inv, NEW r \in Requests, VerifyLookup(r)  PROVE Inv'
<1>1. PICK u \in Users : verifyToken[u] # "none" /\
        \/ Begin(r, "verify", "mark", u, Null, Null)
        \/ Begin(r, "verify", "refused", u, Null, Null)
  BY DEF VerifyLookup
<1>2. UNCHANGED <<users, roster, tokens>>
  BY DEF VerifyLookup
<1>3. status[u] # "free"
  BY <1>1 DEF Inv, Row
<1> QED BY <1>1, <1>2, <1>3, BeginStep DEF Ops, Mints, Steps, Final

LEMMA ClaimLookupKeeps ==
    ASSUME Inv, NEW r \in Requests, ClaimLookup(r)  PROVE Inv'
<1> DEFINE pc(u) == IF Unclaimed(u) THEN "taken" ELSE "refused"
<1>1. PICK u \in Users, raw \in Raw \ {Empty} :
        Begin(r, "claim", pc(u), u, Norm[raw], Null)
  BY DEF ClaimLookup
<1>2. UNCHANGED <<users, roster, tokens>>
  BY DEF ClaimLookup
<1>3. pc(u) = "taken" => status[u] = "live" /\ password[u] # "random"
  BY DEF Unclaimed, Inv, Row
<1>4. pc(u) \in {"taken", "refused"}
  OBVIOUS
<1>5. Norm[raw] \in Raw /\ Norm[Norm[raw]] = Norm[raw] /\ Norm[raw] # Null
  BY RawAssumption, NullAssumption
<1> HIDE DEF pc
<1> QED BY <1>1, <1>2, <1>3, <1>4, <1>5, BeginStep DEF Ops, Mints, Steps, Final

LEMMA UpdateTakenKeeps ==
    ASSUME Inv, NEW r \in Requests, UpdateTaken(r)  PROVE Inv'
<1> DEFINE pc(u, raw) == IF Holders(Norm[raw]) \ {u} # {} THEN "refused"
                                                          ELSE "write"
<1>1. PICK u \in Users, raw \in Raw \ {Empty} :
        Begin(r, "update", pc(u, raw), u, Norm[raw], Null)
  BY DEF UpdateTaken
<1>2. UNCHANGED <<users, roster, tokens>>
  BY DEF UpdateTaken
<1>3. pc(u, raw) \in {"write", "refused"}
  OBVIOUS
<1>4. Norm[raw] \in Raw /\ Norm[Norm[raw]] = Norm[raw] /\ Norm[raw] # Null
  BY RawAssumption, NullAssumption
<1> HIDE DEF pc
<1> QED BY <1>1, <1>2, <1>3, <1>4, BeginStep DEF Ops, Mints, Steps, Final

LEMMA CreateLookupKeeps ==
    ASSUME Inv, NEW r \in Requests, CreateLookup(r)  PROVE Inv'
<1> DEFINE pc(e) == IF e # Null /\ Holders(e) # {} THEN "refused" ELSE "user"
<1>1. PICK raw \in Raw \cup {Null} :
        Begin(r, "create", pc(RosterMail(raw)), Null, RosterMail(raw), Null)
  BY DEF CreateLookup
<1>2. UNCHANGED <<users, roster, tokens>>
  BY DEF CreateLookup
<1> DEFINE e == RosterMail(raw)
<1>3. e \in Raw \cup {Null} /\ (e # Null => Norm[e] = e)
  BY RawAssumption, NullAssumption DEF RosterMail
<1>4. pc(e) \in {"user", "refused"}
  OBVIOUS
<1> HIDE DEF pc, e
<1> QED BY <1>1, <1>2, <1>3, <1>4, BeginStep DEF e, Ops, Mints, Steps, Final

LEMMA DeleteLookupKeeps ==
    ASSUME Inv, NEW r \in Requests, DeleteLookup(r)  PROVE Inv'
<1> DEFINE pc(u) == IF status[u] = "live" THEN "erase" ELSE "refused"
<1>1. PICK u \in Users : Begin(r, "delete", pc(u), u, Null, Null)
  BY DEF DeleteLookup
<1>2. UNCHANGED <<users, roster, tokens>>
  BY DEF DeleteLookup
<1>3. pc(u) \in {"erase", "refused"} /\ (pc(u) = "erase" => status[u] = "live")
  OBVIOUS
<1> HIDE DEF pc
<1> QED BY <1>1, <1>2, <1>3, BeginStep DEF Ops, Mints, Steps, Final

(* Going on without touching a table.                                      *)
LEMMA GotoStep ==
    ASSUME Inv, NEW r \in Requests, NEW pc \in Steps \cup Final, Goto(r, pc),
           req[r].pc \in Steps,
           pc \in Final \/ (req[r].op = "claim" /\ pc = "write"
                                /\ req[r].pc = "taken"),
           UNCHANGED <<users, roster, tokens>>
    PROVE  Inv'
<1>1. /\ Moves(r) /\ req'[r].pc = pc /\ req'[r].op = req[r].op
      /\ req'[r].user = req[r].user /\ req'[r].mail = req[r].mail
  BY GotoEffect DEF Inv
<1>2. pc # "idle" /\ UNCHANGED <<status, password>>
  BY DEF Steps, Final, users
<1>3. InFlight(r)'
  BY <1>1, <1>2 DEF Inv, InFlight, At, Addressed, Steps, Final, Mints
<1> QED BY <1>1, <1>2, <1>3, LocalStep

LEMMA QuietKeeps ==
    ASSUME Inv, NEW r \in Requests, NEW op \in Ops,
           MintDeliver(r, op) \/ ClaimTaken(r) \/ Reply(r, op) \/ Fail(r)
    PROVE  Inv'
<1> USE DEF Steps, Final
<1>1. CASE MintDeliver(r, op)
  BY <1>1, GotoStep DEF MintDeliver, At
<1>2. CASE ClaimTaken(r)
  BY <1>2, GotoStep DEF ClaimTaken, At
<1>3. CASE Reply(r, op)
  BY <1>3, GotoStep DEF Reply, At
<1>4. CASE Fail(r)
  BY <1>4, GotoStep DEF Fail
<1> QED BY <1>1, <1>2, <1>3, <1>4

-----------------------------------------------------------------------------
(* The steps that write a table.                                           *)

(* A request moving on from one step to the next, with its local facts     *)
(* re-established.                                                         *)
LEMMA MovesOn ==
    ASSUME Inv, NEW r \in Requests, NEW pc \in Steps \cup Final, Goto(r, pc),
           req[r].pc \in Steps \ {"user"}, Grows,
           pc \in {"write", "user", "profile"} => pc = req[r].pc,
           pc \notin {"delete", "update"},
           req[r].op \in Mints /\ pc = "insert" => req[r].pc = "delete",
           pc \in {"class", "spend", "insert"} => InFlight(r)'
    PROVE  /\ Moves(r)
           /\ \A q \in Requests : InFlight(q)'
           /\ req'[r].pc # "idle"
           /\ req'[r].op = req[r].op /\ req'[r].user = req[r].user
<1>1. /\ Moves(r) /\ req'[r].pc = pc /\ req'[r].op = req[r].op
      /\ req'[r].user = req[r].user /\ req'[r].mail = req[r].mail
  BY GotoEffect DEF Inv
<1>2. req[r].user \in Users /\ InFlight(r)
  BY DEF Inv, InFlight
<1>3. pc \notin {"class", "spend", "insert"} => InFlight(r)'
  BY <1>1, <1>2 DEF InFlight, At, Grows, Steps, Final
<1> QED BY <1>1, <1>3, OthersInFlight DEF Steps, Final

(* Removing links keeps every token valid.                                 *)
LEMMA DropLinksKeeps ==
    ASSUME Inv, NEW u, DropLinks(u)
    PROVE  /\ resetToken' \in [Requests -> {"unminted", "open", "expired", "deleted"}]
           /\ \A t \in Requests :
                 /\ resetToken'[t] # "unminted" => resetToken[t] # "unminted"
                 /\ resetToken'[t] \in {"open", "expired"}
                    => /\ resetToken[t] \in {"open", "expired"}
                       /\ req[t].user # u
                       /\ status[req[t].user] = "live"
                       /\ email[req[t].user] # Null
                       /\ req[t].user \in Users
<1>1. TypeOK /\ \A t \in Requests : Token(t)
  BY DEF Inv
<1>2. resetToken' \in [Requests -> {"unminted", "open", "expired", "deleted"}]
  BY <1>1 DEF DropLinks, TypeOK
<1>3. ASSUME NEW t \in Requests
      PROVE  /\ resetToken'[t] # "unminted" => resetToken[t] # "unminted"
             /\ resetToken'[t] \in {"open", "expired"}
                => /\ resetToken[t] \in {"open", "expired"}
                   /\ req[t].user # u
  BY <1>1 DEF DropLinks, TypeOK, LinksOf
<1> QED BY <1>1, <1>2, <1>3 DEF Token

LEMMA MintDeleteKeeps ==
    ASSUME Inv, NEW r \in Requests, NEW op \in Mints, MintDelete(r, op)
    PROVE  Inv'
<1>1. /\ req[r].op = op /\ req[r].pc = "delete" /\ Goto(r, "insert")
      /\ UNCHANGED <<status, email, password, verified, profiles, members,
                     verifyToken>>
  BY DEF MintDelete, At, users, roster
<1>2. Grows
  BY <1>1 DEF Grows
<1>3. InFlight(r)'
  <2>1. /\ req'[r].pc = "insert" /\ req'[r].op = op
        /\ req'[r].user = req[r].user /\ req'[r].mail = req[r].mail
    BY <1>1, GotoEffect DEF Inv, Steps
  <2>2. InFlight(r)
    BY DEF Inv
  <2> QED BY <1>1, <2>1, <2>2 DEF InFlight, At, Mints, Addressed, Steps
<1>4. /\ Moves(r) /\ req'[r].pc # "idle" /\ req'[r].op = req[r].op
      /\ req'[r].user = req[r].user /\ \A q \in Requests : InFlight(q)'
  BY <1>1, <1>2, <1>3, MovesOn DEF Steps
<1>5. DropLinks(req[r].user)
  BY DEF MintDelete
<1>6. \A t \in Requests : Token(t)'
  BY <1>1, <1>4, <1>5, DropLinksKeeps, TokensKeep
<1>7. TypeOK'
  BY <1>1, <1>4, <1>5, DropLinksKeeps DEF Inv, TypeOK, Moves
<1>8. (\A u \in Users : Row(u)') /\ UniqueEmail'
  BY <1>1 DEF Inv, Row, UniqueEmail
<1> QED BY <1>4, <1>6, <1>7, <1>8 DEF Inv

LEMMA ResetSweepKeeps ==
    ASSUME Inv, NEW r \in Requests, ResetSweep(r)  PROVE Inv'
<1>1. /\ req[r].op = "reset" /\ req[r].pc = "sweep" /\ Goto(r, "ok")
      /\ UNCHANGED <<status, email, password, verified, profiles, members,
                     verifyToken>>
  BY DEF ResetSweep, At, users, roster
<1>2. Grows
  BY <1>1 DEF Grows
<1>4. /\ Moves(r) /\ req'[r].pc # "idle" /\ req'[r].op = req[r].op
      /\ req'[r].user = req[r].user /\ \A q \in Requests : InFlight(q)'
  BY <1>1, <1>2, MovesOn DEF Steps, Final, Mints
<1>5. DropLinks(req[r].user)
  BY DEF ResetSweep
<1>6. \A t \in Requests : Token(t)'
  BY <1>1, <1>4, <1>5, DropLinksKeeps, TokensKeep
<1>7. TypeOK'
  BY <1>1, <1>4, <1>5, DropLinksKeeps DEF Inv, TypeOK, Moves
<1>8. (\A u \in Users : Row(u)') /\ UniqueEmail'
  BY <1>1 DEF Inv, Row, UniqueEmail
<1> QED BY <1>4, <1>6, <1>7, <1>8 DEF Inv

LEMMA MintInsertKeeps ==
    ASSUME Inv, NEW r \in Requests, NEW op \in Mints, MintInsert(r, op)
    PROVE  Inv'
<1>1. /\ req[r].op = op /\ req[r].pc = "insert"
      /\ UNCHANGED <<status, email, password, verified, profiles, members,
                     verifyToken>>
  BY DEF MintInsert, At, users, roster
<1>2. CASE status[req[r].user] # "live"
  BY <1>1, <1>2, GotoStep DEF MintInsert, Steps, Final, users, roster, tokens
<1>3. CASE status[req[r].user] = "live"
  <2>1. /\ Goto(r, "deliver")
        /\ resetToken' = [resetToken EXCEPT ![r] = "open"]
    BY <1>3 DEF MintInsert
  <2>2. Grows
    BY <1>1 DEF Grows
  <2>3. /\ Moves(r) /\ req'[r].pc # "idle" /\ req'[r].op = req[r].op
        /\ req'[r].user = req[r].user /\ \A q \in Requests : InFlight(q)'
    BY <1>1, <2>1, <2>2, MovesOn DEF Steps
  <2>4. req[r].user \in Users /\ email[req[r].user] # Null
    BY <1>1, <1>3 DEF Inv, InFlight, Steps, Addressed
  <2>5. Token(r)'
    BY <1>1, <1>3, <2>1, <2>3, <2>4 DEF Token
  <2>6. ASSUME NEW t \in Requests, t # r PROVE Token(t)'
    BY <1>1, <2>1, <2>3, <2>6 DEF Inv, Token, Moves, TypeOK
  <2>7. TypeOK'
    BY <1>1, <2>1, <2>3 DEF Inv, TypeOK, Moves
  <2>8. (\A u \in Users : Row(u)') /\ UniqueEmail'
    BY <1>1 DEF Inv, Row, UniqueEmail
  <2> QED BY <2>3, <2>5, <2>6, <2>7, <2>8 DEF Inv
<1> QED BY <1>2, <1>3

LEMMA ExpireKeeps ==
    ASSUME Inv, NEW r \in Requests, Expire(r)  PROVE Inv'
<1>1. /\ resetToken[r] = "open"
      /\ resetToken' = [resetToken EXCEPT ![r] = "expired"]
      /\ UNCHANGED <<status, email, password, verified, profiles, members,
                     verifyToken, req, earlier>>
  BY DEF Expire, users, roster
<1>2. TypeOK' /\ UniqueEmail'
  BY <1>1 DEF Inv, TypeOK, UniqueEmail
<1>3. ASSUME NEW q \in Requests PROVE InFlight(q)' /\ Token(q)'
  <2>1. InFlight(q)'
    BY <1>1 DEF Inv, InFlight, At, Addressed
  <2>2. Token(q)'
    BY <1>1 DEF Inv, Token, TypeOK
  <2> QED BY <2>1, <2>2
<1>4. ASSUME NEW u \in Users PROVE Row(u)'
  BY <1>1 DEF Inv, Row
<1> QED BY <1>2, <1>3, <1>4 DEF Inv

(* While no link is dropped, the tokens stay valid if every user with an   *)
(* address stays one.                                                      *)
LEMMA TokensSame ==
    ASSUME Inv, NEW r \in Requests, Moves(r), req'[r].pc # "idle",
           \/ req'[r].op = req[r].op /\ req'[r].user = req[r].user
           \/ req[r].op \notin Mints /\ req'[r].op = req[r].op,
           UNCHANGED resetToken,
           \A u \in Users : status[u] = "live" /\ email[u] # Null
                               => status'[u] = "live" /\ email'[u] # Null
    PROVE  \A t \in Requests : Token(t)'
<1>1. \A t \in Requests :
         resetToken[t] \in {"open", "expired"}
         => /\ status'[req[t].user] = "live"
            /\ email'[req[t].user] # Null
  BY DEF Inv, Token
<1> QED BY <1>1, TokensKeep

LEMMA ResetUpdateKeeps ==
    ASSUME Inv, NEW r \in Requests, ResetUpdate(r)  PROVE Inv'
<1> DEFINE u == req[r].user
<1>1. /\ req[r].op = "reset" /\ req[r].pc = "update" /\ Goto(r, "sweep")
      /\ password' = [password EXCEPT ![u] = IF status[u] = "live"
                                               THEN "chosen" ELSE @]
      /\ UNCHANGED <<status, email, verified, profiles, members,
                     resetToken, verifyToken>>
  BY DEF ResetUpdate, At, roster, tokens
<1>2. u \in Users /\ Addressed(u)
  BY <1>1 DEF Inv, InFlight, At, Steps
<1>3. Grows
  BY <1>1 DEF Grows
<1>4. /\ Moves(r) /\ req'[r].pc # "idle" /\ req'[r].op = req[r].op
      /\ req'[r].user = req[r].user /\ \A q \in Requests : InFlight(q)'
  BY <1>1, <1>3, MovesOn DEF Steps, Mints
<1>5. \A t \in Requests : Token(t)'
  BY <1>1, <1>4, TokensSame
<1>6. TypeOK' /\ UniqueEmail'
  BY <1>1, <1>4 DEF Inv, TypeOK, Moves, UniqueEmail
<1>7. ASSUME NEW v \in Users PROVE Row(v)'
  <2>1. Row(v)
    BY DEF Inv
  <2>2. CASE v = u
    BY <1>1, <1>2, <2>1, <2>2 DEF Row, Addressed, Inv, TypeOK
  <2>3. CASE v # u
    BY <1>1, <2>1, <2>3 DEF Row, Inv, TypeOK
  <2> QED BY <2>2, <2>3
<1> QED BY <1>4, <1>5, <1>6, <1>7 DEF Inv

LEMMA VerifyMarkKeeps ==
    ASSUME Inv, NEW r \in Requests, VerifyMark(r)  PROVE Inv'
<1> DEFINE u == req[r].user
<1>1. /\ req[r].op = "verify" /\ req[r].pc = "mark" /\ Goto(r, "spend")
      /\ verified' = IF status[u] = "live" THEN verified \cup {u} ELSE verified
      /\ UNCHANGED <<status, email, password, profiles, members,
                     resetToken, verifyToken>>
  BY DEF VerifyMark, At, roster, tokens
<1>2. u \in Users /\ InFlight(r)
  BY <1>1 DEF Inv, InFlight, Steps
<1>3. Grows
  BY <1>1 DEF Grows
<1>4. InFlight(r)'
  <2>1. /\ req'[r].pc = "spend" /\ req'[r].op = "verify"
        /\ req'[r].user = u /\ req'[r].mail = req[r].mail
    BY <1>1, GotoEffect DEF Inv, Steps
  <2> QED BY <1>1, <1>2, <2>1 DEF InFlight, At, Mints, Steps
<1>5. /\ Moves(r) /\ req'[r].pc # "idle" /\ req'[r].op = req[r].op
      /\ req'[r].user = req[r].user /\ \A q \in Requests : InFlight(q)'
  BY <1>1, <1>3, <1>4, MovesOn DEF Steps, Mints
<1>6. \A t \in Requests : Token(t)'
  BY <1>1, <1>5, TokensSame
<1>7. TypeOK' /\ UniqueEmail'
  BY <1>1, <1>2, <1>5 DEF Inv, TypeOK, Moves, UniqueEmail
<1>8. \A v \in Users : Row(v)'
  BY <1>1 DEF Inv, Row
<1> QED BY <1>5, <1>6, <1>7, <1>8 DEF Inv

LEMMA VerifySpendKeeps ==
    ASSUME Inv, NEW r \in Requests, VerifySpend(r)  PROVE Inv'
<1> DEFINE u == req[r].user
<1>1. /\ req[r].op = "verify" /\ req[r].pc = "spend" /\ Goto(r, "ok")
      /\ verifyToken' = [verifyToken EXCEPT
                           ![u] = IF @ = "none" THEN @ ELSE "used"]
      /\ UNCHANGED <<status, email, password, verified, profiles, members,
                     resetToken>>
  BY DEF VerifySpend, At, users, roster
<1>2. u \in Users /\ (status[u] = "live" => u \in verified)
  BY <1>1 DEF Inv, InFlight, At, Steps
<1>3. Grows
  BY <1>1 DEF Grows
<1>4. /\ Moves(r) /\ req'[r].pc # "idle" /\ req'[r].op = req[r].op
      /\ req'[r].user = req[r].user /\ \A q \in Requests : InFlight(q)'
  BY <1>1, <1>3, MovesOn DEF Steps, Final, Mints
<1>5. \A t \in Requests : Token(t)'
  BY <1>1, <1>4, TokensSame
<1>6. TypeOK' /\ UniqueEmail'
  BY <1>1, <1>4 DEF Inv, TypeOK, Moves, UniqueEmail
<1>7. ASSUME NEW v \in Users PROVE Row(v)'
  <2>1. Row(v)
    BY DEF Inv
  <2>2. CASE v = u
    BY <1>1, <1>2, <2>1, <2>2 DEF Row, Inv, TypeOK
  <2>3. CASE v # u
    BY <1>1, <2>1, <2>3 DEF Row, Inv, TypeOK
  <2> QED BY <2>2, <2>3
<1> QED BY <1>4, <1>5, <1>6, <1>7 DEF Inv

LEMMA ClaimWriteKeeps ==
    ASSUME Inv, NEW r \in Requests, ClaimWrite(r)  PROVE Inv'
<1> DEFINE u == req[r].user
           e == req[r].mail
<1>1. /\ req[r].op = "claim" /\ req[r].pc = "write"
      /\ UNCHANGED <<status, verified, profiles, members,
                     resetToken, verifyToken>>
  BY DEF ClaimWrite, At, roster, tokens
<1>2. CASE ~(status[u] = "live" /\ ~Violates(u, e))
  BY <1>1, <1>2, GotoStep DEF ClaimWrite, Steps, Final, users, roster, tokens
<1>3. CASE status[u] = "live" /\ ~Violates(u, e)
  <2>1. /\ email' = [email EXCEPT ![u] = e]
        /\ password' = [password EXCEPT ![u] = "chosen"]
        /\ Goto(r, "reply")
    BY <1>3 DEF ClaimWrite
  <2>2. u \in Users /\ e \in Raw /\ Norm[e] = e /\ e # Null
    BY <1>1 DEF Inv, TypeOK, Request, InFlight, Steps
  <2>3. Grows
    BY <1>1, <2>1, <2>2 DEF Grows, Inv, TypeOK
  <2>4. /\ Moves(r) /\ req'[r].pc # "idle" /\ req'[r].op = req[r].op
        /\ req'[r].user = req[r].user /\ \A q \in Requests : InFlight(q)'
    BY <1>1, <2>1, <2>3, MovesOn DEF Steps, Mints
  <2>5. \A t \in Requests : Token(t)'
    BY <1>1, <2>1, <2>2, <2>4, TokensSame DEF Inv, TypeOK
  <2>6. TypeOK'
    BY <1>1, <2>1, <2>2, <2>4 DEF Inv, TypeOK, Moves
  <2>7. UniqueEmail'
    BY <1>3, <2>1, <2>2 DEF Inv, TypeOK, UniqueEmail, Violates, Holders
  <2>8. ASSUME NEW v \in Users PROVE Row(v)'
    <3>1. Row(v)
      BY DEF Inv
    <3>2. CASE v = u
      BY <1>1, <1>3, <2>1, <2>2, <3>1, <3>2 DEF Row, Inv, TypeOK
    <3>3. CASE v # u
      BY <1>1, <2>1, <3>1, <3>3 DEF Row, Inv, TypeOK
    <3> QED BY <3>2, <3>3
  <2> QED BY <2>4, <2>5, <2>6, <2>7, <2>8 DEF Inv
<1> QED BY <1>2, <1>3

LEMMA UpdateWriteKeeps ==
    ASSUME Inv, NEW r \in Requests, UpdateWrite(r)  PROVE Inv'
<1> DEFINE u == req[r].user
           e == req[r].mail
<1>1. /\ req[r].op = "update" /\ req[r].pc = "write"
      /\ UNCHANGED <<status, password, verified, profiles, members,
                     resetToken, verifyToken>>
  BY DEF UpdateWrite, At, roster, tokens
<1>2. CASE status[u] = "live" /\ Violates(u, e)
  BY <1>1, <1>2, GotoStep DEF UpdateWrite, Steps, Final, users, roster, tokens
<1>3. CASE ~(status[u] = "live" /\ Violates(u, e))
  <2>1. /\ email' = [email EXCEPT ![u] = IF status[u] = "live" THEN e ELSE @]
        /\ Goto(r, "reply")
    BY <1>3 DEF UpdateWrite
  <2>2. u \in Users /\ e \in Raw /\ Norm[e] = e /\ e # Null
    BY <1>1 DEF Inv, TypeOK, Request, InFlight, Steps
  <2>3. Grows
    BY <1>1, <2>1, <2>2 DEF Grows, Inv, TypeOK
  <2>4. /\ Moves(r) /\ req'[r].pc # "idle" /\ req'[r].op = req[r].op
        /\ req'[r].user = req[r].user /\ \A q \in Requests : InFlight(q)'
    BY <1>1, <2>1, <2>3, MovesOn DEF Steps, Mints
  <2>5. \A t \in Requests : Token(t)'
    BY <1>1, <2>1, <2>2, <2>4, TokensSame DEF Inv, TypeOK
  <2>6. TypeOK'
    BY <1>1, <2>1, <2>2, <2>4 DEF Inv, TypeOK, Moves
  <2>7. UniqueEmail'
    BY <1>3, <2>1, <2>2 DEF Inv, TypeOK, UniqueEmail, Violates, Holders
  <2>8. ASSUME NEW v \in Users PROVE Row(v)'
    <3>1. Row(v)
      BY DEF Inv
    <3>2. CASE v = u
      BY <1>1, <2>1, <2>2, <3>1, <3>2 DEF Row, Inv, TypeOK
    <3>3. CASE v # u
      BY <1>1, <2>1, <3>1, <3>3 DEF Row, Inv, TypeOK
    <3> QED BY <3>2, <3>3
  <2> QED BY <2>4, <2>5, <2>6, <2>7, <2>8 DEF Inv
<1> QED BY <1>2, <1>3

LEMMA CreateUserKeeps ==
    ASSUME Inv, NEW r \in Requests, CreateUser(r)  PROVE Inv'
<1> DEFINE e == req[r].mail
<1>1. /\ req[r].op = "create" /\ req[r].pc = "user"
      /\ UNCHANGED <<verified, profiles, members, resetToken, verifyToken>>
  BY DEF CreateUser, At, roster, tokens
<1>2. CASE Goto(r, "failed") /\ UNCHANGED <<status, email, password>>
  BY <1>1, <1>2, GotoStep DEF Steps, Final, users, roster, tokens
<1>3. ASSUME NEW u \in Users, status[u] = "free", ~Violates(u, e),
             status' = [status EXCEPT ![u] = "live"],
             email' = [email EXCEPT ![u] = e],
             password' = [password EXCEPT
                            ![u] = IF e = Null THEN "none" ELSE "random"],
             req' = [req EXCEPT ![r].user = u, ![r].pc = "profile"],
             UNCHANGED earlier
      PROVE  Inv'
  <2>1. e \in Raw \cup {Null} /\ (e # Null => Norm[e] = e)
    BY DEF Inv, TypeOK, Request, InFlight
  <2>2. /\ Moves(r) /\ req'[r].pc = "profile" /\ req'[r].op = "create"
        /\ req'[r].user = u /\ req'[r].mail = e
    BY <1>1, <1>3 DEF Inv, TypeOK, Request, Moves, Steps
  <2>3. Grows
    BY <1>1, <1>3 DEF Grows, Inv, TypeOK
  <2>4. InFlight(r)'
    BY <1>1, <1>3, <2>1, <2>2 DEF InFlight, At, Mints, Inv, TypeOK
  <2>5. \A q \in Requests : InFlight(q)'
    BY <2>2, <2>3, <2>4, OthersInFlight
  <2>6. \A t \in Requests : Token(t)'
    BY <1>1, <1>3, <2>2, TokensSame DEF Inv, TypeOK, Mints
  <2>7. TypeOK'
    BY <1>1, <1>3, <2>1, <2>2 DEF Inv, TypeOK, Moves
  <2>8. UniqueEmail'
    BY <1>3, <2>1 DEF Inv, TypeOK, UniqueEmail, Violates, Holders
  <2>9. ASSUME NEW v \in Users PROVE Row(v)'
    <3>1. Row(v)
      BY DEF Inv
    <3>2. CASE v = u
      BY <1>1, <1>3, <2>1, <3>1, <3>2 DEF Row, Inv, TypeOK
    <3>3. CASE v # u
      BY <1>1, <1>3, <3>1, <3>3 DEF Row, Inv, TypeOK
    <3> QED BY <3>2, <3>3
  <2> QED BY <2>5, <2>6, <2>7, <2>8, <2>9 DEF Inv
<1> QED BY <1>1, <1>2, <1>3 DEF CreateUser

LEMMA CreateProfileKeeps ==
    ASSUME Inv, NEW r \in Requests, CreateProfile(r)  PROVE Inv'
<1> DEFINE u == req[r].user
<1>1. /\ req[r].op = "create" /\ req[r].pc = "profile"
      /\ UNCHANGED <<status, email, password, verified, members,
                     resetToken, verifyToken>>
  BY DEF CreateProfile, At, users, tokens
<1>2. CASE status[u] # "live"
  BY <1>1, <1>2, GotoStep DEF CreateProfile, Steps, Final, users, roster, tokens
<1>3. CASE status[u] = "live"
  <2>1. profiles' = profiles \cup {u} /\ Goto(r, "class")
    BY <1>3 DEF CreateProfile
  <2>2. u \in Users /\ InFlight(r)
    BY <1>1 DEF Inv, InFlight, Steps
  <2>3. Grows
    BY <1>1, <2>1 DEF Grows
  <2>4. InFlight(r)'
    <3>1. /\ req'[r].pc = "class" /\ req'[r].op = "create"
          /\ req'[r].user = u /\ req'[r].mail = req[r].mail
      BY <1>1, <2>1, GotoEffect DEF Inv, Steps
    <3> QED BY <1>1, <2>1, <2>2, <3>1 DEF InFlight, At, Mints, Steps
  <2>5. /\ Moves(r) /\ req'[r].pc # "idle" /\ req'[r].op = req[r].op
        /\ req'[r].user = req[r].user /\ \A q \in Requests : InFlight(q)'
    BY <1>1, <2>1, <2>3, <2>4, MovesOn DEF Steps, Mints
  <2>6. \A t \in Requests : Token(t)'
    BY <1>1, <2>5, TokensSame
  <2>7. TypeOK' /\ UniqueEmail'
    BY <1>1, <2>1, <2>2, <2>5 DEF Inv, TypeOK, Moves, UniqueEmail
  <2>8. \A v \in Users : Row(v)'
    BY <1>1, <1>3, <2>1 DEF Inv, Row
  <2> QED BY <2>5, <2>6, <2>7, <2>8 DEF Inv
<1> QED BY <1>2, <1>3

LEMMA CreateMemberKeeps ==
    ASSUME Inv, NEW r \in Requests, CreateMember(r)  PROVE Inv'
<1> DEFINE u == req[r].user
<1>1. /\ req[r].op = "create" /\ req[r].pc = "class"
      /\ UNCHANGED <<status, email, password, verified, profiles,
                     resetToken, verifyToken>>
  BY DEF CreateMember, At, users, tokens
<1>2. CASE status[u] # "live"
  BY <1>1, <1>2, GotoStep DEF CreateMember, Steps, Final, users, roster, tokens
<1>3. CASE status[u] = "live"
  <2>1. members' = members \cup {u} /\ Goto(r, "ok")
    BY <1>3 DEF CreateMember
  <2>2. u \in Users /\ u \in profiles
    BY <1>1, <1>3 DEF Inv, InFlight, At, Steps
  <2>3. Grows
    BY <1>1 DEF Grows
  <2>4. /\ Moves(r) /\ req'[r].pc # "idle" /\ req'[r].op = req[r].op
        /\ req'[r].user = req[r].user /\ \A q \in Requests : InFlight(q)'
    BY <1>1, <2>1, <2>3, MovesOn DEF Steps, Final, Mints
  <2>5. \A t \in Requests : Token(t)'
    BY <1>1, <2>4, TokensSame
  <2>6. TypeOK' /\ UniqueEmail'
    BY <1>1, <2>1, <2>2, <2>4 DEF Inv, TypeOK, Moves, UniqueEmail
  <2>7. \A v \in Users : Row(v)'
    BY <1>1, <2>1, <2>2 DEF Inv, Row
  <2> QED BY <2>4, <2>5, <2>6, <2>7 DEF Inv
<1> QED BY <1>2, <1>3

LEMMA DeleteEraseKeeps ==
    ASSUME Inv, NEW r \in Requests, DeleteErase(r)  PROVE Inv'
<1> DEFINE u == req[r].user
<1>1. /\ req[r].op = "delete" /\ req[r].pc = "erase" /\ Goto(r, "ok")
      /\ DropLinks(u)
      /\ status' = [status EXCEPT ![u] = "gone"]
      /\ email' = [email EXCEPT ![u] = Null]
      /\ password' = [password EXCEPT ![u] = "none"]
      /\ verified' = verified \ {u}
      /\ profiles' = profiles \ {u}
      /\ members' = members \ {u}
      /\ verifyToken' = [verifyToken EXCEPT ![u] = "none"]
  BY DEF DeleteErase, At
<1>2. u \in Users
  BY <1>1 DEF Inv, InFlight, Steps
<1>3. Grows
  BY <1>1 DEF Grows, Inv, TypeOK
<1>4. /\ Moves(r) /\ req'[r].pc # "idle" /\ req'[r].op = req[r].op
      /\ req'[r].user = req[r].user /\ \A q \in Requests : InFlight(q)'
  BY <1>1, <1>3, MovesOn DEF Steps, Final, Mints
<1>5. \A t \in Requests : Token(t)'
  <2>1. \A t \in Requests :
           /\ resetToken'[t] # "unminted" => resetToken[t] # "unminted"
           /\ resetToken'[t] \in {"open", "expired"}
              => /\ resetToken[t] \in {"open", "expired"}
                 /\ status'[req[t].user] = "live"
                 /\ email'[req[t].user] # Null
    BY <1>1, <1>2, DropLinksKeeps DEF Inv, TypeOK
  <2> QED BY <1>4, <2>1, TokensKeep
<1>6. TypeOK'
  BY <1>1, <1>4, DropLinksKeeps DEF Inv, TypeOK, Moves
<1>7. UniqueEmail'
  BY <1>1 DEF Inv, TypeOK, UniqueEmail
<1>8. ASSUME NEW v \in Users PROVE Row(v)'
  <2>1. Row(v)
    BY DEF Inv
  <2>2. CASE v = u
    BY <1>1, <1>2, <2>2 DEF Row, Inv, TypeOK
  <2>3. CASE v # u
    BY <1>1, <2>1, <2>3 DEF Row, Inv, TypeOK
  <2> QED BY <2>2, <2>3
<1> QED BY <1>4, <1>5, <1>6, <1>7, <1>8 DEF Inv

-----------------------------------------------------------------------------
LEMMA InitInv == Init => Inv
<1> SUFFICES ASSUME Init PROVE Inv
  OBVIOUS
<1> USE RawAssumption, NullAssumption DEF Init
<1>1. TypeOK
  BY DEF TypeOK, NoRequest, Request
<1>2. ASSUME NEW r \in Requests PROVE InFlight(r) /\ Token(r)
  <2>1. /\ req[r].pc = "idle" /\ req[r].user = Null /\ req[r].mail = Null
        /\ resetToken[r] = "unminted"
    BY DEF NoRequest
  <2>2. InFlight(r)
    BY <2>1 DEF InFlight, At, Steps
  <2> QED BY <2>1, <2>2 DEF Token
<1>3. ASSUME NEW u \in Users PROVE Row(u)
  <2>1. email[u] # Null => status[u] = "live" /\ Norm[email[u]] = email[u]
    OBVIOUS
  <2>2. /\ password[u] # "none" => email[u] # Null
        /\ verifyToken[u] # "none" => email[u] # Null
        /\ verifyToken[u] # "used"
        /\ u \in members => u \in profiles
        /\ u \in profiles => status[u] = "live"
    OBVIOUS
  <2> QED BY <2>1, <2>2 DEF Row
<1>4. UniqueEmail
  BY DEF UniqueEmail
<1> QED BY <1>1, <1>2, <1>3, <1>4 DEF Inv

LEMMA NextInv == Inv /\ [Next]_vars => Inv'
<1>1. ASSUME Inv, NEW r \in Requests,
             \/ ForgotPassword(r) \/ CreatePasswordLink(r) \/ ResetPassword(r)
             \/ Expire(r) \/ VerifyEmail(r) \/ ClaimAccount(r)
             \/ UpdateProfile(r) \/ CreateRosterUser(r) \/ DeleteUser(r)
             \/ Fail(r)
      PROVE  Inv'
  <2>1. "forgot" \in Mints /\ "link" \in Mints /\ Mints \subseteq Ops
        /\ "claim" \in Ops /\ "update" \in Ops
    BY DEF Mints, Ops
  <2>2. CASE ForgotPassword(r)
    BY <1>1, <2>1, <2>2, ForgotLookupKeeps, MintDeleteKeeps, MintInsertKeeps,
       QuietKeeps DEF ForgotPassword
  <2>3. CASE CreatePasswordLink(r)
    BY <1>1, <2>1, <2>3, LinkLookupKeeps, MintDeleteKeeps, MintInsertKeeps,
       QuietKeeps DEF CreatePasswordLink
  <2>4. CASE ResetPassword(r)
    BY <1>1, <2>4, ResetLookupKeeps, ResetUpdateKeeps, ResetSweepKeeps
       DEF ResetPassword
  <2>5. CASE VerifyEmail(r)
    BY <1>1, <2>5, VerifyLookupKeeps, VerifyMarkKeeps, VerifySpendKeeps
       DEF VerifyEmail
  <2>6. CASE ClaimAccount(r)
    BY <1>1, <2>1, <2>6, ClaimLookupKeeps, ClaimWriteKeeps, QuietKeeps
       DEF ClaimAccount
  <2>7. CASE UpdateProfile(r)
    BY <1>1, <2>1, <2>7, UpdateTakenKeeps, UpdateWriteKeeps, QuietKeeps
       DEF UpdateProfile
  <2>8. CASE CreateRosterUser(r)
    BY <1>1, <2>8, CreateLookupKeeps, CreateUserKeeps, CreateProfileKeeps,
       CreateMemberKeeps DEF CreateRosterUser
  <2>9. CASE DeleteUser(r)
    BY <1>1, <2>9, DeleteLookupKeeps, DeleteEraseKeeps DEF DeleteUser
  <2>10. CASE Expire(r) \/ Fail(r)
    BY <1>1, <2>1, <2>10, ExpireKeeps, QuietKeeps
  <2> QED BY <1>1, <2>2, <2>3, <2>4, <2>5, <2>6, <2>7, <2>8, <2>9, <2>10
<1>2. ASSUME Inv, UNCHANGED vars PROVE Inv'
  <2>1. UNCHANGED <<status, email, password, verified, profiles, members,
                    resetToken, verifyToken, req, earlier>>
    BY <1>2 DEF vars, users, roster, tokens
  <2>2. \A q \in Requests : InFlight(q)' /\ Token(q)'
    BY <1>2, <2>1 DEF Inv, InFlight, Token, At, Addressed
  <2> QED BY <1>2, <2>1, <2>2 DEF Inv, TypeOK, Row, UniqueEmail
<1> QED BY <1>1, <1>2 DEF Next

THEOREM Invariance == Spec => []Inv
BY InitInv, NextInv, PTL DEF Spec

-----------------------------------------------------------------------------
(* Every table and every request stays well typed.                         *)
THEOREM TypeCorrect == Spec => []TypeOK
<1>1. Inv => TypeOK
  BY DEF Inv
<1> QED BY <1>1, Invariance, PTL

(* However the handlers' checks and writes interleave, no two accounts     *)
(* ever answer to the same address.                                        *)
THEOREM AddressesAreUnique == Spec => []OneAccountPerAddress
<1>1. Inv => OneAccountPerAddress
  BY DEF Inv, Row, UniqueEmail, OneAccountPerAddress
<1> QED BY <1>1, Invariance, PTL

(* No race of minting, resetting, claiming and deleting gives a password   *)
(* to an account nobody can address.                                       *)
THEOREM PasswordsAreAddressed == Spec => []PasswordNeedsAddress
<1>1. Inv => PasswordNeedsAddress
  BY DEF Inv, Row, PasswordNeedsAddress
<1> QED BY <1>1, Invariance, PTL

(* No link survives, or is stored for, a user who is gone.                 *)
THEOREM LinksAreOwned == Spec => []LinksHaveOwners
<1>1. Inv => LinksHaveOwners
  BY NullAssumption DEF Inv, Token, LinksHaveOwners
<1> QED BY <1>1, Invariance, PTL

(* A failed or overtaken creation never leaves a class member without a    *)
(* profile.                                                                *)
THEOREM MembersAreWhole == Spec => []MembersHaveProfiles
<1>1. Inv => MembersHaveProfiles
  BY DEF Inv, TypeOK, Row, MembersHaveProfiles
<1> QED BY <1>1, Invariance, PTL

(* A verification token is never spent for an unverified account.          *)
THEOREM NoTokenIsWasted == Spec => []VerifiedBeforeSpent
<1>1. Inv => VerifiedBeforeSpent
  BY DEF Inv, Row, VerifiedBeforeSpent
<1> QED BY <1>1, Invariance, PTL

(* A password nobody knows becomes a chosen one only by a reset whose link *)
(* was minted: a claim finds the address and is refused.                   *)
THEOREM InvitationsHold == Spec => InvitedOnlyByLink
<1>1. ASSUME Inv, [Next]_vars, NEW u \in Users,
             password[u] = "random", password'[u] = "chosen"
      PROVE  \E r \in Requests : At(r, "reset", "update") /\ req[r].user = u
  <2>1. password' # password
    BY <1>1
  <2>2. PICK r \in Requests : ResetUpdate(r) \/ ClaimWrite(r)
                               \/ CreateUser(r) \/ DeleteErase(r)
    BY <1>1, <2>1
       DEF Next, vars, users, ForgotPassword, CreatePasswordLink, ResetPassword,
           VerifyEmail, ClaimAccount, UpdateProfile, CreateRosterUser, DeleteUser,
           ForgotLookup, LinkLookup, MintDelete, MintInsert, MintDeliver,
           ResetLookup, ResetSweep, Expire, VerifyLookup, VerifyMark, VerifySpend,
           ClaimLookup, ClaimTaken, Reply, UpdateTaken, UpdateWrite, CreateLookup,
           CreateProfile, CreateMember, DeleteLookup, Fail
  <2>3. TypeOK /\ InFlight(r) /\ Row(u)
    BY <1>1 DEF Inv
  <2>4. CASE ResetUpdate(r)
    BY <1>1, <2>3, <2>4 DEF ResetUpdate, TypeOK, At
  <2>5. CASE ClaimWrite(r)
    <3>1. req[r].user # u
      BY <1>1, <2>3, <2>5 DEF ClaimWrite, InFlight, At, Steps
    <3> QED BY <1>1, <2>3, <2>5, <3>1 DEF ClaimWrite, TypeOK
  <2>6. CASE CreateUser(r)
    BY <1>1, <2>3, <2>6 DEF CreateUser, TypeOK
  <2>7. CASE DeleteErase(r)
    BY <1>1, <2>3, <2>7 DEF DeleteErase, TypeOK
  <2> QED BY <2>2, <2>4, <2>5, <2>6, <2>7
<1> DEFINE Promise == \A u \in Users :
                        password[u] = "random" /\ password'[u] = "chosen"
                            => \E r \in Requests : /\ At(r, "reset", "update")
                                                   /\ req[r].user = u
<1>2. Inv /\ [Next]_vars => [Promise]_vars
  BY <1>1
<1>3. Spec => [][Promise]_vars
  BY <1>2, Invariance, PTL DEF Spec
<1> QED BY <1>3 DEF InvitedOnlyByLink

-----------------------------------------------------------------------------
(* What was minted, used or claimed before.  LinksHold compares a request  *)
(* with those that had finished when it began, so History says what each   *)
(* statement leaves for the requests to come, and how long.                *)

Past(r) == /\ \A q \in earlier[r] : req[q].pc \in Final
           /\ req[r].pc = "idle" => earlier[r] = {}

Minting(r) == req[r].op \in Mints /\ req[r].pc \in {"delete", "insert"}
              => resetToken[r] = "unminted"

(* From its DELETE on a mint has removed the links of all older ones.      *)
Replacing(r) ==
    req[r].op \in Mints /\ req[r].pc \in {"insert", "deliver", "ok"} =>
        \A q \in earlier[r] :
            req[q].op \in Mints /\ req[q].user = req[r].user
            => resetToken[q] \notin {"open", "expired"}

Removed(t) ==
    resetToken[t] = "deleted" =>
        \E q \in Requests \ {t} :
            /\ q \notin earlier[t] /\ req[q].pc # "idle"
            /\ req[q].user = req[t].user
            /\ req[q].op \in Mints \cup {"reset", "delete"}

Resetting(r) ==
    req[r].op = "reset" /\ req[r].pc # "idle" =>
        /\ req[r].link \in Requests
        /\ resetToken[req[r].link] # "unminted"
        /\ req[req[r].link].user = req[r].user
        /\ req[r].pc = "ok" => resetToken[req[r].link] = "deleted"

Claiming(r) ==
    req[r].op = "claim" /\ req[r].pc \in {"reply", "ok"} =>
        /\ req[r].user \in Users /\ status[req[r].user] # "free"
        /\ status[req[r].user] = "live" => email[req[r].user] # Null

History == /\ \A r \in Requests : /\ Past(r) /\ Minting(r) /\ Replacing(r)
                                  /\ Removed(r) /\ Resetting(r) /\ Claiming(r)
           /\ ResetSpendsLink /\ ClaimIsFinal

-----------------------------------------------------------------------------
(* What a step of request r leaves to the others: the requests they know,  *)
(* links that are gone, and addresses.                                     *)
Onward(r) ==
    /\ \A q \in Requests \ {r} : req'[q] = req[q] /\ earlier'[q] = earlier[q]
    /\ req[r].pc \notin Final /\ req'[r].pc # "idle"
    /\ req[r].pc = "idle" => earlier'[r] = {q \in Requests : req[q].pc \in Final}
    /\ req[r].pc # "idle" =>
          /\ earlier'[r] = earlier[r]
          /\ req'[r].op = req[r].op /\ req'[r].link = req[r].link
          /\ req[r].op # "create" => req'[r].user = req[r].user

LinksLast(r) ==
    \A t \in Requests :
        /\ resetToken[t] = "deleted" => resetToken'[t] = "deleted"
        /\ resetToken[t] # "unminted" => resetToken'[t] # "unminted"
        /\ t # r => /\ resetToken[t] = "unminted" => resetToken'[t] = "unminted"
                    /\ resetToken'[t] \in {"open", "expired"}
                       => resetToken[t] \in {"open", "expired"}
        /\ resetToken'[t] = "deleted" /\ resetToken[t] # "deleted"
           => /\ t # r /\ req[t].user = req[r].user /\ req[r].pc # "idle"
              /\ req[r].op \in Mints \cup {"reset", "delete"}

AddressesLast ==
    \A u \in Users : status[u] # "free" =>
        /\ status'[u] # "free"
        /\ status'[u] = "live" => /\ status[u] = "live"
                                  /\ email[u] # Null => email'[u] # Null

(* A first statement that finds the link or the entry taken is the last.   *)
Refuses(r) ==
    req[r].pc = "idle" =>
        /\ req'[r].op = "reset" /\ resetToken[req'[r].link] # "open"
           => req'[r].pc = "refused"
        /\ req'[r].op = "claim" /\ ~Unclaimed(req'[r].user)
           => req'[r].pc = "refused"

Leaves(r) == Minting(r) /\ Replacing(r) /\ Resetting(r) /\ Claiming(r)

LEMMA HistoryLasts ==
    ASSUME Inv, History, NEW r \in Requests,
           Onward(r), LinksLast(r), AddressesLast, Refuses(r), Leaves(r)'
    PROVE  History'
<1> USE DEF Onward
<1>1. /\ \A q \in Requests : earlier[q] \in SUBSET Requests
      /\ \A q \in Requests : Past(q) /\ Removed(q) /\ Resetting(q) /\ Claiming(q)
      /\ \A t \in Requests : Token(t)
  BY DEF Inv, TypeOK, History
<1>2. ASSUME NEW p \in Requests PROVE Past(p)'
  <2>1. CASE p = r /\ req[r].pc = "idle"
    BY <2>1 DEF Past, Final
  <2>2. CASE p # r \/ req[r].pc # "idle"
    BY <1>1, <2>2 DEF Past
  <2> QED BY <2>1, <2>2
<1>3. ASSUME NEW p \in Requests, p # r, NEW q \in earlier[p]
      PROVE  q \in Requests /\ q # r /\ req[q].pc \in Final /\ req'[q] = req[q]
  BY <1>1, <1>3 DEF Past
<1>4. ASSUME NEW p \in Requests, p # r PROVE Minting(p)' /\ Replacing(p)'
  <2>1. Minting(p) /\ Replacing(p) /\ req'[p] = req[p] /\ earlier'[p] = earlier[p]
    BY <1>4 DEF History
  <2>2. Minting(p)'
    BY <1>4, <2>1 DEF Minting, LinksLast
  <2>3. Replacing(p)'
    BY <1>3, <1>4, <2>1 DEF Replacing, LinksLast
  <2> QED BY <2>2, <2>3
<1>5. ASSUME NEW t \in Requests PROVE Removed(t)'
  <2>1. SUFFICES ASSUME resetToken'[t] = "deleted"
                 PROVE  \E q \in Requests \ {t} :
                           /\ q \notin earlier'[t] /\ req'[q].pc # "idle"
                           /\ req'[q].user = req'[t].user
                           /\ req'[q].op \in Mints \cup {"reset", "delete"}
    BY DEF Removed
  <2>2. CASE resetToken[t] = "deleted"
    <3>1. PICK q \in Requests \ {t} :
              /\ q \notin earlier[t] /\ req[q].pc # "idle"
              /\ req[q].user = req[t].user
              /\ req[q].op \in Mints \cup {"reset", "delete"}
      BY <1>1, <2>2 DEF Removed
    <3>2. req[t].pc # "idle" /\ req[t].op \in Mints
      BY <1>1, <2>2 DEF Token
    <3>3. earlier'[t] = earlier[t] /\ req'[t].user = req[t].user
      BY <3>2 DEF Mints
    <3>4. /\ req'[q].pc # "idle" /\ req'[q].user = req[q].user
          /\ req'[q].op = req[q].op
      BY <3>1 DEF Mints
    <3> QED BY <3>1, <3>3, <3>4
  <2>3. CASE resetToken[t] # "deleted"
    <3>1. /\ t # r /\ req[t].user = req[r].user /\ req[r].pc # "idle"
          /\ req[r].op \in Mints \cup {"reset", "delete"}
      BY <2>1, <2>3 DEF LinksLast
    <3>2. /\ req'[r].pc # "idle" /\ req'[r].user = req[r].user
          /\ req'[r].op = req[r].op /\ req'[t] = req[t]
          /\ earlier'[t] = earlier[t] /\ r \notin earlier[t]
      BY <1>1, <3>1 DEF Mints, Past
    <3> QED BY <3>1, <3>2
  <2> QED BY <2>2, <2>3
<1>6. ASSUME NEW p \in Requests, p # r PROVE Resetting(p)' /\ Claiming(p)'
  <2>1. Resetting(p) /\ Claiming(p) /\ req'[p] = req[p]
    BY <1>1, <1>6
  <2>2. ASSUME req[p].op = "reset", req[p].pc # "idle"
        PROVE  LET t == req[p].link
               IN  /\ t \in Requests /\ resetToken'[t] # "unminted"
                   /\ req'[t].user = req[p].user
                   /\ req[p].pc = "ok" => resetToken'[t] = "deleted"
    <3> DEFINE t == req[p].link
    <3>1. /\ t \in Requests /\ resetToken[t] # "unminted"
          /\ req[t].user = req[p].user
          /\ req[p].pc = "ok" => resetToken[t] = "deleted"
      BY <2>1, <2>2 DEF Resetting
    <3>2. req[t].pc # "idle" /\ req[t].op \in Mints
      BY <1>1, <3>1 DEF Token
    <3>3. req'[t].user = req[t].user
      BY <3>1, <3>2 DEF Mints
    <3> QED BY <3>1, <3>3 DEF LinksLast
  <2>3. Claiming(p)'
    BY <2>1 DEF Claiming, AddressesLast
  <2> QED BY <2>1, <2>2, <2>3 DEF Resetting
<1>7. ASSUME NEW p \in Requests, NEW q \in earlier'[p]
      PROVE  /\ /\ req'[q].op = "reset" /\ req'[q].pc = "ok"
                /\ req'[p].op = "reset" /\ req'[p].link = req'[q].link
                => req'[p].pc = "refused"
             /\ /\ req'[q].op = "claim" /\ req'[q].pc = "ok"
                /\ req'[p].op = "claim" /\ req'[p].user = req'[q].user
                => req'[p].pc = "refused"
  <2>1. CASE p # r
    BY <1>3, <1>7, <2>1 DEF History, ResetSpendsLink, ClaimIsFinal
  <2>2. CASE p = r /\ req[r].pc # "idle"
    <3>1. q \in earlier[r] /\ q \in Requests /\ q # r /\ req'[q] = req[q]
      BY <1>1, <1>7, <2>2 DEF Past
    <3>2. req[r].pc # "refused"
      BY DEF Final
    <3> QED BY <2>2, <3>1, <3>2 DEF History, ResetSpendsLink, ClaimIsFinal
  <2>3. CASE p = r /\ req[r].pc = "idle"
    <3>1. q \in Requests /\ q # r /\ req'[q] = req[q]
      BY <1>7, <2>3 DEF Final
    <3>2. Resetting(q) /\ Claiming(q)
      BY <1>1, <3>1
    <3>3. req[q].op = "reset" /\ req[q].pc = "ok"
          => resetToken[req[q].link] # "open"
      BY <3>2 DEF Resetting
    <3>4. req[q].op = "claim" /\ req[q].pc = "ok" => ~Unclaimed(req[q].user)
      BY <3>2 DEF Claiming, Unclaimed
    <3> QED BY <2>3, <3>1, <3>3, <3>4 DEF Refuses
  <2> QED BY <2>1, <2>2, <2>3
<1>8. ResetSpendsLink' /\ ClaimIsFinal'
  BY <1>7 DEF ResetSpendsLink, ClaimIsFinal
<1> QED BY <1>2, <1>4, <1>5, <1>6, <1>8 DEF History, Leaves

-----------------------------------------------------------------------------
(* Requests that begin, and requests that go on and remove no link.        *)
LEMMA BeginHistory ==
    ASSUME Inv, History, NEW r \in Requests, NEW op \in Ops,
           NEW pc \in Steps \cup Final,
           NEW u \in Users \cup {Null}, NEW e \in Raw \cup {Null},
           NEW t \in Requests \cup {Null}, Begin(r, op, pc, u, e, t),
           UNCHANGED <<users, roster, tokens>>,
           op \in Mints => pc \in {"delete", "refused"},
           op = "reset" => /\ t \in Requests /\ resetToken[t] # "unminted"
                           /\ req[t].user = u /\ pc \in {"update", "refused"}
                           /\ resetToken[t] # "open" => pc = "refused",
           op = "claim" => /\ pc \in {"taken", "refused"}
                           /\ ~Unclaimed(u) => pc = "refused"
    PROVE  History'
<1>1. /\ req[r].pc = "idle" /\ req'[r].pc = pc /\ req'[r].op = op
      /\ req'[r].user = u /\ req'[r].link = t
      /\ \A q \in Requests \ {r} : req'[q] = req[q] /\ earlier'[q] = earlier[q]
      /\ earlier'[r] = {q \in Requests : req[q].pc \in Final}
  BY DEF Begin, Inv, TypeOK, Request
<1>2. UNCHANGED <<status, email, resetToken>>
  BY DEF users, tokens
<1>3. Onward(r)
  BY <1>1 DEF Onward, Steps, Final
<1>4. LinksLast(r) /\ AddressesLast
  BY <1>2 DEF LinksLast, AddressesLast
<1>5. Refuses(r)
  BY <1>1 DEF Refuses
<1>6. resetToken[r] = "unminted"
  BY <1>1 DEF Inv, Token
<1>7. Leaves(r)'
  <2>1. op = "reset" => t # r /\ req'[t] = req[t]
    BY <1>1, <1>6
  <2> QED BY <1>1, <1>2, <1>6, <2>1
          DEF Leaves, Minting, Replacing, Resetting, Claiming, Mints
<1> QED BY <1>3, <1>4, <1>5, <1>7, HistoryLasts

LEMMA Going ==
    ASSUME Inv, History, NEW r \in Requests, NEW pc \in Steps \cup Final,
           Goto(r, pc), req[r].pc \in Steps
    PROVE  /\ req'[r].pc = pc /\ req'[r].op = req[r].op
           /\ req'[r].user = req[r].user /\ req'[r].link = req[r].link
           /\ Onward(r) /\ Refuses(r) /\ earlier' = earlier
           /\ \A q \in Requests \ {r} : req'[q] = req[q]
<1>1. /\ req'[r].pc = pc /\ req'[r].op = req[r].op
      /\ req'[r].user = req[r].user /\ req'[r].link = req[r].link
      /\ earlier' = earlier /\ \A q \in Requests \ {r} : req'[q] = req[q]
  BY DEF Goto, Inv, TypeOK, Request
<1> QED BY <1>1 DEF Onward, Refuses, Steps, Final

LEMMA GotoHistory ==
    ASSUME Inv, History, NEW r \in Requests, NEW pc \in Steps \cup Final,
           Goto(r, pc), req[r].pc \in Steps,
           UNCHANGED resetToken, AddressesLast,
           req[r].op \in Mints
              => pc = "failed" \/ (pc = "ok" /\ req[r].pc = "deliver"),
           req[r].op = "reset" => pc # "ok",
           req[r].op = "claim" /\ pc \in {"reply", "ok"}
              => \/ req[r].pc = "reply"
                 \/ /\ req[r].user \in Users /\ status'[req[r].user] # "free"
                    /\ status'[req[r].user] = "live" => email'[req[r].user] # Null
    PROVE  History'
<1>1. /\ req'[r].pc = pc /\ req'[r].op = req[r].op
      /\ req'[r].user = req[r].user /\ req'[r].link = req[r].link
      /\ Onward(r) /\ Refuses(r) /\ earlier' = earlier
      /\ \A q \in Requests \ {r} : req'[q] = req[q]
  BY Going
<1>2. LinksLast(r)
  BY DEF LinksLast
<1>3. /\ Past(r) /\ Minting(r) /\ Replacing(r) /\ Resetting(r) /\ Claiming(r)
      /\ earlier[r] \subseteq Requests /\ req[r].pc # "idle" /\ pc # "idle"
      /\ req[r].pc \notin Final
  BY DEF History, Inv, TypeOK, Steps, Final
<1>4. Minting(r)' /\ Replacing(r)'
  <2>1. \A q \in earlier[r] : q # r /\ req'[q] = req[q]
    BY <1>1, <1>3 DEF Past
  <2> QED BY <1>1, <1>3, <2>1 DEF Minting, Replacing
<1>5. Resetting(r)'
  <2>1. req[r].op = "reset" => req[r].link \in Requests
                               /\ req'[req[r].link].user = req[req[r].link].user
    BY <1>1, <1>3 DEF Resetting
  <2> QED BY <1>1, <1>3, <2>1 DEF Resetting
<1>6. Claiming(r)'
  BY <1>1, <1>3 DEF Claiming, AddressesLast
<1> QED BY <1>1, <1>2, <1>4, <1>5, <1>6, HistoryLasts DEF Leaves

(* DELETE FROM password_reset_tokens WHERE user_id = ..., by whoever may.  *)
LEMMA DropLinksLast ==
    ASSUME Inv, History, NEW r \in Requests, DropLinks(req[r].user),
           req[r].op \in Mints \cup {"reset", "delete"}, req[r].pc \in Steps,
           req[r].op \in Mints => req[r].pc = "delete"
    PROVE  /\ LinksLast(r)
           /\ \A t \in Requests :
                 /\ resetToken[t] = "unminted" => resetToken'[t] = "unminted"
                 /\ resetToken[t] # "unminted" /\ req[t].user = req[r].user
                    => resetToken'[t] = "deleted"
<1>1. TypeOK /\ Token(r) /\ Minting(r)
  BY DEF Inv, History
<1>2. resetToken[r] = "unminted"
  BY <1>1 DEF Token, Minting, TypeOK, Mints
<1>3. ASSUME NEW t \in Requests
      PROVE  /\ resetToken[t] \in {"unminted", "open", "expired", "deleted"}
             /\ resetToken'[t] = IF resetToken[t] \in {"open", "expired"}
                                      /\ req[t].user = req[r].user
                                   THEN "deleted" ELSE resetToken[t]
  BY <1>1 DEF DropLinks, LinksOf, TypeOK
<1>4. req[r].pc # "idle"
  BY DEF Steps
<1> QED BY <1>2, <1>3, <1>4 DEF LinksLast

-----------------------------------------------------------------------------
(* One lemma for each statement.                                           *)
LEMMA LookupHistory ==
    ASSUME Inv, History, NEW r \in Requests,
           ForgotLookup(r) \/ LinkLookup(r) \/ ResetLookup(r) \/ VerifyLookup(r)
             \/ ClaimLookup(r) \/ UpdateTaken(r) \/ CreateLookup(r) \/ DeleteLookup(r)
    PROVE  History'
<1> USE RawAssumption DEF Ops, Mints, Steps, Final
<1>1. CASE ForgotLookup(r)
  <2>1. PICK raw \in Raw \ {Empty} :
          \/ \E u \in Holders(Norm[raw]) :
                 Begin(r, "forgot", "delete", u, Norm[raw], Null)
          \/ Begin(r, "forgot", "refused", Null, Norm[raw], Null)
    BY <1>1 DEF ForgotLookup
  <2>2. UNCHANGED <<users, roster, tokens>> /\ Norm[raw] \in Raw
    BY <1>1 DEF ForgotLookup
  <2>3. Holders(Norm[raw]) \subseteq Users
    BY DEF Holders
  <2> QED BY <2>1, <2>2, <2>3, BeginHistory
<1>2. CASE LinkLookup(r)
  <2>1. PICK u \in Users, pc \in {"delete", "refused"} :
            Begin(r, "link", pc, u, Null, Null)
    BY <1>2 DEF LinkLookup
  <2> QED BY <1>2, <2>1, BeginHistory DEF LinkLookup
<1>3. CASE ResetLookup(r)
  <2>1. PICK t \in Requests :
          /\ resetToken[t] # "unminted"
          /\ Begin(r, "reset", IF resetToken[t] = "open" THEN "update" ELSE "refused",
                   req[t].user, Null, t)
    BY <1>3 DEF ResetLookup
  <2>2. PICK pc \in {"update", "refused"} :
          /\ Begin(r, "reset", pc, req[t].user, Null, t)
          /\ resetToken[t] # "open" => pc = "refused"
    BY <2>1
  <2>3. req[t].user \in Users \cup {Null}
    BY DEF Inv, TypeOK, Request
  <2> QED BY <1>3, <2>1, <2>2, <2>3, BeginHistory DEF ResetLookup
<1>4. CASE VerifyLookup(r)
  <2>1. PICK u \in Users, pc \in {"mark", "refused"} :
            Begin(r, "verify", pc, u, Null, Null)
    BY <1>4 DEF VerifyLookup
  <2> QED BY <1>4, <2>1, BeginHistory DEF VerifyLookup
<1>5. CASE ClaimLookup(r)
  <2>1. PICK u \in Users, raw \in Raw \ {Empty} :
            Begin(r, "claim", IF Unclaimed(u) THEN "taken" ELSE "refused",
                  u, Norm[raw], Null)
    BY <1>5 DEF ClaimLookup
  <2>2. PICK pc \in {"taken", "refused"} :
            /\ Begin(r, "claim", pc, u, Norm[raw], Null)
            /\ ~Unclaimed(u) => pc = "refused"
    BY <2>1
  <2> QED BY <1>5, <2>2, BeginHistory DEF ClaimLookup
<1>6. CASE UpdateTaken(r)
  <2>1. PICK u \in Users, raw \in Raw \ {Empty}, pc \in {"write", "refused"} :
            Begin(r, "update", pc, u, Norm[raw], Null)
    BY <1>6 DEF UpdateTaken
  <2> QED BY <1>6, <2>1, BeginHistory DEF UpdateTaken
<1>7. CASE CreateLookup(r)
  <2>1. PICK raw \in Raw \cup {Null}, pc \in {"user", "refused"} :
            Begin(r, "create", pc, Null, RosterMail(raw), Null)
    BY <1>7 DEF CreateLookup
  <2>2. RosterMail(raw) \in Raw \cup {Null}
    BY DEF RosterMail
  <2> QED BY <1>7, <2>1, <2>2, BeginHistory DEF CreateLookup
<1>8. CASE DeleteLookup(r)
  <2>1. PICK u \in Users, pc \in {"erase", "refused"} :
            Begin(r, "delete", pc, u, Null, Null)
    BY <1>8 DEF DeleteLookup
  <2> QED BY <1>8, <2>1, BeginHistory DEF DeleteLookup
<1> QED BY <1>1, <1>2, <1>3, <1>4, <1>5, <1>6, <1>7, <1>8

(* Statements that neither mint nor remove a link.                         *)
LEMMA AnswerHistory ==
    ASSUME Inv, History, NEW r \in Requests, NEW op \in Ops,
           \/ op \in Mints /\ MintDeliver(r, op)
           \/ op \in {"claim", "update"} /\ Reply(r, op)
    PROVE  History'
<1>1. UNCHANGED <<status, email, resetToken>>
  BY DEF MintDeliver, Reply, users, tokens
<1>2. AddressesLast
  BY <1>1 DEF AddressesLast
<1> QED BY <1>1, <1>2, GotoHistory DEF MintDeliver, Reply, At, Steps, Final, Mints

LEMMA GoingOnHistory ==
    ASSUME Inv, History, NEW r \in Requests,
           \/ ResetUpdate(r) \/ VerifyMark(r) \/ VerifySpend(r)
           \/ ClaimTaken(r) \/ CreateProfile(r) \/ CreateMember(r) \/ Fail(r)
    PROVE  History'
<1> USE DEF Steps, Final, Mints
<1>1. UNCHANGED <<status, email, resetToken>>
  BY DEF ResetUpdate, VerifyMark, VerifySpend, ClaimTaken, CreateProfile,
         CreateMember, Fail, users, roster, tokens
<1>2. AddressesLast
  BY <1>1 DEF AddressesLast
<1>3. CASE ResetUpdate(r) \/ VerifyMark(r) \/ VerifySpend(r)
  BY <1>1, <1>2, <1>3, GotoHistory DEF ResetUpdate, VerifyMark, VerifySpend, At
<1>4. CASE ClaimTaken(r)
  <2>1. PICK pc \in {"refused", "write"} : Goto(r, pc)
    BY <1>4 DEF ClaimTaken
  <2> QED BY <1>1, <1>2, <1>4, <2>1, GotoHistory DEF ClaimTaken, At
<1>5. CASE CreateProfile(r) \/ CreateMember(r)
  <2>1. PICK pc \in {"class", "ok", "failed"} : Goto(r, pc)
    BY <1>5 DEF CreateProfile, CreateMember
  <2> QED BY <1>1, <1>2, <1>5, <2>1, GotoHistory DEF CreateProfile, CreateMember, At
<1>6. CASE Fail(r)
  BY <1>1, <1>2, <1>6, GotoHistory DEF Fail
<1> QED BY <1>3, <1>4, <1>5, <1>6

LEMMA ClaimWriteHistory ==
    ASSUME Inv, History, NEW r \in Requests, ClaimWrite(r)  PROVE History'
<1> DEFINE u == req[r].user
           e == req[r].mail
<1>1. req[r].op = "claim" /\ req[r].pc = "write" /\ UNCHANGED <<status, resetToken>>
  BY DEF ClaimWrite, At, tokens
<1>2. u \in Users /\ e # Null /\ email \in [Users -> Raw \cup {Null}]
  BY <1>1 DEF Inv, TypeOK, InFlight, Steps
<1>3. CASE status[u] = "live" /\ ~Violates(u, e)
  <2>1. email' = [email EXCEPT ![u] = e] /\ Goto(r, "reply")
    BY <1>3 DEF ClaimWrite
  <2>2. AddressesLast
    BY <1>1, <1>2, <2>1 DEF AddressesLast
  <2> QED BY <1>1, <1>2, <1>3, <2>1, <2>2, GotoHistory DEF Steps, Mints
<1>4. CASE ~(status[u] = "live" /\ ~Violates(u, e))
  <2>1. UNCHANGED email /\ Goto(r, "failed")
    BY <1>4 DEF ClaimWrite
  <2>2. AddressesLast
    BY <1>1, <2>1 DEF AddressesLast
  <2> QED BY <1>1, <2>1, <2>2, GotoHistory DEF Steps, Final, Mints
<1> QED BY <1>3, <1>4

LEMMA UpdateWriteHistory ==
    ASSUME Inv, History, NEW r \in Requests, UpdateWrite(r)  PROVE History'
<1> DEFINE u == req[r].user
           e == req[r].mail
<1>1. req[r].op = "update" /\ req[r].pc = "write" /\ UNCHANGED <<status, resetToken>>
  BY DEF UpdateWrite, At, tokens
<1>2. u \in Users /\ e # Null /\ email \in [Users -> Raw \cup {Null}]
  BY <1>1 DEF Inv, TypeOK, InFlight, Steps
<1>3. PICK pc \in {"failed", "reply"} : Goto(r, pc)
  BY DEF UpdateWrite
<1>4. UNCHANGED email \/ email' = [email EXCEPT ![u] = IF status[u] = "live"
                                                         THEN e ELSE @]
  BY DEF UpdateWrite
<1>5. AddressesLast
  BY <1>1, <1>2, <1>4 DEF AddressesLast
<1> QED BY <1>1, <1>3, <1>5, GotoHistory DEF Steps, Final, Mints

LEMMA CreateUserHistory ==
    ASSUME Inv, History, NEW r \in Requests, CreateUser(r)  PROVE History'
<1>1. req[r].op = "create" /\ req[r].pc = "user" /\ UNCHANGED resetToken
  BY DEF CreateUser, At, tokens
<1>2. CASE Goto(r, "failed") /\ UNCHANGED <<status, email>>
  <2>1. AddressesLast
    BY <1>2 DEF AddressesLast
  <2> QED BY <1>1, <1>2, <2>1, GotoHistory DEF Steps, Final, Mints
<1>3. ASSUME NEW u \in Users, status[u] = "free",
             status' = [status EXCEPT ![u] = "live"],
             email' = [email EXCEPT ![u] = req[r].mail],
             req' = [req EXCEPT ![r].user = u, ![r].pc = "profile"],
             UNCHANGED earlier
      PROVE  History'
  <2>1. /\ req'[r].op = "create" /\ req'[r].pc = "profile"
        /\ req'[r].link = req[r].link
        /\ \A q \in Requests \ {r} : req'[q] = req[q]
    BY <1>1, <1>3 DEF Inv, TypeOK, Request
  <2>2. Onward(r) /\ Refuses(r)
    BY <1>1, <1>3, <2>1 DEF Onward, Refuses, Final
  <2>3. LinksLast(r)
    BY <1>1 DEF LinksLast
  <2>4. AddressesLast
    BY <1>3 DEF AddressesLast, Inv, TypeOK
  <2>5. Leaves(r)'
    BY <2>1 DEF Leaves, Minting, Replacing, Resetting, Claiming, Mints
  <2> QED BY <2>2, <2>3, <2>4, <2>5, HistoryLasts
<1> QED BY <1>2, <1>3 DEF CreateUser

LEMMA MintDeleteHistory ==
    ASSUME Inv, History, NEW r \in Requests, NEW op \in Mints, MintDelete(r, op)
    PROVE  History'
<1>1. /\ req[r].op = op /\ req[r].pc = "delete" /\ Goto(r, "insert")
      /\ DropLinks(req[r].user) /\ UNCHANGED <<status, email>>
  BY DEF MintDelete, At, users
<1>2. /\ req'[r].pc = "insert" /\ req'[r].op = op
      /\ req'[r].user = req[r].user /\ req'[r].link = req[r].link
      /\ Onward(r) /\ Refuses(r) /\ earlier' = earlier
      /\ \A q \in Requests \ {r} : req'[q] = req[q]
  BY <1>1, Going DEF Steps
<1>3. /\ LinksLast(r)
      /\ \A t \in Requests :
            /\ resetToken[t] = "unminted" => resetToken'[t] = "unminted"
            /\ resetToken[t] # "unminted" /\ req[t].user = req[r].user
               => resetToken'[t] = "deleted"
  BY <1>1, DropLinksLast DEF Steps
<1>4. AddressesLast
  BY <1>1 DEF AddressesLast
<1>5. /\ Minting(r) /\ Past(r) /\ earlier[r] \subseteq Requests
  BY DEF History, Inv, TypeOK
<1>6. Minting(r)'
  BY <1>1, <1>3, <1>5 DEF Minting
<1>7. Replacing(r)'
  <2>1. \A q \in earlier[r] : q # r /\ req'[q] = req[q]
    BY <1>1, <1>2, <1>5 DEF Past, Final
  <2>2. \A q \in earlier[r] : req[q].user = req[r].user
                               => resetToken'[q] \notin {"open", "expired"}
    BY <1>3, <1>5
  <2> QED BY <1>2, <2>1, <2>2 DEF Replacing
<1>8. Resetting(r)' /\ Claiming(r)'
  BY <1>2 DEF Resetting, Claiming, Mints
<1> QED BY <1>2, <1>3, <1>4, <1>6, <1>7, <1>8, HistoryLasts DEF Leaves

LEMMA MintInsertHistory ==
    ASSUME Inv, History, NEW r \in Requests, NEW op \in Mints, MintInsert(r, op)
    PROVE  History'
<1>1. /\ req[r].op = op /\ req[r].pc = "insert"
      /\ UNCHANGED <<status, email>>
  BY DEF MintInsert, At, users
<1>2. AddressesLast
  BY <1>1 DEF AddressesLast
<1>3. CASE status[req[r].user] # "live"
  <2>1. Goto(r, "failed") /\ UNCHANGED resetToken
    BY <1>3 DEF MintInsert
  <2> QED BY <1>1, <1>2, <2>1, GotoHistory DEF Steps, Final, Mints
<1>4. CASE status[req[r].user] = "live"
  <2>1. /\ Goto(r, "deliver")
        /\ resetToken' = [resetToken EXCEPT ![r] = "open"]
    BY <1>4 DEF MintInsert
  <2>2. /\ req'[r].pc = "deliver" /\ req'[r].op = op
        /\ req'[r].user = req[r].user
        /\ Onward(r) /\ Refuses(r) /\ earlier' = earlier
        /\ \A q \in Requests \ {r} : req'[q] = req[q]
    BY <1>1, <2>1, Going DEF Steps
  <2>3. /\ resetToken[r] = "unminted" /\ Past(r) /\ Replacing(r)
        /\ earlier[r] \subseteq Requests
        /\ resetToken \in [Requests -> {"unminted", "open", "expired", "deleted"}]
    BY <1>1 DEF History, Minting, Inv, TypeOK
  <2>4. LinksLast(r)
    BY <2>1, <2>3 DEF LinksLast
  <2>5. Replacing(r)'
    <3>1. \A q \in earlier[r] : q # r /\ req'[q] = req[q]
      BY <1>1, <2>2, <2>3 DEF Past, Final
    <3> QED BY <1>1, <2>1, <2>2, <2>3, <3>1 DEF Replacing
  <2>6. Minting(r)' /\ Resetting(r)' /\ Claiming(r)'
    BY <2>2 DEF Minting, Resetting, Claiming, Mints
  <2> QED BY <1>2, <2>2, <2>4, <2>5, <2>6, HistoryLasts DEF Leaves
<1> QED BY <1>3, <1>4

LEMMA ResetSweepHistory ==
    ASSUME Inv, History, NEW r \in Requests, ResetSweep(r)  PROVE History'
<1>1. /\ req[r].op = "reset" /\ req[r].pc = "sweep" /\ Goto(r, "ok")
      /\ DropLinks(req[r].user) /\ UNCHANGED <<status, email>>
  BY DEF ResetSweep, At, users
<1>2. /\ req'[r].pc = "ok" /\ req'[r].op = "reset"
      /\ req'[r].user = req[r].user /\ req'[r].link = req[r].link
      /\ Onward(r) /\ Refuses(r)
      /\ \A q \in Requests \ {r} : req'[q] = req[q]
  BY <1>1, Going DEF Steps, Final
<1>3. /\ LinksLast(r)
      /\ \A t \in Requests : resetToken[t] # "unminted" /\ req[t].user = req[r].user
                             => resetToken'[t] = "deleted"
  BY <1>1, DropLinksLast DEF Steps, Mints
<1>4. AddressesLast
  BY <1>1 DEF AddressesLast
<1>5. Resetting(r)'
  <2> DEFINE t == req[r].link
  <2>1. t \in Requests /\ resetToken[t] # "unminted" /\ req[t].user = req[r].user
    BY <1>1 DEF History, Resetting
  <2>2. resetToken'[t] = "deleted" /\ req'[t].user = req[t].user
    BY <1>2, <1>3, <2>1
  <2> QED BY <1>2, <2>1, <2>2 DEF Resetting
<1>6. Minting(r)' /\ Replacing(r)' /\ Claiming(r)'
  BY <1>2 DEF Minting, Replacing, Claiming, Mints
<1> QED BY <1>2, <1>3, <1>4, <1>5, <1>6, HistoryLasts DEF Leaves

LEMMA DeleteEraseHistory ==
    ASSUME Inv, History, NEW r \in Requests, DeleteErase(r)  PROVE History'
<1>1. /\ req[r].op = "delete" /\ req[r].pc = "erase" /\ Goto(r, "ok")
      /\ DropLinks(req[r].user)
      /\ status' = [status EXCEPT ![req[r].user] = "gone"]
      /\ email' = [email EXCEPT ![req[r].user] = Null]
  BY DEF DeleteErase, At
<1>2. /\ req'[r].pc = "ok" /\ req'[r].op = "delete" /\ Onward(r) /\ Refuses(r)
  BY <1>1, Going DEF Steps, Final
<1>3. LinksLast(r)
  BY <1>1, DropLinksLast DEF Steps, Mints
<1>4. AddressesLast
  BY <1>1 DEF AddressesLast, Inv, TypeOK
<1>5. Leaves(r)'
  BY <1>2 DEF Leaves, Minting, Replacing, Resetting, Claiming, Mints
<1> QED BY <1>2, <1>3, <1>4, <1>5, HistoryLasts

LEMMA ExpireHistory ==
    ASSUME Inv, History, NEW r \in Requests, Expire(r)  PROVE History'
<1>1. /\ resetToken[r] = "open" /\ resetToken' = [resetToken EXCEPT ![r] = "expired"]
      /\ UNCHANGED <<status, email, req, earlier>>
      /\ resetToken \in [Requests -> {"unminted", "open", "expired", "deleted"}]
      /\ \A q \in Requests : earlier[q] \subseteq Requests
  BY DEF Expire, users, Inv, TypeOK
<1>2. ResetSpendsLink' /\ ClaimIsFinal'
  BY <1>1 DEF History, ResetSpendsLink, ClaimIsFinal
<1>3. ASSUME NEW q \in Requests
      PROVE  /\ Past(q)' /\ Minting(q)' /\ Replacing(q)'
             /\ Removed(q)' /\ Resetting(q)' /\ Claiming(q)'
  <2>1. /\ Past(q) /\ Minting(q) /\ Replacing(q)
        /\ Removed(q) /\ Resetting(q) /\ Claiming(q)
    BY DEF History
  <2>2. Past(q)' /\ Minting(q)' /\ Claiming(q)'
    BY <1>1, <2>1 DEF Past, Minting, Claiming
  <2>3. Replacing(q)'
    BY <1>1, <2>1 DEF Replacing
  <2>4. Removed(q)'
    BY <1>1, <2>1 DEF Removed
  <2>5. Resetting(q)'
    BY <1>1, <2>1 DEF Resetting
  <2> QED BY <2>2, <2>3, <2>4, <2>5
<1> QED BY <1>2, <1>3 DEF History

-----------------------------------------------------------------------------
LEMMA InitHistory == Init => History
<1> SUFFICES ASSUME Init PROVE History
  OBVIOUS
<1> USE DEF Init
<1>1. ASSUME NEW r \in Requests
      PROVE req[r].pc = "idle" /\ resetToken[r] = "unminted" /\ earlier[r] = {}
  BY DEF NoRequest
<1> QED BY <1>1 DEF History, Past, Minting, Replacing, Removed, Resetting, Claiming,
                    ResetSpendsLink, ClaimIsFinal

LEMMA NextHistory == Inv /\ History /\ [Next]_vars => History'
<1>1. ASSUME Inv, History, NEW r \in Requests,
             \/ ForgotPassword(r) \/ CreatePasswordLink(r) \/ ResetPassword(r)
             \/ Expire(r) \/ VerifyEmail(r) \/ ClaimAccount(r)
             \/ UpdateProfile(r) \/ CreateRosterUser(r) \/ DeleteUser(r)
             \/ Fail(r)
      PROVE  History'
  <2>1. "forgot" \in Mints /\ "link" \in Mints /\ Mints \subseteq Ops
        /\ "claim" \in Ops /\ "update" \in Ops
    BY DEF Mints, Ops
  <2>2. CASE ForgotPassword(r) \/ CreatePasswordLink(r)
    BY <1>1, <2>1, <2>2, LookupHistory, MintDeleteHistory, MintInsertHistory,
       AnswerHistory DEF ForgotPassword, CreatePasswordLink
  <2>3. CASE ResetPassword(r)
    BY <1>1, <2>3, LookupHistory, GoingOnHistory, ResetSweepHistory DEF ResetPassword
  <2>4. CASE VerifyEmail(r)
    BY <1>1, <2>4, LookupHistory, GoingOnHistory DEF VerifyEmail
  <2>5. CASE ClaimAccount(r)
    BY <1>1, <2>1, <2>5, LookupHistory, GoingOnHistory, ClaimWriteHistory,
       AnswerHistory DEF ClaimAccount
  <2>6. CASE UpdateProfile(r)
    BY <1>1, <2>1, <2>6, LookupHistory, UpdateWriteHistory, AnswerHistory
       DEF UpdateProfile
  <2>7. CASE CreateRosterUser(r)
    BY <1>1, <2>7, LookupHistory, GoingOnHistory, CreateUserHistory
       DEF CreateRosterUser
  <2>8. CASE DeleteUser(r)
    BY <1>1, <2>8, LookupHistory, DeleteEraseHistory DEF DeleteUser
  <2>9. CASE Expire(r) \/ Fail(r)
    BY <1>1, <2>9, ExpireHistory, GoingOnHistory
  <2> QED BY <1>1, <2>2, <2>3, <2>4, <2>5, <2>6, <2>7, <2>8, <2>9
<1>2. ASSUME History, UNCHANGED vars PROVE History'
  <2>1. UNCHANGED <<status, email, resetToken, req, earlier>>
    BY <1>2 DEF vars, users, tokens
  <2> QED BY <1>2, <2>1 DEF History, Past, Minting, Replacing, Removed, Resetting,
                            Claiming, ResetSpendsLink, ClaimIsFinal, Unclaimed
<1> QED BY <1>1, <1>2 DEF Next

(* What each request leaves for those that begin later holds for any       *)
(* number of requests, links and entries.                                  *)
THEOREM HistoryInvariance == Spec => []History
BY InitInv, NextInv, InitHistory, NextHistory, PTL DEF Spec

(* A link replaces the older ones and ends only by what is named, a link   *)
(* sets one password, and a claimed entry is claimed for good.             *)
THEOREM LinksStay == Spec => []LinksHold
<1>1. Inv /\ History => LinksHold
  <2> SUFFICES ASSUME Inv, History PROVE LinksHold
    OBVIOUS
  <2>1. LinkReplacesOlder
    BY DEF History, Replacing, LinkReplacesOlder
  <2>2. LinkOutlivesOlder
    BY DEF History, Removed, LinkOutlivesOlder
  <2> QED BY <2>1, <2>2 DEF History, LinksHold
<1> QED BY <1>1, Invariance, HistoryInvariance, PTL
=============================================================================
