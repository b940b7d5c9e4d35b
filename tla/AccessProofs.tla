---------------------------- MODULE AccessProofs ----------------------------
(***************************************************************************)
(* The safety of Access, for any users, classes and requests.              *)
(*                                                                         *)
(* A right is checked in one statement and used in another.  What makes    *)
(* that sound is not that it still holds: it is that whoever lost it since *)
(* lost it to a request that had not finished when this one began, or when *)
(* the login began that made the token.                                    *)
(***************************************************************************)
EXTENDS Access, TLAPS

(* Who may moderate at all, and why somebody who could cannot any more,    *)
(* as far as a request r can tell.                                         *)
HasRole(u) == u \in live \cap (Supers \cup classAdmin)

Demotes(q, u) == /\ req[q].op \in {"role", "delete"} /\ req[q].pc = "ok"
                 /\ req[q].user = u

Demoted(u, r) == \E q \in Requests \ earlier[r] : Demotes(q, u)

Past(r) == \A q \in earlier[r] : req[q].pc \in Final

(* A token says what was true when its login read it.                      *)
Issued(claims, u) ==
    /\ claims \in Claims /\ claims.admin = (u \in Supers)
    /\ claims.by # Null => claims.by \in Requests /\ req[claims.by].pc # "idle"
    /\ claims.admin \/ claims.classAdmin
       => HasRole(u) \/ \E q \in Requests :
                           /\ Demotes(q, u)
                           /\ claims.by # Null => q \notin earlier[claims.by]

(* What a request in flight has of its own.                                *)
Sending(r) ==
    req[r].pc \in Steps =>
        /\ req[r].caller \in Users /\ Issued(req[r].claims, req[r].caller)
        /\ req[r].pc # "sign" => req[r].at < req[r].claims.at + TTL
        /\ req[r].pc = "standing" => req[r].op \in {"moderate", "remove"}
        /\ req[r].op = "comment" => req[r].user \in Users
        /\ req[r].op = "delete"  => req[r].user \in Users
        /\ req[r].op \in {"create", "change", "cancel"}
           => /\ req[r].row \in Ids /\ req[r].class \in Classes
              /\ req[r].pc = "write"
                 => req[r].claims.admin \/ req[r].claims.classAdmin

(* The comment it has read is that comment still, or is gone.              *)
Reading(r) ==
    req[r].op \in {"moderate", "remove"} /\ req[r].pc \in Steps =>
        LET c == req[r].row IN
        /\ c \in Ids /\ (c # Old => req[c].pc \in Final)
        /\ comment[c] # Null => /\ comment[c].target = req[r].user
                                /\ comment[c].commenter = req[r].author
        /\ req[r].op = "moderate" => req[r].words \/ req[r].publish # Null
        /\ req[r].op = "remove" => req[r].publish = Null

(* The checks it has passed: those for its rights, and for its words.      *)
Permitted(u, t, r) == u = t \/ HasRole(u) \/ Demoted(u, r)

Checked(r) ==
    LET q == req[r] IN
    /\ q.op = "moderate" /\ q.publish # Null /\ q.pc \in {"shared", "own", "write"}
       => Permitted(q.caller, q.user, r)
    /\ q.op = "moderate" /\ q.publish = Null /\ q.pc = "write"
       => q.caller = q.author
    /\ \/ q.op = "remove" /\ q.pc = "shared"
       \/ q.op = "remove" /\ q.pc = "write" /\ q.caller # q.author
       => Permitted(q.caller, q.user, r)

Settled(i) == i # Old => req[i].pc \in Final

Shown(c) ==
    /\ Settled(c) /\ Settled(comment[c].words)
    /\ comment[c].published =>
          LET r == comment[c].approver IN
          /\ r \in Requests /\ r # comment[c].words /\ req[r].pc \in Final
          /\ Permitted(req[r].caller, comment[c].target, r)

Sound(r) == Past(r) /\ Sending(r) /\ Reading(r) /\ Checked(r)

Inv == /\ TypeOK
       /\ \A r \in Requests : Sound(r)
       /\ \A c \in Comments : Shown(c)
       /\ \A u \in Users : token[u] # Null => Issued(token[u], u)

-----------------------------------------------------------------------------
(* What a step of request r leaves to the others.                          *)
Onward(r) ==
    /\ \A q \in Requests \ {r} : req'[q] = req[q] /\ earlier'[q] = earlier[q]
    /\ req[r].pc \notin Final /\ req'[r].pc # "idle"
    /\ earlier'[r] = IF req[r].pc = "idle" THEN {q \in Requests : req[q].pc \in Final}
                                           ELSE earlier[r]

(* A role is lost to the request that took it.                             *)
RolesLast(r) ==
    \A u \in Users : HasRole(u) /\ ~HasRole(u)' => Demotes(r, u)'

(* Comments come by the request that names them, and keep their people.    *)
CommentsLast(r) ==
    \A c \in Ids \ {r} : comment'[c] # Null =>
        /\ comment[c] # Null
        /\ comment'[c].target = comment[c].target
        /\ comment'[c].commenter = comment[c].commenter

(* What the step itself writes.                                            *)
Writes(r) ==
    /\ \A c \in Ids : comment'[c] \notin {Null, comment[c]} => Shown(c)'
    /\ \A u \in Users, k \in Claims :
          token'[u] = k /\ token[u] # k => Issued(k, u)'

Good(r) == /\ TypeOK' /\ Onward(r) /\ RolesLast(r) /\ CommentsLast(r) /\ Writes(r)
           /\ (Sending(r) /\ Reading(r) /\ Checked(r))'

LEMMA DemotedLasts ==
    ASSUME Inv, NEW r \in Requests, Onward(r),
           NEW q \in Requests, NEW u, Demotes(q, u)
    PROVE  q # r /\ Demotes(q, u)'
BY DEF Onward, Demotes, Final

LEMMA PermittedLasts ==
    ASSUME Inv, NEW r \in Requests, Onward(r), RolesLast(r),
           NEW p \in Requests, req[p].pc # "idle",
           NEW u, NEW t, Permitted(u, t, p)
    PROVE  Permitted(u, t, p)'
<1>1. earlier'[p] = earlier[p] /\ r \notin earlier'[p]
  BY DEF Onward, Inv, Sound, Past
<1>2. CASE u = t
  BY <1>2 DEF Permitted
<1>3. CASE HasRole(u)
  BY <1>1, <1>3 DEF RolesLast, Permitted, Demoted, HasRole, Inv, TypeOK
<1>4. CASE Demoted(u, p)
  <2>1. PICK q \in Requests \ earlier[p] : Demotes(q, u)
    BY <1>4 DEF Demoted
  <2>2. Demotes(q, u)'
    BY <2>1, DemotedLasts
  <2> QED BY <1>1, <2>1, <2>2 DEF Permitted, Demoted
<1> QED BY <1>2, <1>3, <1>4 DEF Permitted

LEMMA IssuedLasts ==
    ASSUME Inv, NEW r \in Requests, Onward(r), RolesLast(r),
           NEW claims, NEW u, Issued(claims, u)
    PROVE  Issued(claims, u)'
<1> DEFINE by == claims.by
<1>1. by # Null => /\ by \in Requests /\ req[by].pc # "idle" /\ req'[by].pc # "idle"
                   /\ earlier'[by] = earlier[by] /\ r \notin earlier[by]
  BY DEF Issued, Onward, Inv, Sound, Past
<1>2. ASSUME claims.admin \/ claims.classAdmin
      PROVE  HasRole(u)' \/ \E q \in Requests :
                               /\ Demotes(q, u)'
                               /\ by # Null => q \notin earlier'[by]
  <2>1. CASE HasRole(u)
    BY <1>1, <2>1 DEF RolesLast, HasRole, Inv, TypeOK
  <2>2. CASE ~HasRole(u)
    <3>1. PICK q \in Requests : /\ Demotes(q, u)
                                /\ by # Null => q \notin earlier[by]
      BY <1>2, <2>2 DEF Issued
    <3>2. Demotes(q, u)'
      BY <3>1, DemotedLasts
    <3> QED BY <1>1, <3>1, <3>2
  <2> QED BY <2>1, <2>2
<1> QED BY <1>1, <1>2 DEF Issued

LEMMA SettledLasts ==
    ASSUME NEW r \in Requests, Onward(r), NEW i \in Ids, Settled(i)
    PROVE  i # r /\ Settled(i)'
BY AccessAssumption DEF Onward, Settled, Ids

LEMMA Lasting ==
    ASSUME Inv, NEW r \in Requests, Good(r)
    PROVE  Inv'
<1>1. TypeOK /\ TypeOK' /\ Onward(r) /\ RolesLast(r) /\ CommentsLast(r) /\ Writes(r)
  BY DEF Inv, Good
<1>2. ASSUME NEW p \in Requests PROVE Past(p)'
  <2>1. earlier[p] \subseteq Requests /\ earlier'[p] \subseteq Requests
    BY <1>1 DEF TypeOK
  <2> QED BY <1>1, <2>1 DEF Inv, Sound, Past, Onward
<1>3. ASSUME NEW p \in Requests, p # r PROVE Sending(p)' /\ Reading(p)' /\ Checked(p)'
  <2>1. req'[p] = req[p] /\ Sending(p) /\ Reading(p) /\ Checked(p)
    BY <1>1, <1>3 DEF Onward, Inv, Sound
  <2>2. Sending(p)'
    <3>1. PICK k : k = req[p].claims
      OBVIOUS
    <3>2. PICK u : u = req[p].caller
      OBVIOUS
    <3>3. req[p].pc \in Steps => Issued(k, u)'
      BY <1>1, <2>1, <3>1, <3>2, IssuedLasts DEF Sending
    <3>4. req[p].pc \in Steps => Issued(req[p].claims, req[p].caller)'
      BY <2>1, <3>1, <3>2, <3>3
    <3> QED BY <2>1, <3>4 DEF Sending
  <2>3. Reading(p)'
    <3>1. SUFFICES ASSUME req[p].op \in {"moderate", "remove"}, req[p].pc \in Steps
                   PROVE  Reading(p)'
      BY <2>1 DEF Reading
    <3>2. req[p].row \in Ids /\ Settled(req[p].row)
      BY <2>1, <3>1 DEF Reading, Settled
    <3>3. req[p].row # r /\ (req[p].row # Old => req'[req[p].row].pc \in Final)
      BY <1>1, <3>2, SettledLasts DEF Settled, Onward, Ids
    <3> QED BY <1>1, <2>1, <3>1, <3>2, <3>3 DEF Reading, CommentsLast
  <2>4. Checked(p)'
    <3>1. req[p].pc \in Steps => req[p].pc # "idle"
      BY DEF Steps
    <3>2. ASSUME req[p].pc \in Steps, Permitted(req[p].caller, req[p].user, p)
          PROVE  Permitted(req[p].caller, req[p].user, p)'
      <4>1. PICK u : u = req[p].caller
        OBVIOUS
      <4>2. PICK t : t = req[p].user
        OBVIOUS
      <4>3. Permitted(u, t, p)'
        BY <1>1, <3>1, <3>2, <4>1, <4>2, PermittedLasts
      <4> QED BY <2>1, <4>1, <4>2, <4>3
    <3> QED BY <2>1, <3>2 DEF Checked, Steps
  <2> QED BY <2>2, <2>3, <2>4
<1>4. \A p \in Requests : Sound(p)'
  BY <1>2, <1>3 DEF Sound, Good
<1>5. ASSUME NEW c \in Comments' PROVE Shown(c)'
  <2>1. CASE comment'[c] # comment[c]
    BY <1>1, <1>5, <2>1 DEF Writes, Comments
  <2>2. CASE comment'[c] = comment[c]
    <3>1. c \in Ids /\ Shown(c) /\ comment[c] \in Comment
      BY <1>1, <1>5, <2>2 DEF Comments, Inv, TypeOK
    <3>2. Settled(c)' /\ c # r
      BY <1>1, <3>1, SettledLasts DEF Shown
    <3>3. comment[c].words \in Ids /\ Settled(comment[c].words)
      BY <3>1 DEF Shown, Comment
    <3>4. PICK w \in Ids : w = comment[c].words
      BY <3>3
    <3>5. Settled(w)'
      BY <1>1, <3>3, <3>4, SettledLasts
    <3>6. PICK p : p = comment[c].approver
      OBVIOUS
    <3>7. PICK t : t = comment[c].target
      OBVIOUS
    <3>8. ASSUME comment[c].published
          PROVE  /\ p \in Requests /\ p # w /\ req'[p].pc \in Final
                 /\ Permitted(req[p].caller, t, p)'
      <4>1. /\ p \in Requests /\ p # w /\ req[p].pc \in Final
            /\ Permitted(req[p].caller, t, p)
        BY <3>1, <3>4, <3>6, <3>7, <3>8 DEF Shown
      <4>2. p # r /\ req'[p] = req[p] /\ req[p].pc # "idle"
        BY <1>1, <4>1 DEF Onward, Final
      <4>3. PICK u : u = req[p].caller
        OBVIOUS
      <4>4. Permitted(u, t, p)'
        BY <1>1, <4>1, <4>2, <4>3, PermittedLasts
      <4> QED BY <4>1, <4>2, <4>3, <4>4
    <3> QED BY <2>2, <3>2, <3>4, <3>5, <3>6, <3>7, <3>8 DEF Shown
  <2> QED BY <2>1, <2>2
<1>6. ASSUME NEW u \in Users, token'[u] # Null PROVE Issued(token[u], u)'
  <2>1. PICK k \in Claims : token'[u] = k
    BY <1>1, <1>6 DEF TypeOK
  <2>2. Issued(k, u)'
    <3>1. CASE token[u] = k
      BY <1>1, <1>6, <2>1, <3>1, AccessAssumption, IssuedLasts DEF Inv
    <3>2. CASE token[u] # k
      BY <1>1, <2>1, <3>2 DEF Writes
    <3> QED BY <3>1, <3>2
  <2> QED BY <2>1, <2>2
<1> QED BY <1>1, <1>4, <1>5, <1>6 DEF Inv

-----------------------------------------------------------------------------
(* How a request begins and goes on.                                       *)
LEMMA Begun ==
    ASSUME Inv, NEW r \in Requests, NEW u \in Users, NEW local \in Local,
           local.pc \in Steps \cup Final, Begin(r, u, local)
    PROVE  /\ Onward(r) /\ req' \in [Requests -> Local]
           /\ earlier' \in [Requests -> SUBSET Requests] /\ req[r].pc = "idle"
           /\ req'[r].op = local.op /\ req'[r].pc = local.pc
           /\ req'[r].caller = u /\ req'[r].claims = token[u] /\ req'[r].at = now
           /\ req'[r].user = local.user /\ req'[r].author = local.author
           /\ req'[r].row = local.row /\ req'[r].class = local.class
           /\ req'[r].words = local.words /\ req'[r].publish = local.publish
           /\ Issued(token[u], u) /\ now < token[u].at + TTL
<1> DEFINE q == [local EXCEPT !.caller = u, !.claims = token[u], !.at = now]
<1>1. token[u] # Null /\ now < token[u].at + TTL /\ Start(r, q)
  BY DEF Begin, ExtractAuthUser
<1>2. Issued(token[u], u)
  BY <1>1 DEF Inv
<1>3. TypeOK /\ now \in Times /\ token[u] \in Claims
  BY <1>2 DEF Inv, TypeOK, Issued
<1>4. /\ q.op = local.op /\ q.pc = local.pc /\ q.caller = u /\ q.claims = token[u]
      /\ q.at = now /\ q.user = local.user /\ q.author = local.author
      /\ q.row = local.row /\ q.class = local.class
      /\ q.words = local.words /\ q.publish = local.publish
  BY DEF Local
<1>5. q \in Local
  BY <1>3 DEF Local
<1> HIDE DEF q
<1>6. /\ req[r].pc = "idle" /\ req' = [req EXCEPT ![r] = q]
      /\ earlier' = [earlier EXCEPT ![r] = {p \in Requests : req[p].pc \in Final}]
  BY <1>1 DEF Start
<1>7. /\ req'[r] = q /\ req' \in [Requests -> Local]
      /\ earlier' \in [Requests -> SUBSET Requests]
      /\ \A p \in Requests \ {r} : req'[p] = req[p] /\ earlier'[p] = earlier[p]
      /\ earlier'[r] = {p \in Requests : req[p].pc \in Final}
  BY <1>3, <1>5, <1>6 DEF TypeOK
<1>8. Onward(r)
  BY <1>4, <1>6, <1>7 DEF Onward, Steps, Final
<1> QED BY <1>1, <1>2, <1>4, <1>6, <1>7, <1>8

LEMMA Becoming ==
    ASSUME Inv, NEW r \in Requests, NEW local \in Local, req[r].pc \in Steps,
           local.pc \in Steps \cup Final, Become(r, local)
    PROVE  /\ Onward(r) /\ req' \in [Requests -> Local] /\ req'[r] = local
           /\ earlier' \in [Requests -> SUBSET Requests] /\ earlier' = earlier
           /\ \A p \in Requests \ {r} : req'[p] = req[p]
BY DEF Become, Onward, Inv, TypeOK, Steps, Final

LEMMA GoneTo ==
    ASSUME Inv, NEW r \in Requests, req[r].pc \in Steps,
           NEW pc \in Steps \cup Final, Goto(r, pc)
    PROVE  /\ Onward(r) /\ req' \in [Requests -> Local]
           /\ earlier' \in [Requests -> SUBSET Requests] /\ earlier' = earlier
           /\ \A p \in Requests \ {r} : req'[p] = req[p]
           /\ req'[r].pc = pc
           /\ req'[r].op = req[r].op /\ req'[r].caller = req[r].caller
           /\ req'[r].claims = req[r].claims /\ req'[r].at = req[r].at
           /\ req'[r].user = req[r].user /\ req'[r].author = req[r].author
           /\ req'[r].row = req[r].row /\ req'[r].class = req[r].class
           /\ req'[r].words = req[r].words /\ req'[r].publish = req[r].publish
<1>1. PICK local : local = [req[r] EXCEPT !.pc = pc]
  OBVIOUS
<1>2. req[r] \in Local
  BY DEF Inv, TypeOK
<1>3. local \in Local
  BY <1>1, <1>2 DEF Local
<1>4. /\ local.pc = pc
      /\ local.op = req[r].op /\ local.caller = req[r].caller
      /\ local.claims = req[r].claims /\ local.at = req[r].at
      /\ local.user = req[r].user /\ local.author = req[r].author
      /\ local.row = req[r].row /\ local.class = req[r].class
      /\ local.words = req[r].words /\ local.publish = req[r].publish
  BY <1>1, <1>2 DEF Local
<1>5. Become(r, local)
  BY <1>1 DEF Goto
<1> QED BY <1>3, <1>4, <1>5, Becoming

LEMMA OverFor ==
    ASSUME Inv, NEW r \in Requests, req[r].pc \in Steps,
           NEW pc \in Final, Over(r, pc)
    PROVE  /\ Onward(r) /\ req' \in [Requests -> Local]
           /\ earlier' \in [Requests -> SUBSET Requests]
           /\ req'[r].pc = pc
<1>1. PICK op : op = req[r].op
  OBVIOUS
<1>2. op \in Ops \cup {Null}
  BY <1>1 DEF Inv, TypeOK, Local
<1>3. PICK local : local = [NoLocal EXCEPT !.op = op, !.pc = pc]
  OBVIOUS
<1>4. /\ local = [op |-> op, pc |-> pc, caller |-> Null, claims |-> Null,
                  at |-> 0, user |-> Null, author |-> Null, row |-> Null,
                  class |-> Null, words |-> FALSE, publish |-> Null]
  BY <1>3 DEF NoLocal
<1>5. 0 \in Times
  BY AccessAssumption DEF Times
<1>6. local \in Local /\ local.pc = pc
  BY <1>2, <1>4, <1>5 DEF Local
<1>7. Become(r, local)
  BY <1>1, <1>3 DEF Over
<1> QED BY <1>6, <1>7, Becoming

(* A step that leaves the tables alone is good if its own request is.      *)
LEMMA Reads ==
    ASSUME Inv, NEW r \in Requests, Onward(r),
           req' \in [Requests -> Local], earlier' \in [Requests -> SUBSET Requests],
           UNCHANGED <<rows, token, now>>,
           (Sending(r) /\ Reading(r) /\ Checked(r))'
    PROVE  Good(r)
<1>1. UNCHANGED <<live, classAdmin, in, comment, event, token, now>>
  BY DEF rows, people
<1>2. TypeOK'
  BY <1>1 DEF Inv, TypeOK, Comments
<1>3. RolesLast(r)
  BY <1>1 DEF RolesLast, HasRole
<1>4. CommentsLast(r) /\ Writes(r)
  BY <1>1 DEF CommentsLast, Writes
<1> QED BY <1>2, <1>3, <1>4 DEF Good

LEMMA Finished ==
    ASSUME NEW r \in Requests, req'[r].pc \in Final
    PROVE  (Sending(r) /\ Reading(r) /\ Checked(r))'
BY DEF Sending, Reading, Checked, Steps, Final

-----------------------------------------------------------------------------
(* The requests' first statements.                                         *)
LEMMA Asks ==
    ASSUME Inv, NEW r \in Requests, NEW u \in Users, NEW local \in Local,
           Begin(r, u, local), UNCHANGED <<rows, token, now>>,
           local.pc \in Steps \cup Final,
           local.pc = "standing" => local.op \in {"moderate", "remove"},
           local.op \in {"comment", "delete"} => local.user \in Users,
           local.op \in {"create", "change", "cancel"} /\ local.pc \in Steps
              => local.row \in Ids /\ local.class \in Classes /\ local.pc # "write",
           local.op \in {"moderate", "remove"} /\ local.pc \in Steps
              => /\ local.row \in Comments
                 /\ local.user = comment[local.row].target
                 /\ local.author = comment[local.row].commenter,
           local.op = "moderate" /\ local.pc \in Steps
              => /\ local.words \/ local.publish # Null
                 /\ local.pc = IF local.publish = Null THEN "own" ELSE "standing",
           local.op = "remove" /\ local.pc \in Steps
              => /\ local.publish = Null /\ local.pc \in {"standing", "write"}
                 /\ local.pc = "write" => u = local.author
    PROVE  Good(r)
<1>1. /\ Onward(r) /\ req' \in [Requests -> Local]
      /\ earlier' \in [Requests -> SUBSET Requests] /\ req[r].pc = "idle"
      /\ req'[r].op = local.op /\ req'[r].pc = local.pc
      /\ req'[r].caller = u /\ req'[r].claims = token[u] /\ req'[r].at = now
      /\ req'[r].user = local.user /\ req'[r].author = local.author
      /\ req'[r].row = local.row /\ req'[r].class = local.class
      /\ req'[r].words = local.words /\ req'[r].publish = local.publish
      /\ Issued(token[u], u) /\ now < token[u].at + TTL
  BY Begun
<1>2. UNCHANGED <<live, classAdmin, comment, token>>
  BY DEF rows, people
<1>3. RolesLast(r)
  BY <1>2 DEF RolesLast, HasRole
<1>4. Issued(token[u], u)'
  <2>1. PICK k : k = token[u]
    OBVIOUS
  <2>2. Issued(k, u)'
    BY <1>1, <1>3, <2>1, IssuedLasts
  <2> QED BY <1>2, <2>1, <2>2
<1>5. Sending(r)'
  BY <1>1, <1>2, <1>4 DEF Sending
<1>6. Reading(r)'
  <2>1. SUFFICES ASSUME local.op \in {"moderate", "remove"}, local.pc \in Steps
                 PROVE  Reading(r)'
    BY <1>1 DEF Reading
  <2>2. local.row \in Ids /\ Settled(local.row)
    BY <2>1 DEF Comments, Inv, Shown
  <2>3. local.row # Old => local.row \in Requests \ {r} /\ req'[local.row].pc \in Final
    BY <1>1, <2>2 DEF Settled, Ids, Onward, Final
  <2> QED BY <1>1, <1>2, <2>1, <2>2, <2>3 DEF Reading
<1>7. Checked(r)'
  BY <1>1 DEF Checked, Steps
<1> QED BY <1>1, <1>5, <1>6, <1>7, Reads

LEMMA MissingStep ==
    ASSUME Inv, NEW r \in Requests, Missing(r)  PROVE Good(r)
<1>1. PICK op \in {"moderate", "remove", "change", "cancel", "delete", "role"},
           u \in Users : Begin(r, u, [NoLocal EXCEPT !.op = op, !.pc = "refused"])
  BY DEF Missing
<1>2. PICK local : local = [NoLocal EXCEPT !.op = op, !.pc = "refused"]
  OBVIOUS
<1>3. local = [op |-> op, pc |-> "refused", caller |-> Null, claims |-> Null,
               at |-> 0, user |-> Null, author |-> Null, row |-> Null,
               class |-> Null, words |-> FALSE, publish |-> Null]
  BY <1>2 DEF NoLocal
<1>4. local \in Local
  BY <1>3, AccessAssumption DEF Local, Ops, Final, Times
<1>5. Onward(r) /\ req' \in [Requests -> Local]
      /\ earlier' \in [Requests -> SUBSET Requests] /\ req'[r].pc = "refused"
  <2>1. Begin(r, u, local) /\ local.pc = "refused"
    BY <1>1, <1>2, <1>3
  <2> QED BY <1>4, <2>1, Begun DEF Final
<1>6. (Sending(r) /\ Reading(r) /\ Checked(r))'
  BY <1>5, Finished DEF Final
<1>7. UNCHANGED <<rows, token, now>>
  BY DEF Missing
<1> QED BY <1>5, <1>6, <1>7, Reads

LEMMA LoginReadStep ==
    ASSUME Inv, NEW r \in Requests, LoginRead(r)  PROVE Good(r)
<1>1. PICK u \in live :
        Start(r, [NoLocal EXCEPT !.op = "login", !.pc = "sign", !.caller = u,
                      !.claims = [admin |-> u \in Supers, at |-> 0,
                                  classAdmin |-> u \in classAdmin, by |-> r]])
  BY DEF LoginRead
<1>2. UNCHANGED <<rows, token, now, live, classAdmin>>
  BY DEF LoginRead, rows, people
<1>3. PICK k : k = [admin |-> u \in Supers, at |-> 0,
                    classAdmin |-> u \in classAdmin, by |-> r]
  OBVIOUS
<1>4. k \in Claims /\ k.by = r /\ k.admin = (u \in Supers)
      /\ k.classAdmin = (u \in classAdmin) /\ u \in Users
  BY <1>3, AccessAssumption DEF Claims, Times, Inv, TypeOK
<1>5. PICK local : local = [NoLocal EXCEPT !.op = "login", !.pc = "sign",
                                           !.caller = u, !.claims = k]
  OBVIOUS
<1>6. local = [op |-> "login", pc |-> "sign", caller |-> u, claims |-> k,
               at |-> 0, user |-> Null, author |-> Null, row |-> Null,
               class |-> Null, words |-> FALSE, publish |-> Null]
  BY <1>5 DEF NoLocal
<1>7. local \in Local
  BY <1>4, <1>6, AccessAssumption DEF Local, Ops, Steps, Times
<1>8. /\ req[r].pc = "idle" /\ req' = [req EXCEPT ![r] = local]
      /\ earlier' = [earlier EXCEPT ![r] = {p \in Requests : req[p].pc \in Final}]
  BY <1>1, <1>3, <1>5 DEF Start
<1>9. /\ req'[r] = local /\ req' \in [Requests -> Local]
      /\ earlier' \in [Requests -> SUBSET Requests]
      /\ \A p \in Requests \ {r} : req'[p] = req[p] /\ earlier'[p] = earlier[p]
      /\ earlier'[r] = {p \in Requests : req[p].pc \in Final}
  BY <1>7, <1>8 DEF Inv, TypeOK
<1>10. Onward(r)
  BY <1>6, <1>8, <1>9 DEF Onward, Final
<1>11. Issued(k, u)'
  <2>1. k.admin => u \in Supers
    BY <1>4
  <2>2. k.classAdmin => u \in classAdmin
    BY <1>4
  <2>3. k.admin \/ k.classAdmin => HasRole(u)'
    BY <1>2, <2>1, <2>2 DEF HasRole
  <2>4. req'[r].pc # "idle"
    BY <1>6, <1>9
  <2> QED BY <1>4, <2>3, <2>4 DEF Issued
<1>12. (Sending(r) /\ Reading(r) /\ Checked(r))'
  BY <1>4, <1>6, <1>9, <1>11 DEF Sending, Reading, Checked
<1> QED BY <1>2, <1>9, <1>10, <1>12, Reads

LEMMA CommentLookupStep ==
    ASSUME Inv, NEW r \in Requests, CommentLookup(r)  PROVE Good(r)
<1>1. PICK u \in Users, v \in Users :
        Begin(r, u, [[NoLocal EXCEPT !.op = "comment", !.user = v]
                        EXCEPT !.pc = IF {u, v} \subseteq live
                                      THEN "insert" ELSE "refused"])
  BY DEF CommentLookup
<1>2. PICK pc \in {"insert", "refused"} :
        pc = IF {u, v} \subseteq live THEN "insert" ELSE "refused"
  OBVIOUS
<1>3. PICK local : local = [[NoLocal EXCEPT !.op = "comment", !.user = v]
                               EXCEPT !.pc = pc]
  OBVIOUS
<1>4. local = [op |-> "comment", pc |-> pc, caller |-> Null, claims |-> Null,
               at |-> 0, user |-> v, author |-> Null, row |-> Null,
               class |-> Null, words |-> FALSE, publish |-> Null]
  BY <1>3 DEF NoLocal
<1>5. local \in Local
  BY <1>4, AccessAssumption DEF Local, Ops, Steps, Final, Times
<1>6. Begin(r, u, local)
  BY <1>1, <1>2, <1>3
<1>7. UNCHANGED <<rows, token, now>>
  BY DEF CommentLookup
<1> QED BY <1>4, <1>5, <1>6, <1>7, Asks DEF Steps, Final

LEMMA UpdateLookupStep ==
    ASSUME Inv, NEW r \in Requests, UpdateLookup(r)  PROVE Good(r)
<1>1. PICK u \in Users, c \in Comments, words \in BOOLEAN,
           publish \in BOOLEAN \cup {Null} :
        /\ words \/ publish # Null
        /\ Begin(r, u, [NoLocal EXCEPT !.op = "moderate", !.row = c,
                           !.words = words, !.publish = publish,
                           !.user = comment[c].target,
                           !.author = comment[c].commenter,
                           !.pc = IF publish = Null THEN "own" ELSE "standing"])
  BY DEF UpdateLookup
<1>2. PICK pc \in {"own", "standing"} :
        pc = IF publish = Null THEN "own" ELSE "standing"
  OBVIOUS
<1>3. PICK t : t = comment[c].target
  OBVIOUS
<1>4. PICK w : w = comment[c].commenter
  OBVIOUS
<1>5. c \in Ids /\ t \in Users /\ w \in Users
  BY <1>3, <1>4 DEF Comments, Comment, Inv, TypeOK
<1>6. PICK local : local = [NoLocal EXCEPT !.op = "moderate", !.row = c,
                           !.words = words, !.publish = publish,
                           !.user = t, !.author = w, !.pc = pc]
  OBVIOUS
<1>7. local = [op |-> "moderate", pc |-> pc, caller |-> Null, claims |-> Null,
               at |-> 0, user |-> t, author |-> w, row |-> c,
               class |-> Null, words |-> words, publish |-> publish]
  BY <1>6 DEF NoLocal
<1>8. local \in Local
  BY <1>5, <1>7, AccessAssumption DEF Local, Ops, Steps, Times
<1>9. Begin(r, u, local)
  BY <1>1, <1>2, <1>3, <1>4, <1>6
<1>10. UNCHANGED <<rows, token, now>>
  BY DEF UpdateLookup
<1> QED BY <1>1, <1>2, <1>3, <1>4, <1>7, <1>8, <1>9, <1>10, Asks DEF Steps, Final

LEMMA RemoveLookupStep ==
    ASSUME Inv, NEW r \in Requests, RemoveLookup(r)  PROVE Good(r)
<1>1. PICK u \in Users, c \in Comments :
        Begin(r, u, [NoLocal EXCEPT !.op = "remove", !.row = c,
                           !.user = comment[c].target,
                           !.author = comment[c].commenter,
                           !.pc = IF u = comment[c].commenter THEN "write"
                                  ELSE "standing"])
  BY DEF RemoveLookup
<1>2. PICK t : t = comment[c].target
  OBVIOUS
<1>3. PICK w : w = comment[c].commenter
  OBVIOUS
<1>4. PICK pc \in {"write", "standing"} : pc = IF u = w THEN "write" ELSE "standing"
  OBVIOUS
<1>5. c \in Ids /\ t \in Users /\ w \in Users
  BY <1>2, <1>3 DEF Comments, Comment, Inv, TypeOK
<1>6. PICK local : local = [NoLocal EXCEPT !.op = "remove", !.row = c,
                               !.user = t, !.author = w, !.pc = pc]
  OBVIOUS
<1>7. local = [op |-> "remove", pc |-> pc, caller |-> Null, claims |-> Null,
               at |-> 0, user |-> t, author |-> w, row |-> c,
               class |-> Null, words |-> FALSE, publish |-> Null]
  BY <1>6 DEF NoLocal
<1>8. local \in Local
  BY <1>5, <1>7, AccessAssumption DEF Local, Ops, Steps, Times
<1>9. Begin(r, u, local)
  BY <1>1, <1>2, <1>3, <1>4, <1>6
<1>10. UNCHANGED <<rows, token, now>>
  BY DEF RemoveLookup
<1> QED BY <1>2, <1>3, <1>4, <1>7, <1>8, <1>9, <1>10, Asks DEF Steps, Final

LEMMA EventLookupsStep ==
    ASSUME Inv, NEW r \in Requests, CreateLookup(r) \/ EventLookup(r)  PROVE Good(r)
<1>1. PICK u \in Users, op \in {"create", "change", "cancel"}, e \in Ids,
           k \in Classes :
        Begin(r, u, [NoLocal EXCEPT !.op = op, !.pc = "member", !.row = e, !.class = k])
  <2>1. CASE CreateLookup(r)
    BY <2>1 DEF CreateLookup, Ids
  <2>2. CASE EventLookup(r)
    BY <2>2 DEF EventLookup, Events, Event, Inv, TypeOK
  <2> QED BY <2>1, <2>2
<1>2. PICK local : local = [NoLocal EXCEPT !.op = op, !.pc = "member",
                                           !.row = e, !.class = k]
  OBVIOUS
<1>3. local = [op |-> op, pc |-> "member", caller |-> Null, claims |-> Null,
               at |-> 0, user |-> Null, author |-> Null, row |-> e,
               class |-> k, words |-> FALSE, publish |-> Null]
  BY <1>2 DEF NoLocal
<1>4. local \in Local
  BY <1>3, AccessAssumption DEF Local, Ops, Steps, Times
<1>5. Begin(r, u, local)
  BY <1>1, <1>2
<1>6. UNCHANGED <<rows, token, now>>
  BY DEF CreateLookup, EventLookup
<1> QED BY <1>3, <1>4, <1>5, <1>6, Asks DEF Steps, Final

LEMMA DeleteLookupStep ==
    ASSUME Inv, NEW r \in Requests, DeleteLookup(r)  PROVE Good(r)
<1>1. PICK u \in Users, v \in live :
        Begin(r, u, [NoLocal EXCEPT !.op = "delete", !.pc = "shared", !.user = v])
  BY DEF DeleteLookup
<1>2. PICK local : local = [NoLocal EXCEPT !.op = "delete", !.pc = "shared",
                                           !.user = v]
  OBVIOUS
<1>3. local = [op |-> "delete", pc |-> "shared", caller |-> Null, claims |-> Null,
               at |-> 0, user |-> v, author |-> Null, row |-> Null,
               class |-> Null, words |-> FALSE, publish |-> Null]
  BY <1>2 DEF NoLocal
<1>4. v \in Users
  BY DEF Inv, TypeOK
<1>5. local \in Local
  BY <1>3, <1>4, AccessAssumption DEF Local, Ops, Steps, Times
<1>6. Begin(r, u, local)
  BY <1>1, <1>2
<1>7. UNCHANGED <<rows, token, now>>
  BY DEF DeleteLookup
<1> QED BY <1>3, <1>4, <1>5, <1>6, <1>7, Asks DEF Steps, Final

-----------------------------------------------------------------------------
(* The checks of a request under way.                                      *)
LEMMA GoesOn ==
    ASSUME Inv, NEW r \in Requests, req[r].pc \in Steps \ {"sign"},
           NEW pc \in (Steps \ {"sign", "standing"}) \cup Final, Goto(r, pc),
           UNCHANGED <<rows, token, now>>,
           req[r].op \in {"create", "change", "cancel"} /\ pc = "write"
              => req[r].claims.admin \/ req[r].claims.classAdmin,
           (\/ /\ req[r].op = "moderate" /\ req[r].publish # Null
               /\ pc \in {"shared", "own", "write"}
            \/ req[r].op = "remove" /\ pc = "shared"
            \/ req[r].op = "remove" /\ pc = "write" /\ req[r].caller # req[r].author)
              => Permitted(req[r].caller, req[r].user, r),
           req[r].op = "moderate" /\ req[r].publish = Null /\ pc = "write"
              => req[r].caller = req[r].author
    PROVE  Good(r)
<1>1. /\ Onward(r) /\ req' \in [Requests -> Local]
      /\ earlier' \in [Requests -> SUBSET Requests] /\ earlier' = earlier
      /\ \A p \in Requests \ {r} : req'[p] = req[p]
      /\ req'[r].pc = pc
      /\ req'[r].op = req[r].op /\ req'[r].caller = req[r].caller
      /\ req'[r].claims = req[r].claims /\ req'[r].at = req[r].at
      /\ req'[r].user = req[r].user /\ req'[r].author = req[r].author
      /\ req'[r].row = req[r].row /\ req'[r].class = req[r].class
      /\ req'[r].words = req[r].words /\ req'[r].publish = req[r].publish
  BY GoneTo
<1>2. UNCHANGED <<live, classAdmin, comment>>
  BY DEF rows, people
<1>3. RolesLast(r) /\ Sending(r) /\ Reading(r)
  BY <1>2 DEF RolesLast, HasRole, Inv, Sound
<1>4. req[r].pc # "idle" /\ req[r].pc \notin Final
  BY DEF Steps, Final
<1>5. PICK k : k = req[r].claims
  OBVIOUS
<1>6. PICK u : u = req[r].caller
  OBVIOUS
<1>7. PICK t : t = req[r].user
  OBVIOUS
<1>8. Issued(k, u)'
  BY <1>1, <1>3, <1>5, <1>6, IssuedLasts DEF Sending
<1>9. Sending(r)'
  <2>1. Issued(req[r].claims, req[r].caller)'
    BY <1>1, <1>5, <1>6, <1>8
  <2>2. pc # "sign" /\ pc # "standing"
    BY DEF Final
  <2> QED BY <1>1, <1>3, <2>1, <2>2 DEF Sending
<1>10. Reading(r)'
  <2>1. SUFFICES ASSUME req[r].op \in {"moderate", "remove"}
                 PROVE  Reading(r)'
    BY <1>1 DEF Reading
  <2>2. /\ req[r].row \in Ids
        /\ req[r].row # Old => /\ req[r].row \in Requests \ {r}
                               /\ req'[req[r].row].pc \in Final
    BY <1>1, <1>3, <1>4, <2>1 DEF Reading, Ids
  <2> QED BY <1>1, <1>2, <1>3, <2>1, <2>2 DEF Reading
<1>11. Checked(r)'
  <2>1. ASSUME Permitted(u, t, r) PROVE Permitted(u, t, r)'
    BY <1>1, <1>3, <1>4, <2>1, PermittedLasts
  <2>2. ASSUME Permitted(req[r].caller, req[r].user, r)
        PROVE  Permitted(req[r].caller, req[r].user, r)'
    <3>1. Permitted(u, t, r)
      BY <1>6, <1>7, <2>2
    <3>2. Permitted(u, t, r)'
      BY <2>1, <3>1
    <3>3. u = req'[r].caller /\ t = req'[r].user
      BY <1>1, <1>6, <1>7
    <3> QED BY <3>2, <3>3
  <2> QED BY <1>1, <2>2 DEF Checked
<1> QED BY <1>1, <1>9, <1>10, <1>11, Reads

LEMMA Refusing ==
    ASSUME Inv, NEW r \in Requests, req[r].pc \in Steps,
           Over(r, "refused"), UNCHANGED <<rows, token, now>>
    PROVE  Good(r)
<1>1. /\ Onward(r) /\ req' \in [Requests -> Local]
      /\ earlier' \in [Requests -> SUBSET Requests] /\ req'[r].pc = "refused"
  BY OverFor DEF Final
<1> QED BY <1>1, Finished, Reads DEF Final

LEMMA StandingStep ==
    ASSUME Inv, NEW r \in Requests, Standing(r)  PROVE Good(r)
<1>1. req[r].pc = "standing" /\ UNCHANGED <<rows, token, now>>
  BY DEF Standing
<1>2. CASE Over(r, "refused")
  BY <1>1, <1>2, Refusing DEF Steps
<1>3. CASE ~Over(r, "refused")
  <2>1. Permitted(req[r].caller, req[r].user, r)
    BY <1>3 DEF Standing, Permitted, HasRole
  <2>2. PICK pc \in {"write", "own", "shared"} :
            /\ Goto(r, pc)
            /\ req[r].op = "moderate" /\ pc = "write" => ~req[r].words
    BY <1>3 DEF Standing, Granted
  <2>3. req[r].op = "moderate" /\ ~req[r].words => req[r].publish # Null
    BY <1>1 DEF Inv, Sound, Reading, Steps
  <2>4. req[r].op \notin {"create", "change", "cancel"}
    BY <1>1 DEF Inv, Sound, Sending, Steps
  <2> QED BY <1>1, <2>1, <2>2, <2>3, <2>4, GoesOn DEF Steps
<1> QED BY <1>2, <1>3

LEMMA SharedClassStep ==
    ASSUME Inv, NEW r \in Requests, SharedClass(r)  PROVE Good(r)
<1>1. /\ req[r].pc = "shared" /\ req[r].op \in {"moderate", "remove"}
      /\ UNCHANGED <<rows, token, now>>
  BY DEF SharedClass
<1>2. CASE Over(r, "refused")
  BY <1>1, <1>2, Refusing DEF Steps
<1>3. CASE ~Over(r, "refused")
  <2>1. Checked(r) /\ Reading(r)
    BY DEF Inv, Sound
  <2>2. PICK pc \in {"write", "own"} :
            /\ Goto(r, pc)
            /\ req[r].op = "moderate" /\ pc = "write" => ~req[r].words
    BY <1>3 DEF SharedClass, Granted
  <2>3. req[r].op = "moderate" /\ ~req[r].words => req[r].publish # Null
    BY <1>1, <2>1 DEF Reading, Steps
  <2>4. req[r].op = "remove" \/ req[r].publish # Null
        => Permitted(req[r].caller, req[r].user, r)
    BY <1>1, <2>1 DEF Checked
  <2> QED BY <1>1, <2>2, <2>3, <2>4, GoesOn DEF Steps
<1> QED BY <1>2, <1>3

LEMMA OwnWordsStep ==
    ASSUME Inv, NEW r \in Requests, OwnWords(r)  PROVE Good(r)
<1>1. /\ req[r].pc = "own" /\ req[r].op = "moderate"
      /\ UNCHANGED <<rows, token, now>>
  BY DEF OwnWords, At
<1>2. CASE req[r].caller # req[r].author
  <2>1. Over(r, "refused")
    BY <1>2 DEF OwnWords
  <2> QED BY <1>1, <2>1, Refusing DEF Steps
<1>3. CASE req[r].caller = req[r].author
  <2>1. Goto(r, "write")
    BY <1>3 DEF OwnWords
  <2>2. req[r].publish # Null => Permitted(req[r].caller, req[r].user, r)
    BY <1>1 DEF Inv, Sound, Checked
  <2> QED BY <1>1, <1>3, <2>1, <2>2, GoesOn DEF Steps
<1> QED BY <1>2, <1>3

LEMMA EventCheckStep ==
    ASSUME Inv, NEW r \in Requests, EventCheck(r)  PROVE Good(r)
<1>1. /\ req[r].pc = "member" /\ req[r].op \in {"create", "change", "cancel"}
      /\ UNCHANGED <<rows, token, now>>
  BY DEF EventCheck
<1>2. CASE Over(r, "refused")
  BY <1>1, <1>2, Refusing DEF Steps
<1>3. CASE ~Over(r, "refused")
  <2>1. Goto(r, "write") /\ (req[r].claims.admin \/ req[r].claims.classAdmin)
    BY <1>3 DEF EventCheck, CanManageEvent
  <2> QED BY <1>1, <2>1, GoesOn DEF Steps
<1> QED BY <1>2, <1>3

LEMMA DeleteCheckStep ==
    ASSUME Inv, NEW r \in Requests, DeleteCheck(r)  PROVE Good(r)
<1>1. /\ req[r].pc = "shared" /\ req[r].op = "delete"
      /\ UNCHANGED <<rows, token, now>>
  BY DEF DeleteCheck, At
<1>2. CASE Over(r, "refused")
  BY <1>1, <1>2, Refusing DEF Steps
<1>3. CASE ~Over(r, "refused")
  <2>1. Goto(r, "write")
    BY <1>3 DEF DeleteCheck
  <2> QED BY <1>1, <2>1, GoesOn DEF Steps
<1> QED BY <1>2, <1>3

-----------------------------------------------------------------------------
(* The statements that write.  Each is its request's last.                 *)
LEMMA LoginSignStep ==
    ASSUME Inv, NEW r \in Requests, LoginSign(r)  PROVE Good(r)
<1>1. PICK u : u = req[r].caller
  OBVIOUS
<1>2. PICK old : old = req[r].claims
  OBVIOUS
<1>3. PICK k : k = [old EXCEPT !.at = now]
  OBVIOUS
<1>4. /\ req[r].pc = "sign" /\ Goto(r, "ok")
      /\ token' = [token EXCEPT ![u] = k]
      /\ UNCHANGED <<live, classAdmin, in, comment, event, now>>
  BY <1>1, <1>2, <1>3 DEF LoginSign, At, rows, people
<1>5. TypeOK /\ u \in Users /\ Issued(old, u)
  BY <1>1, <1>2, <1>4 DEF Inv, Sound, Sending, Steps
<1>6. /\ k \in Claims /\ k.admin = old.admin /\ k.classAdmin = old.classAdmin
      /\ k.by = old.by
  BY <1>3, <1>5 DEF Issued, Claims, TypeOK
<1>7. /\ Onward(r) /\ req' \in [Requests -> Local]
      /\ earlier' \in [Requests -> SUBSET Requests] /\ req'[r].pc = "ok"
  BY <1>4, GoneTo DEF Steps, Final
<1>8. TypeOK'
  BY <1>4, <1>5, <1>6, <1>7 DEF TypeOK, Comments
<1>9. RolesLast(r) /\ CommentsLast(r)
  BY <1>4 DEF RolesLast, HasRole, CommentsLast
<1>10. Issued(k, u)'
  <2>1. Issued(k, u)
    BY <1>5, <1>6 DEF Issued
  <2> QED BY <1>7, <1>9, <2>1, IssuedLasts
<1>11. Writes(r)
  <2>1. \A v \in Users : v # u => token'[v] = token[v]
    BY <1>4, <1>5 DEF TypeOK
  <2>2. token'[u] = k
    BY <1>4, <1>5 DEF TypeOK
  <2> QED BY <1>4, <1>10, <2>1, <2>2 DEF Writes
<1> QED BY <1>7, <1>8, <1>9, <1>11, Finished DEF Good, Final

LEMMA CommentInsertStep ==
    ASSUME Inv, NEW r \in Requests, CommentInsert(r)  PROVE Good(r)
<1>1. req[r].pc = "insert" /\ req[r].op = "comment"
  BY DEF CommentInsert, At
<1>2. CASE ~({req[r].user, req[r].caller} \subseteq live)
  <2>1. Goto(r, "failed") /\ UNCHANGED <<rows, token, now>>
    BY <1>2 DEF CommentInsert, rows, people
  <2> QED BY <1>1, <2>1, GoesOn DEF Steps, Final
<1>3. CASE {req[r].user, req[r].caller} \subseteq live
  <2>1. PICK t, u, new : /\ t = req[r].user /\ u = req[r].caller
                         /\ new = [target |-> t, commenter |-> u, published |-> FALSE,
                                   words |-> r, approver |-> Null]
    OBVIOUS
  <2>2. /\ comment' = [comment EXCEPT ![r] = new] /\ Goto(r, "ok")
        /\ UNCHANGED <<live, classAdmin, in, event, token, now>>
    BY <1>3, <2>1 DEF CommentInsert, people
  <2>3. TypeOK /\ t \in live /\ u \in live /\ live \subseteq Users /\ r \in Ids
    BY <1>3, <2>1 DEF Inv, TypeOK, Ids
  <2>4. new \in Comment /\ new.target = t /\ new.commenter = u
        /\ new.words = r /\ new.published = FALSE
    BY <2>1, <2>3 DEF Comment
  <2>5. /\ Onward(r) /\ req' \in [Requests -> Local]
        /\ earlier' \in [Requests -> SUBSET Requests] /\ req'[r].pc = "ok"
    BY <1>1, <2>2, GoneTo DEF Steps, Final
  <2>6. \A c \in Ids : comment'[c] = IF c = r THEN new ELSE comment[c]
    BY <2>2, <2>3 DEF TypeOK
  <2>7. TypeOK'
    <3>1. comment' \in [Ids -> Comment \cup {Null}]
      BY <2>2, <2>3, <2>4 DEF TypeOK
    <3>2. \A c \in Comments' : {comment'[c].target, comment'[c].commenter} \subseteq live
      BY <2>3, <2>4, <2>6 DEF TypeOK, Comments
    <3> QED BY <2>2, <2>3, <2>5, <3>1, <3>2 DEF TypeOK
  <2>8. RolesLast(r) /\ CommentsLast(r)
    BY <2>2, <2>6 DEF RolesLast, HasRole, CommentsLast
  <2>9. Writes(r)
    <3>1. Shown(r)'
      BY <2>3, <2>4, <2>5, <2>6 DEF Shown, Settled, Final
    <3> QED BY <2>2, <2>6, <3>1 DEF Writes
  <2> QED BY <2>5, <2>7, <2>8, <2>9, Finished DEF Good, Final
<1> QED BY <1>2, <1>3

LEMMA UpdateCommentStep ==
    ASSUME Inv, NEW r \in Requests, UpdateComment(r)  PROVE Good(r)
<1>1. req[r].pc = "write" /\ req[r].op = "moderate"
  BY DEF UpdateComment, At
<1>2. PICK i : i = req[r].row
  OBVIOUS
<1>3. PICK old : old = comment[i]
  OBVIOUS
<1>4. CASE old = Null
  <2>1. Over(r, "refused") /\ UNCHANGED <<rows, token, now>>
    BY <1>2, <1>3, <1>4 DEF UpdateComment, rows, people
  <2> QED BY <1>1, <2>1, Refusing DEF Steps
<1>5. CASE old # Null
  <2>1. /\ TypeOK /\ Reading(r) /\ Checked(r) /\ req[r] \in Local
        /\ req[r].caller \in Users
    BY <1>1 DEF Inv, Sound, TypeOK, Sending, Steps
  <2>2. /\ i \in Ids /\ (i # Old => req[i].pc \in Final)
        /\ old.target = req[r].user
        /\ req[r].words \/ req[r].publish # Null
    BY <1>1, <1>2, <1>3, <1>5, <2>1 DEF Reading, Steps
  <2>3. i \in Comments /\ old \in Comment /\ Shown(i)
    BY <1>3, <1>5, <2>1, <2>2 DEF Comments, Inv, TypeOK
  <2>4. PICK p \in BOOLEAN : /\ p = (~req[r].words /\ req[r].publish)
                             /\ p => ~req[r].words /\ req[r].publish # Null
    <3>1. req[r].words \in BOOLEAN /\ req[r].publish \in BOOLEAN \cup {Null}
      BY <2>1 DEF Local
    <3>2. CASE req[r].words
      BY <3>1, <3>2
    <3>3. CASE ~req[r].words
      BY <2>2, <3>1, <3>3
    <3> QED BY <3>2, <3>3
  <2>5. PICK new : new = [old EXCEPT !.words = IF req[r].words THEN r ELSE @,
                                     !.published = p,
                                     !.approver = IF p THEN r ELSE Null]
    OBVIOUS
  <2>6. /\ comment' = [comment EXCEPT ![i] = new] /\ Goto(r, "ok")
        /\ UNCHANGED <<live, classAdmin, in, event, token, now>>
    BY <1>2, <1>3, <1>5, <2>4, <2>5 DEF UpdateComment, people
  <2>7. /\ new.target = old.target /\ new.commenter = old.commenter
        /\ new.words = (IF req[r].words THEN r ELSE old.words)
        /\ new.published = p /\ new.approver = (IF p THEN r ELSE Null)
        /\ new \in Comment
    BY <2>3, <2>5 DEF Comment, Ids
  <2>8. /\ Onward(r) /\ req' \in [Requests -> Local]
        /\ earlier' \in [Requests -> SUBSET Requests] /\ req'[r].pc = "ok"
        /\ req'[r].caller = req[r].caller
    BY <1>1, <2>6, GoneTo DEF Steps, Final
  <2>9. \A c \in Ids : comment'[c] = IF c = i THEN new ELSE comment[c]
    BY <2>1, <2>6 DEF TypeOK
  <2>10. RolesLast(r) /\ CommentsLast(r)
    BY <1>3, <1>5, <2>6, <2>7, <2>9 DEF RolesLast, HasRole, CommentsLast
  <2>11. TypeOK'
    <3>1. comment' \in [Ids -> Comment \cup {Null}]
      BY <2>1, <2>6, <2>7 DEF TypeOK
    <3>2. \A c \in Comments' : {comment'[c].target, comment'[c].commenter} \subseteq live
      BY <1>3, <2>1, <2>3, <2>7, <2>9 DEF TypeOK, Comments
    <3> QED BY <2>1, <2>6, <2>8, <3>1, <3>2 DEF TypeOK
  <2>12. Shown(i)'
    <3>1. Settled(i)' /\ i # r
      BY <2>3, <2>8, SettledLasts DEF Shown, Comments
    <3>2. old.words \in Ids /\ Settled(old.words)
      BY <1>3, <2>3 DEF Shown, Comment
    <3>3. PICK w : w = old.words
      OBVIOUS
    <3>4. w # r /\ Settled(w)' /\ Settled(r)'
      BY <2>8, <3>2, <3>3, SettledLasts DEF Settled, Final
    <3>5. PICK v : v = new.words
      OBVIOUS
    <3>6. Settled(v)' /\ (p => r # v)
      BY <2>4, <2>7, <3>3, <3>4, <3>5
    <3>7. PICK u, t : u = req[r].caller /\ t = new.target
      OBVIOUS
    <3>8. ASSUME p PROVE Permitted(u, t, r)'
      <4>1. Permitted(u, t, r)
        BY <1>1, <2>1, <2>2, <2>4, <2>7, <3>7, <3>8 DEF Checked
      <4> QED BY <1>1, <2>8, <2>10, <4>1, PermittedLasts
    <3> QED BY <2>2, <2>7, <2>8, <2>9, <3>1, <3>5, <3>6, <3>7, <3>8 DEF Shown, Final
  <2>13. Writes(r)
    BY <2>6, <2>9, <2>12 DEF Writes
  <2> QED BY <2>8, <2>10, <2>11, <2>13, Finished DEF Good, Final
<1> QED BY <1>4, <1>5

LEMMA DeleteCommentStep ==
    ASSUME Inv, NEW r \in Requests, DeleteComment(r)  PROVE Good(r)
<1>1. /\ req[r].pc = "write" /\ Over(r, "ok")
      /\ comment' = [comment EXCEPT ![req[r].row] = Null]
      /\ UNCHANGED <<live, classAdmin, in, event, token, now>>
  BY DEF DeleteComment, At, people
<1>2. /\ Onward(r) /\ req' \in [Requests -> Local]
      /\ earlier' \in [Requests -> SUBSET Requests] /\ req'[r].pc = "ok"
  BY <1>1, OverFor DEF Steps, Final
<1>3. \A c \in Ids : comment'[c] \in {Null, comment[c]}
  BY <1>1 DEF Inv, TypeOK
<1>4. TypeOK'
  <2>1. comment' \in [Ids -> Comment \cup {Null}]
    BY <1>1 DEF Inv, TypeOK
  <2> QED BY <1>1, <1>2, <1>3, <2>1 DEF Inv, TypeOK, Comments
<1>5. RolesLast(r) /\ CommentsLast(r) /\ Writes(r)
  BY <1>1, <1>3 DEF RolesLast, HasRole, CommentsLast, Writes
<1> QED BY <1>2, <1>4, <1>5, Finished DEF Good, Final

LEMMA EventWriteStep ==
    ASSUME Inv, NEW r \in Requests, EventWrite(r)  PROVE Good(r)
<1>1. /\ req[r].pc = "write" /\ req[r].op \in {"create", "change", "cancel"}
      /\ Over(r, "ok")
      /\ UNCHANGED <<live, classAdmin, in, comment, token, now>>
  BY DEF EventWrite, people
<1>2. PICK e \in Ids, k \in Classes : e = req[r].row /\ k = req[r].class
  BY <1>1 DEF Inv, Sound, Sending, Steps
<1>3. PICK old : old = event[e]
  OBVIOUS
<1>4. PICK new : new = [class |-> k, by |-> r]
  OBVIOUS
<1>5. new \in Event /\ old \in Event \cup {Null}
  BY <1>2, <1>3, <1>4 DEF Event, Ids, Inv, TypeOK
<1>6. PICK v : v = CASE req[r].op = "create" -> new
                     [] req[r].op = "cancel" -> Null
                     [] OTHER -> IF old = Null THEN Null ELSE new
  OBVIOUS
<1>7. v \in Event \cup {Null}
  BY <1>1, <1>5, <1>6
<1>8. event' = [event EXCEPT ![e] = v]
  BY <1>2, <1>3, <1>4, <1>6 DEF EventWrite, Inv, TypeOK
<1>9. event' \in [Ids -> Event \cup {Null}]
  BY <1>7, <1>8 DEF Inv, TypeOK
<1>10. /\ Onward(r) /\ req' \in [Requests -> Local]
       /\ earlier' \in [Requests -> SUBSET Requests] /\ req'[r].pc = "ok"
  BY <1>1, OverFor DEF Steps, Final
<1>11. TypeOK'
  BY <1>1, <1>9, <1>10 DEF Inv, TypeOK, Comments
<1>12. RolesLast(r) /\ CommentsLast(r) /\ Writes(r)
  BY <1>1 DEF RolesLast, HasRole, CommentsLast, Writes
<1> QED BY <1>10, <1>11, <1>12, Finished DEF Good, Final

LEMMA SetClassAdminStep ==
    ASSUME Inv, NEW r \in Requests, SetClassAdmin(r)  PROVE Good(r)
<1>1. PICK u \in Users, v \in live, promote \in BOOLEAN :
         /\ Begin(r, u, [NoLocal EXCEPT !.op = "role", !.pc = "ok", !.user = v])
         /\ classAdmin' = IF promote THEN classAdmin \cup {v} ELSE classAdmin \ {v}
  BY DEF SetClassAdmin
<1>2. UNCHANGED <<live, in, comment, event, token, now>>
  BY DEF SetClassAdmin
<1>3. PICK local : local = [NoLocal EXCEPT !.op = "role", !.pc = "ok", !.user = v]
  OBVIOUS
<1>4. local = [op |-> "role", pc |-> "ok", caller |-> Null, claims |-> Null,
               at |-> 0, user |-> v, author |-> Null, row |-> Null,
               class |-> Null, words |-> FALSE, publish |-> Null]
  BY <1>3 DEF NoLocal
<1>5. v \in Users /\ TypeOK
  BY DEF Inv, TypeOK
<1>6. local \in Local
  BY <1>4, <1>5, AccessAssumption DEF Local, Ops, Final, Times
<1>7. Begin(r, u, local)
  BY <1>1, <1>3
<1>8. /\ Onward(r) /\ req' \in [Requests -> Local]
      /\ earlier' \in [Requests -> SUBSET Requests]
      /\ req'[r].op = "role" /\ req'[r].pc = "ok" /\ req'[r].user = v
  BY <1>4, <1>6, <1>7, Begun DEF Final
<1>9. classAdmin' \subseteq live
  BY <1>1, <1>5 DEF TypeOK
<1>10. TypeOK'
  BY <1>2, <1>5, <1>8, <1>9 DEF TypeOK, Comments
<1>11. \A w \in Users : w # v /\ w \in classAdmin => w \in classAdmin'
  BY <1>1
<1>12. RolesLast(r)
  BY <1>2, <1>8, <1>11 DEF RolesLast, HasRole, Demotes
<1>13. CommentsLast(r) /\ Writes(r)
  BY <1>2 DEF CommentsLast, Writes
<1> QED BY <1>8, <1>10, <1>12, <1>13, Finished DEF Good, Final

LEMMA MoveUserStep ==
    ASSUME Inv, NEW r \in Requests, MoveUser(r)  PROVE Good(r)
<1>1. PICK u \in Users, v \in live, k \in Classes :
         /\ Begin(r, u, [NoLocal EXCEPT !.op = "move", !.pc = "ok", !.user = v])
         /\ in' = [in EXCEPT ![v] = {k}]
  BY DEF MoveUser
<1>2. UNCHANGED <<live, classAdmin, comment, event, token, now>>
  BY DEF MoveUser
<1>3. PICK local : local = [NoLocal EXCEPT !.op = "move", !.pc = "ok", !.user = v]
  OBVIOUS
<1>4. local = [op |-> "move", pc |-> "ok", caller |-> Null, claims |-> Null,
               at |-> 0, user |-> v, author |-> Null, row |-> Null,
               class |-> Null, words |-> FALSE, publish |-> Null]
  BY <1>3 DEF NoLocal
<1>5. v \in Users /\ TypeOK
  BY DEF Inv, TypeOK
<1>6. local \in Local
  BY <1>4, <1>5, AccessAssumption DEF Local, Ops, Final, Times
<1>7. Begin(r, u, local)
  BY <1>1, <1>3
<1>8. /\ Onward(r) /\ req' \in [Requests -> Local]
      /\ earlier' \in [Requests -> SUBSET Requests] /\ req'[r].pc = "ok"
  BY <1>4, <1>6, <1>7, Begun DEF Final
<1>9. in' \in [Users -> SUBSET Classes]
  BY <1>1, <1>5 DEF TypeOK
<1>10. TypeOK'
  BY <1>2, <1>5, <1>8, <1>9 DEF TypeOK, Comments
<1>11. RolesLast(r) /\ CommentsLast(r) /\ Writes(r)
  BY <1>2 DEF RolesLast, HasRole, CommentsLast, Writes
<1> QED BY <1>8, <1>10, <1>11, Finished DEF Good, Final

LEMMA DeleteUserStep ==
    ASSUME Inv, NEW r \in Requests, DeleteUser(r)  PROVE Good(r)
<1>1. PICK u : u = req[r].user
  OBVIOUS
<1>2. /\ req[r].op = "delete" /\ req[r].pc = "write" /\ Goto(r, "ok")
      /\ live' = live \ {u} /\ classAdmin' = classAdmin \ {u}
      /\ in' = [in EXCEPT ![u] = {}]
      /\ comment' = [c \in Ids |-> IF comment[c] # Null
                                      /\ u \in {comment[c].target, comment[c].commenter}
                                   THEN Null ELSE comment[c]]
      /\ UNCHANGED <<event, token, now>>
  BY <1>1 DEF DeleteUser, At
<1>3. TypeOK
  BY DEF Inv
<1>4. /\ Onward(r) /\ req' \in [Requests -> Local]
      /\ earlier' \in [Requests -> SUBSET Requests]
      /\ req'[r].op = "delete" /\ req'[r].pc = "ok" /\ req'[r].user = u
  BY <1>1, <1>2, GoneTo DEF Steps, Final
<1>5. \A c \in Ids : \/ comment'[c] = Null
                     \/ /\ comment'[c] = comment[c]
                        /\ u \notin {comment[c].target, comment[c].commenter}
  BY <1>2
<1>6. TypeOK'
  <2>1. live' \subseteq Users /\ classAdmin' \subseteq live'
    BY <1>2, <1>3 DEF TypeOK
  <2>2. in' \in [Users -> SUBSET Classes]
    BY <1>2, <1>3 DEF TypeOK
  <2>3. comment' \in [Ids -> Comment \cup {Null}]
    BY <1>2, <1>3 DEF TypeOK
  <2>4. \A c \in Comments' : {comment'[c].target, comment'[c].commenter} \subseteq live'
    BY <1>2, <1>3, <1>5 DEF TypeOK, Comments
  <2> QED BY <1>2, <1>3, <1>4, <2>1, <2>2, <2>3, <2>4 DEF TypeOK
<1>7. RolesLast(r)
  BY <1>2, <1>4 DEF RolesLast, HasRole, Demotes
<1>8. CommentsLast(r) /\ Writes(r)
  BY <1>2, <1>5 DEF CommentsLast, Writes
<1> QED BY <1>4, <1>6, <1>7, <1>8, Finished DEF Good, Final

-----------------------------------------------------------------------------
(* Time alone changes none of this.                                        *)
LEMMA TickStep ==
    ASSUME Inv, Tick \/ UNCHANGED vars  PROVE Inv'
<1>1. UNCHANGED <<live, classAdmin, in, comment, event, token, req, earlier>>
  BY DEF Tick, vars, rows, people
<1>2. now' \in Times
  BY AccessAssumption DEF Tick, vars, Times, Inv, TypeOK
<1>3. TypeOK'
  BY <1>1, <1>2 DEF Inv, TypeOK, Comments
<1>4. \A q, u : Demotes(q, u)' <=> Demotes(q, u)
  BY <1>1 DEF Demotes
<1>5. \A k, u : Issued(k, u) => Issued(k, u)'
  BY <1>1, <1>4 DEF Issued, HasRole
<1>6. \A u, t, r : Permitted(u, t, r) => Permitted(u, t, r)'
  BY <1>1, <1>4 DEF Permitted, Demoted, HasRole
<1>7. ASSUME NEW r \in Requests PROVE Sound(r)'
  <2>1. Sound(r)
    BY DEF Inv
  <2>2. Sending(r)'
    BY <1>1, <1>5, <2>1 DEF Sound, Sending
  <2>3. Checked(r)'
    BY <1>1, <1>6, <2>1 DEF Sound, Checked
  <2> QED BY <1>1, <2>1, <2>2, <2>3 DEF Sound, Past, Reading
<1>8. ASSUME NEW c \in Comments' PROVE Shown(c)'
  <2>1. Shown(c)
    BY <1>1 DEF Comments, Inv
  <2> QED BY <1>1, <1>6, <2>1 DEF Shown, Settled
<1>9. ASSUME NEW u \in Users, token'[u] # Null PROVE Issued(token[u], u)'
  BY <1>1, <1>5, <1>9 DEF Inv
<1> QED BY <1>3, <1>7, <1>8, <1>9 DEF Inv

-----------------------------------------------------------------------------
LEMMA InitInv == Init => Inv
<1>1. SUFFICES ASSUME Init PROVE Inv
  OBVIOUS
<1>2. /\ live = Users /\ classAdmin \in SUBSET (Users \ Supers)
      /\ in \in [Users -> {{c} : c \in Classes}]
      /\ token = [u \in Users |-> TokenOf(u, classAdmin)] /\ now = 0
      /\ req = [r \in Requests |-> NoLocal]
      /\ earlier = [r \in Requests |-> {}]
  BY Zenon, <1>1 DEF Init
<1>3. \E t, w \in Users :
         comment = [c \in Ids |-> IF c # Old THEN Null ELSE
                       [target |-> t, commenter |-> w, published |-> FALSE,
                        words |-> Old, approver |-> Null]]
  BY Zenon, <1>1 DEF Init
<1>4. \E k \in Classes :
         event = [e \in Ids |-> IF e # Old THEN Null
                                ELSE [class |-> k, by |-> Old]]
  BY Zenon, <1>1 DEF Init
<1> HIDE <1>1
<1>5. 0 \in Times
  BY AccessAssumption DEF Times
<1>6. \A u \in Users : /\ token[u] \in Claims
                       /\ token[u].admin = (u \in Supers)
                       /\ token[u].classAdmin = (u \in classAdmin)
                       /\ token[u].by = Null
  BY <1>2, <1>5 DEF TokenOf, Claims
<1>7. /\ comment \in [Ids -> Comment \cup {Null}]
      /\ \A c \in Comments : /\ c = Old /\ comment[c].words = Old
                             /\ comment[c].published = FALSE
                             /\ {comment[c].target, comment[c].commenter} \subseteq live
  BY <1>2, <1>3 DEF Comment, Comments, Ids
<1>8. TypeOK
  <2>1. event \in [Ids -> Event \cup {Null}]
    BY <1>4 DEF Event, Ids
  <2>2. NoLocal \in Local
    BY <1>5 DEF NoLocal, Local
  <2>3. token \in [Users -> Claims \cup {Null}]
    BY <1>2, <1>6
  <2>4. in \in [Users -> SUBSET Classes]
    BY <1>2
  <2>5. req \in [Requests -> Local] /\ earlier \in [Requests -> SUBSET Requests]
    BY <1>2, <2>2
  <2> QED BY <1>2, <1>5, <1>7, <2>1, <2>3, <2>4, <2>5 DEF TypeOK
<1>9. ASSUME NEW r \in Requests PROVE Sound(r)
  <2>1. earlier[r] = {} /\ req[r].pc = "idle"
    BY <1>2 DEF NoLocal
  <2> QED BY <2>1 DEF Sound, Past, Sending, Reading, Checked, Steps
<1>10. ASSUME NEW c \in Comments PROVE Shown(c)
  BY <1>7 DEF Shown, Settled
<1>11. ASSUME NEW u \in Users PROVE Issued(token[u], u)
  <2>1. token[u].admin => u \in Supers
    BY <1>6
  <2>2. token[u].classAdmin => u \in classAdmin
    BY <1>6
  <2>3. token[u].admin \/ token[u].classAdmin => HasRole(u)
    BY <1>2, <2>1, <2>2 DEF HasRole
  <2> QED BY <1>6, <2>3 DEF Issued
<1> QED BY <1>8, <1>9, <1>10, <1>11 DEF Inv

(* Every step but a tick of the clock is a good step of some request.      *)
Step(r) == Missing(r) \/ Login(r) \/ CreateComment(r) \/ Moderate(r)
              \/ ManageEvent(r) \/ Administer(r)

LEMMA StepGood ==
    ASSUME Inv, NEW r \in Requests, Step(r)
    PROVE  Good(r)
<1>1. CASE Missing(r) \/ Login(r) \/ CreateComment(r)
  BY <1>1, MissingStep, LoginReadStep, LoginSignStep, CommentLookupStep,
     CommentInsertStep DEF Login, CreateComment
<1>2. CASE Moderate(r)
  BY <1>2, UpdateLookupStep, RemoveLookupStep, StandingStep, SharedClassStep,
     OwnWordsStep, UpdateCommentStep, DeleteCommentStep DEF Moderate
<1>3. CASE ManageEvent(r)
  BY <1>3, EventLookupsStep, EventCheckStep, EventWriteStep DEF ManageEvent
<1>4. CASE Administer(r)
  BY <1>4, SetClassAdminStep, MoveUserStep, DeleteLookupStep, DeleteCheckStep,
     DeleteUserStep DEF Administer
<1> QED BY <1>1, <1>2, <1>3, <1>4 DEF Step

LEMMA NextInv == Inv /\ [Next]_vars => Inv'
BY StepGood, Lasting, TickStep DEF Next, Step

(* A request whose local variables change is the one that takes the step.  *)
LEMMA Actor ==
    ASSUME Inv, [Next]_vars, NEW p \in Requests, req[p] # req'[p]
    PROVE  Step(p)
<1>1. PICK r \in Requests : Step(r)
  BY DEF Next, Step, Tick, vars
<1>2. Onward(r)
  BY <1>1, StepGood DEF Good
<1>3. p = r
  BY <1>2 DEF Onward
<1> QED BY <1>1, <1>3

(* Every token, every right checked and every publication can be accounted *)
(* for: whoever has lost the role it needed lost it to a request that was  *)
(* not over when the token was asked for, or the request began.            *)
THEOREM Invariance == Spec => []Inv
<1>1. Init => Inv
  BY InitInv
<1>2. Inv /\ [Next]_vars => Inv'
  BY NextInv
<1> QED BY <1>1, <1>2, PTL DEF Spec

(* Every variable keeps its type, whatever the requests, and a comment's   *)
(* people have rows, for all that they are deleted while it is inserted.   *)
THEOREM TypeCorrect == Spec => []TypeOK
<1>1. Inv => TypeOK
  BY DEF Inv
<1> QED BY <1>1, Invariance, PTL

LEMMA Moderated == Inv => EditsAreModerated
<1>1. SUFFICES ASSUME Inv, NEW c \in Comments, comment[c].published
               PROVE  LET r == comment[c].approver IN
                      /\ r # Null /\ r # comment[c].words
                      /\ \/ req[r].caller \in {comment[c].target} \cup Supers \cup classAdmin
                         \/ \E q \in Requests : /\ req[q].op \in {"role", "delete"}
                                                /\ req[q].user = req[r].caller
                                                /\ q \notin earlier[r]
  BY DEF EditsAreModerated
<1>2. PICK r : r = comment[c].approver
  OBVIOUS
<1>3. /\ r \in Requests /\ r # comment[c].words
      /\ Permitted(req[r].caller, comment[c].target, r)
  BY <1>1, <1>2 DEF Inv, Shown
<1>4. r # Null
  BY <1>3, AccessAssumption
<1> QED BY <1>2, <1>3, <1>4 DEF Permitted, HasRole, Demoted, Demotes

LEMMA Agreed == Inv => ChecksAgree
<1>1. SUFFICES ASSUME Inv, NEW u \in live, token[u] # Null
               PROVE  /\ token[u].classAdmin = (u \in classAdmin) =>
                           \A c \in {d \in Comments : ~comment[d].published} :
                              LET may == CanModerateComments(u, comment[c].commenter,
                                                             comment[c].target)
                              IN  /\ c \in AllPending(token[u], u) => may
                                  /\ may => c \in AllPending(token[u], u)
                                               \/ u = comment[c].target
                      /\ \A v \in Users :
                            /\ CanManageUser(token[u], u, v)
                                  => CanManagePhotos(token[u], u, v)
                            /\ CanManagePhotos(token[u], u, v)
                                  => CanViewPhotos(token[u], u, v)
  BY DEF ChecksAgree
<1>2. token[u].admin = (u \in Supers)
  BY <1>1 DEF Inv, TypeOK, Issued
<1>3. /\ token[u].admin => u \in Supers
      /\ u \in Supers => token[u].admin
  BY <1>2
<1>4. ASSUME token[u].classAdmin = (u \in classAdmin),
             NEW c \in Comments, ~comment[c].published
      PROVE  /\ c \in AllPending(token[u], u)
                  => CanModerateComments(u, comment[c].commenter, comment[c].target)
             /\ CanModerateComments(u, comment[c].commenter, comment[c].target)
                  => c \in AllPending(token[u], u) \/ u = comment[c].target
  <2>1. /\ token[u].classAdmin => u \in classAdmin
        /\ u \in classAdmin => token[u].classAdmin
    BY <1>4
  <2>2. SharesAClass(u, comment[c].commenter) <=> SharesAClass(comment[c].commenter, u)
    BY DEF SharesAClass
  <2> QED BY <1>3, <1>4, <2>1, <2>2 DEF AllPending, CanModerateComments
<1>5. ASSUME NEW v \in Users
      PROVE  /\ CanManageUser(token[u], u, v) => CanManagePhotos(token[u], u, v)
             /\ CanManagePhotos(token[u], u, v) => CanViewPhotos(token[u], u, v)
  BY DEF CanManageUser, CanManagePhotos, CanViewPhotos
<1> QED BY <1>4, <1>5

(* Whatever is published was let through by a request that wrote none of   *)
(* its words, and whose caller owned the profile or had the role while the *)
(* request ran, in whatever order edits, approvals, demotions and          *)
(* deletions came; and the queue a moderator is shown is what the check of *)
(* a single comment lets him act on.                                       *)
THEOREM ModerationStays == Spec => []ModerationHolds
<1>1. Inv => ModerationHolds
  BY Moderated, Agreed DEF ModerationHolds
<1> QED BY <1>1, Invariance, PTL

-----------------------------------------------------------------------------
(* Somebody who lost the role before the request began was not let pass by *)
(* a check of roles.                                                       *)
LEMMA Unpermitted ==
    ASSUME NEW r \in Requests, NEW u, NEW t, Permitted(u, t, r), Lost(r, u)
    PROVE  u = t
BY DEF Permitted, HasRole, Demoted, Demotes, Lost

LEMMA DemotedModerateNothing ==
    ASSUME Inv, [Next]_vars, NEW r \in Requests, NEW c \in Ids,
           req[r] # req'[r], req[r].pc = "write",
           req[r].op \in {"moderate", "remove"},
           comment[c] # Null, comment'[c] # comment[c],
           Lost(r, req[r].caller)
    PROVE  \/ req[r].caller = comment[c].target
           \/ req[r].caller = comment[c].commenter /\ req[r].publish = Null
<1>1. UpdateComment(r) \/ DeleteComment(r)
  <2>1. Step(r)
    BY Actor
  <2>2. req[r].pc \notin {"idle", "sign", "insert", "own", "standing", "shared", "member"}
    OBVIOUS
  <2>3. ~Missing(r) /\ ~Login(r) /\ ~CreateComment(r) /\ ~Administer(r)
    BY <2>2 DEF Missing, Login, LoginRead, LoginSign, CreateComment, CommentLookup,
                CommentInsert, Administer, SetClassAdmin, MoveUser, DeleteLookup,
                DeleteCheck, DeleteUser, Begin, Start, At
  <2>4. ~ManageEvent(r)
    BY <2>2 DEF ManageEvent, CreateLookup, EventLookup, EventCheck, EventWrite,
                Begin, Start
  <2>5. Moderate(r) => UpdateComment(r) \/ DeleteComment(r)
    BY <2>2 DEF Moderate, UpdateLookup, RemoveLookup, Standing, SharedClass,
                OwnWords, Begin, Start, At
  <2> QED BY <2>1, <2>3, <2>4, <2>5 DEF Step
<1>2. comment' = comment \/ \E v : comment' = [comment EXCEPT ![req[r].row] = v]
  BY <1>1 DEF UpdateComment, DeleteComment
<1>3. c = req[r].row
  BY <1>2 DEF Inv, TypeOK
<1>4. Reading(r) /\ Checked(r)
  BY DEF Inv, Sound
<1>5. comment[c].target = req[r].user /\ comment[c].commenter = req[r].author
      /\ (req[r].op = "remove" => req[r].publish = Null)
  BY <1>3, <1>4 DEF Reading, Steps
<1>6. CASE Permitted(req[r].caller, req[r].user, r)
  BY <1>5, <1>6, Unpermitted
<1>7. CASE ~Permitted(req[r].caller, req[r].user, r)
  BY <1>4, <1>5, <1>7 DEF Checked
<1> QED BY <1>6, <1>7

LEMMA ClaimsExpire ==
    ASSUME Inv, [Next]_vars, NEW r \in Requests, NEW e \in Ids,
           event'[e] # event[e], req[r] # req'[r],
           req[r].caller \notin live \cap (Supers \cup classAdmin)
    PROVE  LET claims == req[r].claims IN
           /\ req[r].at < claims.at + TTL
           /\ \E q \in Requests :
                 /\ req[q].op \in {"role", "delete"}
                 /\ req[q].user = req[r].caller
                 /\ claims.by # Null => q \notin earlier[claims.by]
<1>1. EventWrite(r)
  <2>1. Step(r) /\ event' # event
    BY Actor
  <2>2. ~Missing(r) /\ ~Login(r) /\ ~CreateComment(r) /\ ~Administer(r)
    BY <2>1 DEF Missing, Login, LoginRead, LoginSign, CreateComment, CommentLookup,
                CommentInsert, Administer, SetClassAdmin, MoveUser, DeleteLookup,
                DeleteCheck, DeleteUser, rows
  <2>3. ~Moderate(r)
    BY <2>1 DEF Moderate, UpdateLookup, RemoveLookup, Standing, SharedClass,
                OwnWords, UpdateComment, DeleteComment, rows
  <2>4. ManageEvent(r) => EventWrite(r)
    BY <2>1 DEF ManageEvent, CreateLookup, EventLookup, EventCheck, rows
  <2> QED BY <2>1, <2>2, <2>3, <2>4 DEF Step
<1>2. /\ Issued(req[r].claims, req[r].caller)
      /\ req[r].at < req[r].claims.at + TTL
      /\ req[r].claims.admin \/ req[r].claims.classAdmin
  BY <1>1 DEF EventWrite, Inv, Sound, Sending, Steps
<1> QED BY <1>2 DEF Issued, HasRole, Demotes

(* Whoever lost the role before a request of his began moderates nothing   *)
(* by it but his own words and his own profile, whatever his token says;   *)
(* and an event is changed without the role only by a token that had not   *)
(* expired, whose login the demotion or the deletion did not precede.      *)
THEOREM RolesStay == Spec => RolesEnd
<1>1. Inv /\ [Next]_vars =>
        [\A r \in Requests, c \in Ids :
             /\ req[r] # req'[r] /\ req[r].pc = "write"
             /\ req[r].op \in {"moderate", "remove"}
             /\ comment[c] # Null /\ comment'[c] # comment[c]
             /\ Lost(r, req[r].caller)
          => \/ req[r].caller = comment[c].target
             \/ req[r].caller = comment[c].commenter /\ req[r].publish = Null]_vars
  BY DemotedModerateNothing
<1>2. Inv /\ [Next]_vars =>
        [\A r \in Requests, e \in Ids :
             /\ event'[e] # event[e] /\ req[r] # req'[r]
             /\ req[r].caller \notin live \cap (Supers \cup classAdmin)
          => LET claims == req[r].claims IN
             /\ req[r].at < claims.at + TTL
             /\ \E q \in Requests :
                   /\ req[q].op \in {"role", "delete"}
                   /\ req[q].user = req[r].caller
                   /\ claims.by # Null => q \notin earlier[claims.by]]_vars
  BY ClaimsExpire
<1>3. Spec => DemotionEndsModeration
  BY <1>1, Invariance, PTL DEF Spec, DemotionEndsModeration
<1>4. Spec => ClaimsOutliveRoles
  BY <1>2, Invariance, PTL DEF Spec, ClaimsOutliveRoles
<1> QED BY <1>3, <1>4 DEF RolesEnd
=============================================================================
