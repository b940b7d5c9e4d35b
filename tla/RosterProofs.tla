---------------------------- MODULE RosterProofs ----------------------------
(***************************************************************************)
(* The safety of Roster, for any users, schools, requests and years.       *)
(*                                                                         *)
(* No row is right by itself: each handler writes after it has looked, and *)
(* what it saw may have changed.  What can be said is that a change since  *)
(* was made by a request that overlaps it, because a step is taken by a    *)
(* request under way, and two requests under way at one time overlap.      *)
(***************************************************************************)
EXTENDS Roster, TLAPS

(* What the request's own fields say of each other.                        *)
Keeping(r) ==
    /\ req[r].op = Null <=> req[r].pc = "idle"
    /\ req[r].pc = "insert" => req[r].op \in {"list", "link", "bulk"}
    /\ req[r].pc \in {"sweep", "drop"} => req[r].op \in {"cascade", "close"}
    /\ req[r].pc = "unlink" => req[r].op \in {"unlink", "cascade"}
    /\ req[r].pc \in Steps /\ req[r].op \notin {"move", "boot"}
       => req[r].school \in Schools
    /\ req[r].pc \in Steps /\ req[r].op \notin {"bulk", "close", "boot"}
       => req[r].year \in Years
    /\ req[r].op = "create" /\ req[r].pc \in Steps => req[r].left # 0
    /\ req[r].op = "create" /\ req[r].user # Null => req[r].pc \in {"profile", "place"}
    /\ req[r].pc \in {"profile", "place"} => req[r].op = "create" /\ req[r].user \in Users

(* The past of a request: what had finished then is finished still.        *)
Past(r) ==
    /\ r \notin earlier[r]
    /\ \A q \in earlier[r] : req[q].pc \in Final
    /\ req[r].pc = "idle" => earlier[r] = {}

(* A class year that was there is there, a school that was there is there  *)
(* or gone, and if it offers nothing any more, it did until an unlinking.  *)
Linking(r) ==
    /\ At(r, "list", "insert") \/ At(r, "link", "insert") => req[r].year \in classes
    /\ req[r].op = "bulk" => req[r].years \subseteq classes
    /\ At(r, "list", "insert") =>
          LET s == req[r].school
          IN  /\ school[s] # "unborn"
              /\ \/ school[s] = "gone" \/ YearsAt(s) # {}
                 \/ \E q \in Requests, y \in Years : Unlinks(q, y, s) /\ Overlap(q, r)

(* The members of a class that is being unlinked: the request has seen     *)
(* them, or nobody minds, or they came while it ran.                       *)
Unminded(m, q) ==
    \/ m.by # Null /\ req[m.by].op = "create"
    \/ \E b \in Requests : Overlap(q, b) /\ (b = m.by \/ req[b].op = "boot")

Vacating(r) ==
    \A m \in InClassAt(req[r].year, req[r].school) :
        /\ At(r, "unlink", "left")  => Row(m) \in req[r].seen \/ Unminded(m, r)
        /\ At(r, "cascade", "drop") => m.user \in req[r].who \/ Unminded(m, r)
        /\ req[r].pc = "unlink"     => Unminded(m, r)

(* Why the user u is swept by r.                                           *)
Belongs(u, r) ==
    \E m \in member : /\ m.user = u /\ m.school = req[r].school
                      /\ req[r].op = "close" \/ m.year = req[r].year

Left(u, r) ==
    \E q \in Requests :
        /\ Overlap(q, r)
        /\ \/ req[q].op = "move" /\ req[q].user = u
           \/ req[q].op \in {"unlink", "close"} /\ req[q].school = req[r].school

Sweeping(r) ==
    req[r].pc = "drop" =>
        \A u \in req[r].who : user[u] = "gone" \/ Belongs(u, r) \/ Left(u, r)

(* The user of the row that is imported is nobody else's, and whoever has  *)
(* put him in a class was moving him at the same time.                     *)
Importing(r) ==
    req[r].op = "create" /\ req[r].user # Null =>
        /\ user[req[r].user] # "unborn"
        /\ \A q \in Requests : req[q].op = "create" /\ req[q].user = req[r].user => q = r
        /\ req[r].pc = "place" /\ req[r].user \in Live => req[r].user \in profiled
        /\ \A m \in member : m.user = req[r].user =>
              m.by # Null /\ req[m.by].op = "move" /\ Overlap(m.by, r)

Made(r) == \A u \in req[r].made : user[u] # "unborn"

(* A move deletes the memberships it has seen; the others are younger.     *)
Moving(r) ==
    At(r, "move", "leave") \/ At(r, "move", "erased") =>
        /\ \A t \in req[r].seen : t[1] = req[r].user
        /\ \A m \in member : m.user = req[r].user =>
              Row(m) \in req[r].seen \/ (m.by # Null /\ Overlap(m.by, r))

Entered(m) == /\ user[m.user] # "unborn"
              /\ m.by # Null => req[m.by].op \in {"move", "create"}

Sound(r) == /\ Keeping(r) /\ Past(r) /\ Linking(r) /\ Vacating(r)
            /\ Sweeping(r) /\ Importing(r) /\ Made(r) /\ Moving(r)

Inv == /\ TypeOK
       /\ \A r \in Requests : Sound(r)
       /\ \A m \in member : Entered(m)
       /\ MembershipsHold

-----------------------------------------------------------------------------
(* What a step of request r does to the requests: it moves r on, and what  *)
(* others rely on stays as it is.                                          *)
Forward(r) ==
    /\ \A q \in Requests \ {r} : req'[q] = req[q] /\ earlier'[q] = earlier[q]
    /\ req' \in [Requests -> Local] /\ earlier' \in [Requests -> SUBSET Requests]
    /\ req[r].pc \notin Final /\ req'[r].op # Null /\ req'[r].pc # "idle"
    /\ req'[r] # req[r]
    /\ req[r].pc = "idle" => earlier'[r] = {q \in Requests : req[q].pc \in Final}
    /\ req[r].pc # "idle" =>
          /\ earlier'[r] = earlier[r] /\ req'[r].op = req[r].op
          /\ req[r].op \in {"unlink", "cascade", "close"}
             => req'[r].year = req[r].year /\ req'[r].school = req[r].school
          /\ req[r].op = "move" => req'[r].user = req[r].user
    /\ req'[r].op = "create" /\ req'[r].user # Null =>
          \/ req[r].op = "create" /\ req'[r].user = req[r].user
          \/ user[req'[r].user] = "unborn"

(* A membership is what it was, but for its school: closing the school     *)
(* clears it, and a cold start finds one.                                  *)
Stays(n, m, r) ==
    /\ Row(m) = Row(n)
    /\ \/ m.school = n.school
       \/ m.school = Null /\ req[r].op = "close" /\ n.school = req[r].school
       \/ n.school = Null /\ req[r].op = "boot" /\ <<m.year, m.school>> \in linked'

(* Or it is new, and whatever else its user is in was entered meanwhile.   *)
Placed(m, r) ==
    /\ m.by = r /\ m.user = req[r].user /\ req[r].op \in {"move", "create"}
    /\ user[m.user] = "live"
    /\ req[r].op = "create" \/ m.school = Null \/ <<m.year, m.school>> \in linked'
    /\ \A n \in member' : n.user = m.user /\ n # m =>
          /\ n.by # Null /\ Overlap(n.by, r)
          /\ "move" \in {req[n.by].op, req[r].op}

(* Why it is there no longer.                                              *)
Lost(n, r) == \/ user'[n.user] = "gone"
              \/ req[r].op = "unlink" /\ n.school = req[r].school
              \/ req[r].op = "move" /\ n.user = req[r].user

UsersLive(r) ==
    \A u \in Users :
        /\ user[u] # "unborn" => user'[u] # "unborn"
        /\ user[u] = "gone" => user'[u] = "gone"
        /\ user[u] = "live" /\ user'[u] = "gone" => req[r].pc = "drop" /\ u \in req[r].who
        /\ u \in profiled => u \in profiled' \/ user'[u] = "gone"
        /\ user[u] = "live" /\ user'[u] = "live" /\ Classes(u) # {} /\ Classes(u)' = {}
           => At(r, "unlink", "left")

LinksLast(r) ==
    /\ classes \subseteq classes'
    /\ \A s \in Schools : /\ school[s] # "unborn" => school'[s] # "unborn"
                          /\ school[s] = "gone" => school'[s] = "gone"
    /\ \A p \in linked : p \notin linked' =>
          \/ req[r].pc = "unlink" /\ p = <<req[r].year, req[r].school>>
          \/ school'[p[2]] = "gone" /\ \A m \in member' : m.school # p[2]
    /\ \A p \in linked' : p \notin linked =>
          req[r].pc = "insert" /\ p[2] = req[r].school /\ school[p[2]] = "live"

MembersLast(r) ==
    /\ \A m \in member' : Placed(m, r) \/ \E n \in member : Stays(n, m, r)
    /\ \A n \in member : Lost(n, r) \/ \E m \in member' : Stays(n, m, r)

Writes(r) == UsersLive(r) /\ LinksLast(r) /\ MembersLast(r)

(* What r adds to its report is whole.                                     *)
Reports(r) ==
    \A u \in req'[r].made : u \notin req[r].made =>
        user'[u] # "unborn" /\ u \in profiled' /\ Classes(u)' # {}

Own(r) == /\ Keeping(r) /\ Linking(r) /\ Vacating(r)
          /\ Sweeping(r) /\ Importing(r) /\ Moving(r)

Good(r) == Forward(r) /\ Writes(r) /\ Reports(r) /\ TypeOK' /\ Own(r)'

-----------------------------------------------------------------------------
(* What has begun stays what it is, and overlaps what it overlapped.       *)
LEMMA Staying ==
    ASSUME Inv, NEW r \in Requests, Forward(r)
    PROVE  /\ \A q \in Requests : req[q].pc # "idle" => req'[q].op = req[q].op
                                                         /\ req'[q].pc # "idle"
           /\ \A q, b \in Requests : Overlap(q, b) => Overlap(q, b)'
           /\ \A y, s : \A q \in Requests : Unlinks(q, y, s) => Unlinks(q, y, s)'
           /\ \A q \in Requests : Past(q)'
<1>1. /\ req \in [Requests -> Local] /\ earlier \in [Requests -> SUBSET Requests]
      /\ \A q \in Requests : Keeping(q) /\ Past(q)
  BY DEF Inv, Sound, TypeOK
<1>2. \A q \in Requests : req[q].pc # "idle" =>
          req'[q].op = req[q].op /\ req'[q].pc # "idle" /\ earlier'[q] = earlier[q]
  BY <1>1 DEF Forward
<1>3. ASSUME NEW q \in Requests, NEW b \in Requests, Overlap(q, b)
      PROVE  Overlap(q, b)'
  BY <1>2, <1>3 DEF Overlap
<1>4. ASSUME NEW q \in Requests, NEW y, NEW s, Unlinks(q, y, s)
      PROVE  Unlinks(q, y, s)'
  <2>1. req[q].pc # "idle"
    BY <1>1, <1>4, NullIsNothing DEF Unlinks, Keeping, Ops
  <2> QED BY <2>1, <1>2, <1>4 DEF Forward, Unlinks
<1>5. ASSUME NEW q \in Requests
      PROVE  Past(q)'
  <2>1. \A p \in Requests : req[p].pc \in Final => req'[p].pc \in Final
    BY DEF Forward
  <2>2. earlier'[q] = earlier[q]
        \/ (q = r /\ earlier'[q] = {p \in Requests : req[p].pc \in Final})
    BY DEF Forward
  <2>3. q \notin earlier'[q] /\ \A p \in earlier'[q] : req'[p].pc \in Final
    BY <2>1, <2>2, <1>1 DEF Past, Forward
  <2>4. req'[q].pc = "idle" => earlier'[q] = {}
    BY <1>1 DEF Past, Forward
  <2> QED BY <2>3, <2>4 DEF Past
<1> QED BY <1>2, <1>3, <1>4, <1>5

(* Two requests that are under way at one time overlap.                    *)
LEMMA Meeting ==
    ASSUME Inv, NEW r \in Requests, NEW q \in Requests, q # r, Forward(r),
           req[q].pc \in Steps
    PROVE  Overlap(q, r)' /\ Overlap(r, q)'
<1>1. req[q].pc # "idle" /\ req[q].pc \notin Final
  BY DEF Steps, Final
<1>2. Past(q) /\ Past(r)
  BY DEF Inv, Sound
<1>3. r \notin earlier'[q] /\ q \notin earlier'[r]
  BY <1>1, <1>2 DEF Past, Forward
<1> QED BY <1>1, <1>3 DEF Overlap, Forward

-----------------------------------------------------------------------------
(* A membership after the step comes from one before, or is the step's.    *)
LEMMA OthersLinking ==
    ASSUME Inv, NEW r \in Requests, NEW q \in Requests, q # r, Forward(r), Writes(r)
    PROVE  Linking(q)'
<1>1. req'[q] = req[q] /\ Keeping(q) /\ Linking(q) /\ Keeping(r)
  BY DEF Inv, Sound, Forward
<1>2. At(q, "list", "insert") \/ At(q, "link", "insert") => req[q].year \in classes'
  BY <1>1 DEF Linking, Writes, LinksLast
<1>3. req[q].op = "bulk" => req[q].years \subseteq classes'
  BY <1>1 DEF Linking, Writes, LinksLast
<1>4. ASSUME At(q, "list", "insert")
      PROVE  \E s \in Schools :
                 /\ s = req[q].school /\ school'[s] # "unborn"
                 /\ \/ school'[s] = "gone" \/ YearsAt(s)' # {}
                    \/ \E p \in Requests, y \in Years :
                          Unlinks(p, y, s)' /\ Overlap(p, q)'
  <2> PICK s \in Schools : s = req[q].school
    BY <1>1, <1>4 DEF Keeping, At, Steps
  <2>1. school'[s] # "unborn" /\ (school[s] = "gone" => school'[s] = "gone")
    BY <1>1, <1>4 DEF Linking, Writes, LinksLast
  <2>2. CASE school[s] = "gone"
    BY <2>1, <2>2
  <2>3. CASE \E p \in Requests, y \in Years : Unlinks(p, y, s) /\ Overlap(p, q)
    BY <2>1, <2>3, Staying
  <2>4. CASE school[s] # "gone" /\ YearsAt(s) # {}
    <3>1. PICK y \in Years : <<y, s>> \in linked
      BY <2>4 DEF YearsAt
    <3>2. CASE <<y, s>> \in linked'
      BY <2>1, <3>2 DEF YearsAt
    <3>3. CASE <<y, s>> \notin linked'
      <4>1. \/ req[r].pc = "unlink" /\ <<y, s>> = <<req[r].year, req[r].school>>
            \/ school'[<<y, s>>[2]] = "gone"
        BY <3>1, <3>3 DEF Writes, LinksLast
      <4>2. CASE school'[s] = "gone"
        BY <2>1, <4>2
      <4>3. CASE req[r].pc = "unlink" /\ y = req[r].year /\ s = req[r].school
        <5>1. Unlinks(r, y, s)
          BY <1>1, <4>3 DEF Unlinks, Keeping
        <5>2. Unlinks(r, y, s)' /\ Overlap(r, q)'
          BY <5>1, <1>4, Staying, Meeting DEF At, Steps
        <5> QED BY <2>1, <5>2
      <4> QED BY <4>1, <4>2, <4>3
    <3> QED BY <3>2, <3>3
  <2> QED BY <1>1, <1>4, <2>2, <2>3, <2>4 DEF Linking
<1> QED BY <1>1, <1>2, <1>3, <1>4 DEF Linking, At, YearsAt, Unlinks

(* Who is in a class after the step, at the school of a request that is    *)
(* under way, was there before, or came while it ran.                      *)
LEMMA Coming ==
    ASSUME Inv, NEW r \in Requests, NEW q \in Requests, q # r, Forward(r), Writes(r),
           req[q].pc \in Steps, req[q].school \in Schools,
           NEW m \in member', m.school = req[q].school
    PROVE  \/ Unminded(m, q)'
           \/ \E n \in member : Row(m) = Row(n) /\ m.school = n.school
<1>1. Overlap(q, r)' /\ (\A b \in Requests : req[b].pc # "idle" => req'[b].op = req[b].op)
  BY Staying, Meeting
<1>2. Keeping(r) /\ RosterAssumption
  BY RosterAssumption DEF Inv, Sound
<1>3. CASE Placed(m, r)
  BY <1>1, <1>3 DEF Placed, Unminded
<1>4. ASSUME NEW n \in member, Stays(n, m, r)
      PROVE  Unminded(m, q)' \/ (Row(m) = Row(n) /\ m.school = n.school)
  <2>1. CASE req[r].op = "boot"
    <3>1. req'[r].op = "boot"
      BY <2>1, <1>1, <1>2, NullIsNothing DEF Keeping, Ops
    <3> QED BY <3>1, <1>1 DEF Unminded
  <2>2. CASE req[r].op # "boot"
    <3>1. m.school # Null
      BY <1>2 DEF RosterAssumption
    <3> QED BY <2>2, <3>1, <1>4 DEF Stays
  <2> QED BY <2>1, <2>2
<1> QED BY <1>3, <1>4 DEF Writes, MembersLast

LEMMA UnmindedStays ==
    ASSUME Inv, NEW r \in Requests, NEW q \in Requests, Forward(r),
           NEW n \in member, NEW m, Row(m) = Row(n), Unminded(n, q)
    PROVE  Unminded(m, q)'
<1>1. m.by = n.by
  BY DEF Row
<1>2. n.by \in Requests \cup {Null}
  BY DEF Inv, TypeOK, Member
<1>3. CASE n.by # Null /\ req[n.by].op = "create"
  <2>1. req[n.by].pc # "idle"
    BY <1>2, <1>3, NullIsNothing DEF Inv, Sound, Keeping, Ops
  <2> QED BY <1>1, <1>2, <1>3, <2>1, Staying DEF Unminded
<1>4. CASE \E b \in Requests : Overlap(q, b) /\ (b = n.by \/ req[b].op = "boot")
  <2>1. PICK b \in Requests : Overlap(q, b) /\ (b = n.by \/ req[b].op = "boot")
    BY <1>4
  <2>2. Overlap(q, b)' /\ req'[b].op = req[b].op
    BY <2>1, Staying DEF Overlap
  <2> QED BY <1>1, <2>1, <2>2 DEF Unminded
<1> QED BY <1>3, <1>4 DEF Unminded

LEMMA OthersVacating ==
    ASSUME Inv, NEW r \in Requests, NEW q \in Requests, q # r, Forward(r), Writes(r)
    PROVE  Vacating(q)'
<1>1. req'[q] = req[q] /\ Keeping(q) /\ Vacating(q)
  BY DEF Inv, Sound, Forward
<1> SUFFICES ASSUME NEW m \in member', m.year = req[q].year, m.school = req[q].school,
                    \/ At(q, "unlink", "left") \/ At(q, "cascade", "drop")
                    \/ req[q].pc = "unlink"
             PROVE  /\ At(q, "unlink", "left") => Row(m) \in req[q].seen \/ Unminded(m, q)'
                    /\ At(q, "cascade", "drop") => m.user \in req[q].who \/ Unminded(m, q)'
                    /\ req[q].pc = "unlink" => Unminded(m, q)'
  BY <1>1 DEF Vacating, InClassAt, At, Row
<1>2. req[q].pc \in Steps /\ req[q].school \in Schools
  BY <1>1 DEF Keeping, At, Steps
<1>3. ASSUME NEW n \in member, Row(m) = Row(n), m.school = n.school, ~ Unminded(m, q)'
      PROVE  /\ At(q, "unlink", "left") => Row(m) \in req[q].seen
             /\ At(q, "cascade", "drop") => m.user \in req[q].who
             /\ req[q].pc # "unlink"
  <2>1. n \in InClassAt(req[q].year, req[q].school) /\ n.user = m.user
    BY <1>3 DEF InClassAt, Row
  <2>2. ~ Unminded(n, q)
    BY <1>3, UnmindedStays
  <2> QED BY <1>1, <1>3, <2>1, <2>2 DEF Vacating
<1> QED BY <1>2, <1>3, Coming

LEMMA OthersSweeping ==
    ASSUME Inv, NEW r \in Requests, NEW q \in Requests, q # r, Forward(r), Writes(r)
    PROVE  Sweeping(q)'
<1>1. req'[q] = req[q] /\ Keeping(q) /\ Sweeping(q) /\ Keeping(r) /\ req[q] \in Local
  BY DEF Inv, Sound, Forward, TypeOK
<1> SUFFICES ASSUME req[q].pc = "drop", NEW u \in req[q].who
             PROVE  user'[u] = "gone" \/ Belongs(u, q)' \/ Left(u, q)'
  BY <1>1 DEF Sweeping
<1>2. req[q].school \in Schools /\ u \in Users
  BY <1>1 DEF Keeping, Local, Steps
<1>3. Overlap(r, q)'
  BY Meeting DEF Steps
<1>4. CASE user[u] = "gone"
  BY <1>2, <1>4 DEF Writes, UsersLive
<1>5. CASE Left(u, q)
  <2>1. PICK p \in Requests :
           /\ Overlap(p, q)
           /\ \/ req[p].op = "move" /\ req[p].user = u
              \/ req[p].op \in {"unlink", "close"} /\ req[p].school = req[q].school
    BY <1>5 DEF Left
  <2>2. Overlap(p, q)' /\ req[p].pc # "idle"
    BY <2>1, Staying DEF Overlap
  <2>3. \/ req'[p].op = "move" /\ req'[p].user = u
        \/ req'[p].op \in {"unlink", "close"} /\ req'[p].school = req'[q].school
    BY <2>1, <2>2, <1>1 DEF Forward
  <2> QED BY <2>2, <2>3 DEF Left
<1>6. CASE Belongs(u, q)
  <2>1. PICK n \in member : /\ n.user = u /\ n.school = req[q].school
                            /\ req[q].op = "close" \/ n.year = req[q].year
    BY <1>6 DEF Belongs
  <2>2. CASE Lost(n, r)
    <3>1. CASE req[r].op = "unlink" \/ req[r].op = "move"
      <4>1. req'[r].op = req[r].op /\ req[r].pc # "idle"
        BY <3>1, <1>1, NullIsNothing DEF Forward, Keeping, Ops
      <4> QED BY <4>1, <3>1, <2>1, <2>2, <1>1, <1>3 DEF Lost, Left, Forward
    <3> QED BY <3>1, <2>1, <2>2 DEF Lost
  <2>3. ASSUME NEW m \in member', Stays(n, m, r)
        PROVE  Belongs(u, q)' \/ Left(u, q)'
    <3>1. m.user = u /\ m.year = n.year /\ n.school # Null
      BY <1>2, <2>1, <2>3, RosterAssumption DEF Stays, Row
    <3>2. CASE m.school = n.school
      BY <3>1, <3>2, <2>1, <1>1 DEF Belongs
    <3>3. CASE req[r].op = "close" /\ n.school = req[r].school
      <4>1. req'[r].op = req[r].op /\ req'[r].school = req[r].school
        BY <3>3, <1>1, NullIsNothing DEF Forward, Keeping, Ops
      <4> QED BY <4>1, <3>3, <2>1, <1>1, <1>3 DEF Left
    <3> QED BY <2>3, <3>1, <3>2, <3>3 DEF Stays
  <2> QED BY <2>2, <2>3 DEF Writes, MembersLast
<1> QED BY <1>1, <1>4, <1>5, <1>6 DEF Sweeping

(* The memberships of a user after the step: old ones, or that of r.       *)
LEMMA OthersImporting ==
    ASSUME Inv, NEW r \in Requests, NEW q \in Requests, q # r, Forward(r), Writes(r)
    PROVE  Importing(q)'
<1>1. /\ req'[q] = req[q] /\ Keeping(q) /\ Importing(q) /\ Keeping(r) /\ req[q] \in Local
      /\ user \in [Users -> {"unborn", "live", "gone"}]
  BY DEF Inv, Sound, Forward, TypeOK
<1> SUFFICES ASSUME req[q].op = "create", req[q].user # Null
             PROVE  /\ user'[req[q].user] # "unborn"
                    /\ \A p \in Requests :
                          req'[p].op = "create" /\ req'[p].user = req[q].user => p = q
                    /\ req[q].pc = "place" /\ req[q].user \in Live'
                       => req[q].user \in profiled'
                    /\ \A m \in member' : m.user = req[q].user =>
                          m.by # Null /\ req'[m.by].op = "move" /\ Overlap(m.by, q)'
  BY <1>1 DEF Importing
<1> PICK u \in Users : u = req[q].user
  BY <1>1 DEF Local
<1>2. req[q].pc \in Steps /\ user[u] # "unborn"
  BY <1>1 DEF Keeping, Steps, Importing
<1>3. user'[u] # "unborn"
  BY <1>2 DEF Writes, UsersLive
<1>4. ASSUME NEW p \in Requests, req'[p].op = "create", req'[p].user = u, p # q
      PROVE  FALSE
  <2>1. ~ (req[p].op = "create" /\ req[p].user = u)
    BY <1>1, <1>4 DEF Importing
  <2>2. p = r
    BY <2>1, <1>4 DEF Forward
  <2> QED BY <2>1, <2>2, <1>2, <1>4 DEF Forward
<1>5. ASSUME req[q].pc = "place", u \in Live'
      PROVE  u \in profiled'
  <2>1. user'[u] = "live"
    BY <1>5 DEF Live
  <2>2. user[u] = "live"
    BY <2>1, <1>1, <1>2 DEF Writes, UsersLive
  <2> QED BY <2>1, <2>2, <1>1, <1>5 DEF Importing, Live, Writes, UsersLive
<1>6. ASSUME NEW m \in member', m.user = u
      PROVE  m.by # Null /\ req'[m.by].op = "move" /\ Overlap(m.by, q)'
  <2>1. CASE Placed(m, r)
    <3>1. req[r].op = "move"
      BY <2>1, <1>1, <1>6 DEF Placed, Importing
    <3>2. req'[r].op = "move" /\ Overlap(r, q)'
      BY <3>1, <1>1, <1>2, Meeting, NullIsNothing DEF Forward, Keeping, Ops
    <3> QED BY <2>1, <3>2, RosterAssumption DEF Placed, RosterAssumption
  <2>2. ASSUME NEW n \in member, Stays(n, m, r)
        PROVE  m.by # Null /\ req'[m.by].op = "move" /\ Overlap(m.by, q)'
    <3>1. n.by = m.by /\ n.user = u
      BY <2>2, <1>6 DEF Stays, Row
    <3>2. n.by # Null /\ req[n.by].op = "move" /\ Overlap(n.by, q) /\ n.by \in Requests
      BY <3>1, <1>1 DEF Importing, Inv, TypeOK, Member
    <3> QED BY <3>1, <3>2, Staying DEF Overlap
  <2> QED BY <2>1, <2>2 DEF Writes, MembersLast
<1> QED BY <1>3, <1>4, <1>5, <1>6

LEMMA OthersMoving ==
    ASSUME Inv, NEW r \in Requests, NEW q \in Requests, q # r, Forward(r), Writes(r)
    PROVE  Moving(q)'
<1>1. req'[q] = req[q] /\ Moving(q)
  BY DEF Inv, Sound, Forward
<1> SUFFICES ASSUME At(q, "move", "leave") \/ At(q, "move", "erased"),
                    NEW m \in member', m.user = req[q].user
             PROVE  Row(m) \in req[q].seen \/ (m.by # Null /\ Overlap(m.by, q)')
  BY <1>1 DEF Moving, At, Row
<1>2. CASE Placed(m, r)
  <2>1. Overlap(r, q)'
    BY Meeting DEF At, Steps
  <2> QED BY <1>2, <2>1, RosterAssumption DEF Placed, RosterAssumption
<1>3. ASSUME NEW n \in member, Stays(n, m, r)
      PROVE  Row(m) \in req[q].seen \/ (m.by # Null /\ Overlap(m.by, q)')
  <2>1. Row(n) = Row(m) /\ n.by = m.by /\ n.user = m.user
    BY <1>3 DEF Stays, Row
  <2>2. Row(n) \in req[q].seen \/ (n.by # Null /\ n.by \in Requests /\ Overlap(n.by, q))
    BY <2>1, <1>1 DEF Moving, Inv, TypeOK, Member
  <2> QED BY <2>1, <2>2, Staying
<1> QED BY <1>2, <1>3 DEF Writes, MembersLast

LEMMA MadeStays ==
    ASSUME Inv, NEW r \in Requests, Forward(r), Writes(r), Reports(r)
    PROVE  /\ \A q \in Requests : Made(q)'
           /\ CreatedRowsAreWhole'
<1>1. /\ user \in [Users -> {"unborn", "live", "gone"}]
      /\ \A q \in Requests : req[q] \in Local /\ Made(q) /\ Keeping(q)
      /\ CreatedRowsAreWhole
  BY DEF Inv, Sound, TypeOK, MembershipsHold
<1>2. ASSUME NEW q \in Requests, NEW u \in req'[q].made, u \in req[q].made
      PROVE  /\ user'[u] # "unborn"
             /\ u \in Live' => /\ u \in profiled'
                               /\ Classes(u)' = {} =>
                                     \E p \in Requests : req'[p].op = "unlink"
  <2>1. u \in Users /\ user[u] # "unborn" /\ user'[u] # "unborn"
    BY <1>1, <1>2 DEF Local, Made, Writes, UsersLive
  <2>2. ASSUME u \in Live'
        PROVE  /\ u \in profiled'
               /\ Classes(u)' = {} => \E p \in Requests : req'[p].op = "unlink"
    <3>1. user[u] = "live" /\ user'[u] = "live"
      BY <2>1, <2>2, <1>1 DEF Live, Writes, UsersLive
    <3>2. /\ u \in profiled
          /\ Classes(u) = {} => \E p \in Requests : req[p].op = "unlink"
      BY <3>1, <2>1, <1>1, <1>2 DEF CreatedRowsAreWhole, Live
    <3>3. u \in profiled'
      BY <3>1, <3>2, <2>1 DEF Writes, UsersLive
    <3>4. ASSUME Classes(u)' = {}
          PROVE  \E p \in Requests : req[p].op = "unlink"
      BY <3>1, <3>2, <3>4, <2>1 DEF Writes, UsersLive, At
    <3>5. \A p \in Requests : req[p].op = "unlink" => req'[p].op = "unlink"
      BY <1>1, Staying, NullIsNothing DEF Keeping, Ops
    <3> QED BY <3>3, <3>4, <3>5
  <2> QED BY <2>1, <2>2
<1>3. \A q \in Requests : q # r => req'[q] = req[q]
  BY DEF Forward
<1>4. ASSUME NEW q \in Requests, NEW u \in req'[q].made, u \notin req[q].made
      PROVE  user'[u] # "unborn" /\ u \in profiled' /\ Classes(u)' # {}
  BY <1>3, <1>4 DEF Reports
<1>5. \A q \in Requests : Made(q)'
  BY <1>2, <1>4 DEF Made
<1>6. CreatedRowsAreWhole'
  <2> SUFFICES ASSUME NEW q \in Requests, NEW u \in req'[q].made, u \in Live'
               PROVE  /\ u \in profiled'
                      /\ Classes(u)' = {} => \E p \in Requests : req'[p].op = "unlink"
    BY DEF CreatedRowsAreWhole
  <2> QED BY <1>2, <1>4
<1> QED BY <1>5, <1>6

LEMMA EnteredStays ==
    ASSUME Inv, NEW r \in Requests, Forward(r), Writes(r), TypeOK'
    PROVE  \A m \in member' : Entered(m)'
<1> SUFFICES ASSUME NEW m \in member'
             PROVE  user'[m.user] # "unborn"
                    /\ (m.by # Null => req'[m.by].op \in {"move", "create"})
  BY DEF Entered
<1>1. CASE Placed(m, r)
  <2>1. req[r].op \in {"move", "create"} /\ req'[r].op = req[r].op
    BY <1>1, NullIsNothing DEF Placed, Inv, Sound, Keeping, Ops, Forward
  <2>2. m.user \in Users
    BY DEF TypeOK, Member
  <2> QED BY <1>1, <2>1, <2>2 DEF Placed, Writes, UsersLive
<1>2. ASSUME NEW n \in member, Stays(n, m, r)
      PROVE  user'[m.user] # "unborn"
             /\ (m.by # Null => req'[m.by].op \in {"move", "create"})
  <2>1. n.by = m.by /\ n.user = m.user
    BY <1>2 DEF Stays, Row
  <2>2. n.user \in Users /\ n.by \in Requests \cup {Null} /\ Entered(n)
    BY DEF Inv, TypeOK, Member
  <2>3. \A q \in Requests : req[q].op \in {"move", "create"} => req'[q].op = req[q].op
    BY Staying, NullIsNothing DEF Inv, Sound, Keeping, Ops
  <2> QED BY <2>1, <2>2, <2>3 DEF Entered, Writes, UsersLive
<1> QED BY <1>1, <1>2 DEF Writes, MembersLast

LEMMA SecondClassStays ==
    ASSUME Inv, NEW r \in Requests, Forward(r), Writes(r), TypeOK'
    PROVE  SecondClassNeedsOverlap'
<1> SUFFICES ASSUME NEW m \in member', NEW n \in member', m.user = n.user, m # n
             PROVE  /\ m.by # Null /\ n.by # Null
                    /\ Overlap(m.by, n.by)'
                    /\ "move" \in {req'[m.by].op, req'[n.by].op}
  BY DEF SecondClassNeedsOverlap
<1>1. \A q, b : Overlap(q, b) => Overlap(b, q)
  BY DEF Overlap
<1>2. m.by \in Requests \cup {Null} /\ n.by \in Requests \cup {Null}
  BY DEF TypeOK, Member
<1>3. SUFFICES /\ m.by # Null /\ n.by # Null
               /\ Overlap(m.by, n.by)
               /\ "move" \in {req[m.by].op, req[n.by].op}
  <2> SUFFICES ASSUME m.by # Null, n.by # Null, Overlap(m.by, n.by),
                      "move" \in {req[m.by].op, req[n.by].op}
               PROVE  /\ Overlap(m.by, n.by)'
                      /\ "move" \in {req'[m.by].op, req'[n.by].op}
    OBVIOUS
  <2> QED BY <1>2, Staying DEF Overlap
<1>4. CASE Placed(m, r)
  BY <1>1, <1>4, RosterAssumption DEF Placed, RosterAssumption
<1>5. CASE Placed(n, r)
  BY <1>5, RosterAssumption DEF Placed, RosterAssumption
<1>6. ASSUME NEW k \in member, NEW l \in member, Stays(k, m, r), Stays(l, n, r)
      PROVE  /\ m.by # Null /\ n.by # Null
             /\ Overlap(m.by, n.by)
             /\ "move" \in {req[m.by].op, req[n.by].op}
  <2>1. /\ k.user = m.user /\ k.year = m.year /\ k.by = m.by
        /\ l.user = n.user /\ l.year = n.year /\ l.by = n.by
    BY <1>6 DEF Stays, Row
  <2>2. m.year # n.year
    BY DEF TypeOK
  <2>3. k # l
    BY <2>1, <2>2
  <2> QED BY <2>1, <2>3 DEF Inv, MembershipsHold, SecondClassNeedsOverlap
<1> QED BY <1>4, <1>5, <1>6 DEF Writes, MembersLast

LEMMA UnlinkedStays ==
    ASSUME Inv, NEW r \in Requests, Forward(r), Writes(r), TypeOK'
    PROVE  UnlinkedClassesAreEmpty'
<1> DEFINE Fine(m) == \/ m.by # Null /\ req'[m.by].op = "create"
                      \/ \E q, b \in Requests :
                            /\ Unlinks(q, m.year, m.school)'
                            /\ Overlap(q, b)'
                            /\ b = m.by \/ req'[b].op = "boot"
<1> SUFFICES ASSUME NEW m \in member', m.school # Null,
                    <<m.year, m.school>> \notin linked'
             PROVE  Fine(m)
  BY DEF UnlinkedClassesAreEmpty, Unlinks
<1>1. \A q \in Requests : /\ req[q].pc # "idle" => req'[q].op = req[q].op
                          /\ req[q].op # Null => req[q].pc # "idle"
                          /\ Keeping(q)
  BY Staying DEF Inv, Sound, Keeping
<1>2. CASE Placed(m, r)
  <2>1. req[r].op = "create" /\ m.by = r
    BY <1>2 DEF Placed
  <2> QED BY <2>1, <1>1, RosterAssumption, NullIsNothing DEF RosterAssumption, Ops
<1>3. ASSUME NEW n \in member, Stays(n, m, r)
      PROVE  Fine(m)
  <2>1. m.year = n.year /\ m.by = n.by /\ m.school = n.school /\ Row(m) = Row(n)
    BY <1>3 DEF Stays, Row
  <2>2. n.by \in Requests \cup {Null} /\ n.school \in Schools /\ n.year \in Years
    BY <2>1 DEF Inv, TypeOK, Member
  <2>3. ASSUME NEW q \in Requests, Unlinks(q, n.year, n.school), Unminded(n, q)
        PROVE  Fine(m)
    <3>1. Unlinks(q, m.year, m.school)'
      BY <2>1, <2>3, Staying
    <3>2. Unminded(m, q)'
      BY <2>1, <2>3, UnmindedStays
    <3> QED BY <3>1, <3>2 DEF Unminded
  <2>4. CASE <<n.year, n.school>> \notin linked
    <3>1. \/ n.by # Null /\ req[n.by].op = "create"
          \/ \E q, b \in Requests :
                /\ Unlinks(q, n.year, n.school)
                /\ Overlap(q, b)
                /\ b = n.by \/ req[b].op = "boot"
      BY <2>1, <2>4 DEF Inv, MembershipsHold, UnlinkedClassesAreEmpty
    <3>2. CASE n.by # Null /\ req[n.by].op = "create"
      BY <3>2, <1>1, <2>1, <2>2, NullIsNothing DEF Ops
    <3>3. ASSUME NEW q \in Requests, NEW b \in Requests,
                 Unlinks(q, n.year, n.school), Overlap(q, b), b = n.by \/ req[b].op = "boot"
          PROVE  Fine(m)
      BY <2>3, <3>3 DEF Unminded
    <3> QED BY <3>1, <3>2, <3>3
  <2>5. CASE <<n.year, n.school>> \in linked
    <3>1. PICK p \in linked : p = <<n.year, n.school>>
      BY <2>5
    <3>2. \/ req[r].pc = "unlink" /\ p = <<req[r].year, req[r].school>>
          \/ \A l \in member' : l.school # p[2]
      BY <2>1, <3>1 DEF Writes, LinksLast
    <3>3. req[r].pc = "unlink" /\ req[r].year = n.year /\ req[r].school = n.school
      BY <2>1, <3>1, <3>2
    <3>4. Unlinks(r, n.year, n.school)
      BY <3>3, <1>1 DEF Unlinks, Keeping
    <3>5. Unminded(n, r)
      BY <3>3 DEF Inv, Sound, Vacating, InClassAt
    <3> QED BY <2>3, <3>4, <3>5
  <2> QED BY <2>4, <2>5
<1> QED BY <1>2, <1>3 DEF Writes, MembersLast

-----------------------------------------------------------------------------
(* A step of r that moves it on, writes what it may and leaves r itself    *)
(* sound keeps the invariant.                                              *)
LEMMA Lasting ==
    ASSUME Inv, NEW r \in Requests, Good(r)
    PROVE  Inv'
<1>1. Forward(r) /\ Writes(r) /\ Reports(r) /\ TypeOK' /\ Own(r)'
  BY DEF Good
<1>2. ASSUME NEW q \in Requests, q # r
      PROVE  Keeping(q)'
  <2>1. req'[q] = req[q] /\ Keeping(q)
    BY <1>1, <1>2 DEF Inv, Sound, Forward
  <2> QED BY <2>1 DEF Keeping
<1>3. ASSUME NEW q \in Requests
      PROVE  Sound(q)'
  <2>1. Past(q)' /\ Made(q)'
    BY <1>1, Staying, MadeStays
  <2>2. CASE q = r
    BY <2>1, <2>2, <1>1 DEF Own, Sound
  <2>3. CASE q # r
    BY <2>1, <2>3, <1>1, <1>2, OthersLinking, OthersVacating, OthersSweeping,
       OthersImporting, OthersMoving DEF Sound
  <2> QED BY <2>2, <2>3
<1>4. \A m \in member' : Entered(m)'
  BY <1>1, EnteredStays
<1>5. MembershipsHold'
  BY <1>1, MadeStays, SecondClassStays, UnlinkedStays DEF MembershipsHold
<1> QED BY <1>1, <1>3, <1>4, <1>5 DEF Inv

(* No step gives an empty school a class, deletes who is not a member, or  *)
(* takes somebody's last class away, but as the three properties say.      *)
EmptyStays ==
    \A s \in Schools :
        YearsAt(s) = {} /\ YearsAt(s)' # {} =>
            \E r \in Requests :
                /\ req[r].pc = "insert" /\ req[r].school = s
                /\ req[r] # req'[r]
                /\ \/ req[r].op \in {"link", "bulk"}
                   \/ /\ req[r].op = "list"
                      /\ \E q \in Requests, y \in Years :
                            Unlinks(q, y, s) /\ Overlap(q, r)

MembersGo ==
    \A u \in Live, r \in Requests :
        u \notin Live' /\ req[r] # req'[r] => Belongs(u, r) \/ Left(u, r)

UnlinkStrands ==
    \A u \in Live :
        u \in Live' /\ Classes(u) # {} /\ Classes(u)' = {} =>
            \E r \in Requests : At(r, "unlink", "left") /\ req[r] # req'[r]

StepHolds == EmptyStays /\ MembersGo /\ UnlinkStrands

LEMMA GoodStepHolds ==
    ASSUME Inv, NEW r \in Requests, Good(r)
    PROVE  StepHolds
<1>1. Forward(r) /\ Writes(r) /\ TypeOK /\ TypeOK' /\ Sound(r)
  BY DEF Good, Inv
<1>2. req[r] # req'[r] /\ \A q \in Requests : q # r => req'[q] = req[q]
  BY <1>1 DEF Forward
<1>3. EmptyStays
  <2> SUFFICES ASSUME NEW s \in Schools, YearsAt(s) = {}, YearsAt(s)' # {}
               PROVE  /\ req[r].pc = "insert" /\ req[r].school = s
                      /\ \/ req[r].op \in {"link", "bulk"}
                         \/ /\ req[r].op = "list"
                            /\ \E q \in Requests, y \in Years :
                                  Unlinks(q, y, s) /\ Overlap(q, r)
    BY <1>2 DEF EmptyStays
  <2>1. PICK y \in Years : <<y, s>> \in linked' /\ <<y, s>> \notin linked
    BY DEF YearsAt
  <2>2. PICK p \in linked' : p = <<y, s>>
    BY <2>1
  <2>3. req[r].pc = "insert" /\ req[r].school = s /\ school[s] = "live"
    BY <1>1, <2>1, <2>2 DEF Writes, LinksLast
  <2>4. req[r].op \in {"list", "link", "bulk"}
    BY <1>1, <2>3 DEF Sound, Keeping
  <2>5. ASSUME req[r].op = "list"
        PROVE  \E q \in Requests, z \in Years : Unlinks(q, z, s) /\ Overlap(q, r)
    BY <1>1, <2>3, <2>5 DEF Sound, Linking, At
  <2> QED BY <2>3, <2>4, <2>5
<1>4. MembersGo
  <2> SUFFICES ASSUME NEW u \in Live, u \notin Live'
               PROVE  Belongs(u, r) \/ Left(u, r)
    BY <1>2 DEF MembersGo
  <2>1. u \in Users /\ user[u] = "live" /\ user'[u] = "gone"
    BY <1>1 DEF Live, TypeOK, Writes, UsersLive
  <2>2. req[r].pc = "drop" /\ u \in req[r].who
    BY <1>1, <2>1 DEF Writes, UsersLive
  <2> QED BY <1>1, <2>1, <2>2 DEF Sound, Sweeping
<1>5. UnlinkStrands
  BY <1>1, <1>2 DEF UnlinkStrands, Live, Writes, UsersLive
<1> QED BY <1>3, <1>4, <1>5 DEF StepHolds

-----------------------------------------------------------------------------
LEMMA Effect ==
    ASSUME Inv, NEW r \in Requests, NEW local \in Local,
           req' = [req EXCEPT ![r] = local]
    PROVE  /\ req' \in [Requests -> Local] /\ req'[r] = local
           /\ \A q \in Requests \ {r} : req'[q] = req[q]
BY DEF Inv, TypeOK

(* A request begins.                                                       *)
LEMMA Starting ==
    ASSUME Inv, NEW r \in Requests, NEW local \in Local, Begin(r, local),
           local.op \in Ops, local.pc # "idle", local.op = "create" => local.user = Null
    PROVE  Forward(r) /\ req'[r] = local /\ req[r].op = Null /\ now' = now
<1>1. /\ req' \in [Requests -> Local] /\ req'[r] = local
      /\ \A q \in Requests \ {r} : req'[q] = req[q]
  BY Effect DEF Begin
<1>2. /\ earlier' \in [Requests -> SUBSET Requests]
      /\ \A q \in Requests \ {r} : earlier'[q] = earlier[q]
      /\ earlier'[r] = {q \in Requests : req[q].pc \in Final}
  BY DEF Begin, Inv, TypeOK
<1>3. req[r].pc = "idle" /\ req[r].op = Null /\ now' = now
  BY DEF Begin, Inv, Sound, Keeping
<1>4. req[r].pc \notin Final /\ req'[r] # req[r]
  BY <1>1, <1>3 DEF Final
<1> QED BY <1>1, <1>2, <1>3, <1>4, NullIsNothing DEF Forward

(* It goes on.                                                             *)
LEMMA Going ==
    ASSUME Inv, NEW r \in Requests, NEW local \in Local, Become(r, local),
           req[r].pc \in Steps, local.op = req[r].op, local.pc # "idle",
           local # req[r],
           req[r].op \in {"unlink", "cascade", "close"}
              => local.year = req[r].year /\ local.school = req[r].school,
           req[r].op = "move" => local.user = req[r].user,
           local.op = "create" /\ local.user # Null =>
              local.user = req[r].user \/ user[local.user] = "unborn"
    PROVE  Forward(r) /\ req'[r] = local /\ req[r].op # Null /\ now' = now
<1>1. /\ req' \in [Requests -> Local] /\ req'[r] = local
      /\ \A q \in Requests \ {r} : req'[q] = req[q]
  BY Effect DEF Become
<1>2. earlier' = earlier /\ now' = now /\ earlier \in [Requests -> SUBSET Requests]
  BY DEF Become, Inv, TypeOK
<1>3. req[r].pc # "idle" /\ req[r].pc \notin Final /\ req[r].op # Null
  BY DEF Steps, Final, Inv, Sound, Keeping
<1> QED BY <1>1, <1>2, <1>3 DEF Forward

(* A statement that only reads.                                            *)
LEMMA Quiet ==
    ASSUME Inv, NEW r \in Requests, UNCHANGED rows
    PROVE  Writes(r) /\ (Forward(r) /\ now' = now => TypeOK')
<1>1. /\ classes' = classes /\ school' = school /\ linked' = linked /\ user' = user
      /\ profiled' = profiled /\ member' = member /\ TypeOK
  BY DEF rows, Inv
<1>2. Forward(r) /\ now' = now => TypeOK'
  BY <1>1 DEF TypeOK, Forward, LiveSchools, Live
<1>3. UsersLive(r)
  <2>1. \A u \in Users : Classes(u)' = Classes(u)
    BY <1>1 DEF Classes
  <2> QED BY <1>1, <2>1 DEF UsersLive
<1>4. LinksLast(r)
  BY <1>1 DEF LinksLast
<1>5. MembersLast(r)
  BY <1>1 DEF MembersLast, Stays
<1> QED BY <1>2, <1>3, <1>4, <1>5 DEF Writes

(* Where nothing is asked of what it has seen.                             *)
LEMMA Calm ==
    ASSUME Inv, NEW r \in Requests,
           req'[r].pc \notin {"left", "drop", "unlink", "erased"},
           ~ (req'[r].op = "move" /\ req'[r].pc = "leave"),
           req'[r].op = "create" => req'[r].user = Null
    PROVE  Vacating(r)' /\ Sweeping(r)' /\ Moving(r)' /\ Importing(r)'
<1>1. Vacating(r)'
  BY DEF Vacating, At
<1>2. Sweeping(r)'
  BY DEF Sweeping
<1>3. Moving(r)'
  BY DEF Moving, At
<1>4. Importing(r)'
  BY DEF Importing
<1> QED BY <1>1, <1>2, <1>3, <1>4

(* Where it has answered.                                                  *)
LEMMA Ending ==
    ASSUME Inv, NEW r \in Requests, Forward(r), Writes(r),
           req'[r].pc \in Final, req'[r].op = "create" => req'[r].user = Null,
           req'[r].op = "bulk" => req'[r].years \subseteq classes
    PROVE  Own(r)'
<1>1. req'[r].pc \notin Steps /\ req'[r].pc # "idle"
  BY DEF Steps, Final
<1>2. req'[r].pc \notin {"insert", "sweep", "drop", "unlink", "profile", "place", "left",
                         "erased", "leave"}
  BY <1>1 DEF Steps
<1>3. Keeping(r)'
  BY <1>1, <1>2 DEF Keeping, Forward
<1>4. Linking(r)'
  BY <1>2 DEF Linking, At, Writes, LinksLast
<1>5. Vacating(r)' /\ Sweeping(r)' /\ Moving(r)' /\ Importing(r)'
  BY <1>2, Calm
<1> QED BY <1>3, <1>4, <1>5 DEF Own

LEMMA LocalFields ==
    /\ NoLocal \in Local
    /\ NoLocal.op = Null /\ NoLocal.pc = "idle" /\ NoLocal.school = Null
    /\ NoLocal.year = Null /\ NoLocal.years = {} /\ NoLocal.user = Null
    /\ NoLocal.who = {} /\ NoLocal.seen = {} /\ NoLocal.left = 0 /\ NoLocal.made = {}
BY RosterAssumption DEF NoLocal, Local, RosterAssumption

(* A record that answers is one of its type.                               *)
Reply(op, pc) == [NoLocal EXCEPT !.op = op, !.pc = pc]

LEMMA Answered ==
    ASSUME NEW op \in Ops, NEW pc \in Steps \cup Final
    PROVE  /\ Reply(op, pc) \in Local
           /\ Reply(op, pc).op = op /\ Reply(op, pc).pc = pc
           /\ Reply(op, pc).user = Null /\ Reply(op, pc).school = Null
           /\ Reply(op, pc).years = {} /\ Reply(op, pc).made = {}
<1> PICK local : local = Reply(op, pc)
  OBVIOUS
<1>1. local.op = op /\ local.pc = pc /\ local.user = Null
      /\ local.years = {} /\ local.made = {} /\ local.school = Null
  BY DEF Reply, NoLocal
<1>2. local \in Local
  BY LocalFields DEF Reply, Local
<1> QED BY <1>1, <1>2

(* Who refuses, or answers, has read only.                                 *)
LEMMA Refusing ==
    ASSUME Inv, NEW r \in Requests, NEW op \in Ops, NEW pc \in Final,
           Begin(r, [NoLocal EXCEPT !.op = op, !.pc = pc]), UNCHANGED rows
    PROVE  Good(r)
<1> PICK local \in Local : /\ local = Reply(op, pc)
                           /\ local.op = op /\ local.pc = pc /\ local.user = Null
                           /\ local.years = {} /\ local.made = {}
  BY Answered
<1>1. Forward(r) /\ req'[r] = local /\ now' = now
  <2>1. Begin(r, local)
    BY DEF Reply
  <2> QED BY <2>1, Starting DEF Final
<1>2. Writes(r) /\ TypeOK'
  BY <1>1, Quiet
<1>3. Own(r)'
  BY <1>1, <1>2, Ending
<1> QED BY <1>1, <1>2, <1>3 DEF Good, Reports

LEMMA Answering ==
    ASSUME Inv, NEW r \in Requests, NEW pc \in Final, req[r].pc \in Steps,
           req[r].op \in {"list", "link", "bulk"}, Answer(r, pc), Writes(r)
    PROVE  /\ Forward(r) /\ Own(r)' /\ Reports(r) /\ now' = now
<1> PICK op \in Ops : op = req[r].op
  BY DEF Ops
<1> PICK local \in Local : /\ local = Reply(op, pc)
                           /\ local.op = op /\ local.pc = pc /\ local.user = Null
                           /\ local.years = {} /\ local.made = {}
  BY Answered
<1>1. local # req[r] /\ local.pc # "idle"
  BY DEF Steps, Final
<1>2. Forward(r) /\ req'[r] = local /\ now' = now
  <2>1. Become(r, local)
    BY DEF Answer, Reply
  <2> QED BY <1>1, <2>1, Going
<1>3. Own(r)'
  BY <1>2, Ending
<1> QED BY <1>2, <1>3 DEF Reports

LEMMA Answers ==
    ASSUME Inv, NEW r \in Requests, NEW pc \in Final, req[r].pc \in Steps,
           req[r].op \in {"list", "link", "bulk"}, Answer(r, pc), UNCHANGED rows
    PROVE  Good(r)
<1>1. Writes(r)
  BY Quiet
<1>2. Forward(r) /\ Own(r)' /\ Reports(r) /\ now' = now
  BY <1>1, Answering
<1> QED BY <1>1, <1>2, Quiet DEF Good

LEMMA SameMembers ==
    ASSUME Inv, NEW r \in Requests, UNCHANGED <<user, profiled, member>>
    PROVE  UsersLive(r) /\ MembersLast(r)
<1>1. UsersLive(r)
  <2>1. \A u \in Users : Classes(u)' = Classes(u)
    BY DEF Classes
  <2> QED BY <2>1 DEF UsersLive, Inv, TypeOK
<1>2. MembersLast(r)
  BY DEF MembersLast, Stays
<1> QED BY <1>1, <1>2

LEMMA SameLinks ==
    ASSUME Inv, NEW r \in Requests, UNCHANGED <<classes, school, linked>>
    PROVE  LinksLast(r)
BY DEF LinksLast, Inv, TypeOK

-----------------------------------------------------------------------------
(* One lemma for each step.                                                *)
LEMMA CreateSchoolStep ==
    ASSUME Inv, NEW r \in Requests, CreateSchool(r)
    PROVE  Good(r)
<1>1. PICK s \in Schools : /\ school[s] = "unborn"
                           /\ Begin(r, Reply("open", "ok"))
                           /\ school' = [school EXCEPT ![s] = "live"]
                           /\ UNCHANGED <<classes, linked, user, profiled, member>>
  BY DEF CreateSchool, Reply
<1>2. "open" \in Ops /\ "ok" \in Final
  BY DEF Ops, Final
<1> PICK local \in Local : /\ local = Reply("open", "ok")
                           /\ local.op = "open" /\ local.pc = "ok" /\ local.user = Null
                           /\ local.years = {} /\ local.made = {}
  BY <1>2, Answered
<1>3. Forward(r) /\ req'[r] = local /\ now' = now
  BY <1>1, <1>2, Starting
<1>4. school \in [Schools -> {"unborn", "live", "gone"}] /\ TypeOK
  BY DEF Inv, TypeOK
<1>5. Writes(r)
  <2>1. LinksLast(r)
    BY <1>1, <1>4 DEF LinksLast
  <2> QED BY <1>1, <2>1, SameMembers DEF Writes
<1>6. TypeOK'
  <2>1. LiveSchools \subseteq LiveSchools' /\ Live' = Live
    BY <1>1, <1>4 DEF LiveSchools, Live
  <2> QED BY <1>1, <1>3, <1>4, <2>1 DEF TypeOK, Forward
<1>7. Own(r)'
  BY <1>2, <1>3, <1>5, Ending
<1> QED BY <1>3, <1>5, <1>6, <1>7 DEF Good, Reports

(* A request that begins with a look, and goes on to insert a link.        *)
LEMMA Looking ==
    ASSUME Inv, NEW r \in Requests, NEW local \in Local, Begin(r, local), UNCHANGED rows,
           local.op \in Ops, local.made = {}, local.op = "create" => local.user = Null,
           local.pc \in Steps \ {"left", "drop", "unlink", "erased", "profile", "place"},
           local.pc = "leave" => local.op = "unlink",
           local.pc = "insert" => local.op \in {"link", "bulk"},
           local.pc = "sweep" => local.op \in {"cascade", "close"},
           local.op \notin {"move", "boot"} => local.school \in Schools,
           local.op \notin {"bulk", "close", "boot"} => local.year \in Years,
           local.op = "create" => local.left # 0,
           local.op = "link" => local.year \in classes,
           local.op = "bulk" => local.years \subseteq classes
    PROVE  Good(r)
<1>1. local.pc # "idle"
  BY DEF Steps
<1>2. Forward(r) /\ req'[r] = local /\ now' = now
  BY <1>1, Starting
<1>3. Writes(r) /\ TypeOK'
  BY <1>2, Quiet
<1>4. Keeping(r)'
  BY <1>1, <1>2, NullIsNothing DEF Keeping
<1>5. Linking(r)'
  BY <1>2, <1>3 DEF Linking, At, Writes, LinksLast
<1>6. Vacating(r)' /\ Sweeping(r)' /\ Moving(r)' /\ Importing(r)'
  BY <1>2, Calm
<1> QED BY <1>2, <1>3, <1>4, <1>5, <1>6 DEF Good, Own, Reports

LEMMA ListLookupStep ==
    ASSUME Inv, NEW r \in Requests, ListLookup(r)
    PROVE  Good(r)
<1>1. PICK s \in Schools :
         \/ Begin(r, [NoLocal EXCEPT !.op = "list", !.pc = "ok"])
         \/ Begin(r, [[NoLocal EXCEPT !.op = "list", !.school = s, !.year = now]
                          EXCEPT !.pc = "any"])
  BY DEF ListLookup
<1>2. "list" \in Ops /\ "ok" \in Final /\ UNCHANGED rows
  BY DEF Ops, Final, ListLookup
<1>3. CASE Begin(r, [NoLocal EXCEPT !.op = "list", !.pc = "ok"])
  BY <1>2, <1>3, Refusing
<1>4. CASE Begin(r, [[NoLocal EXCEPT !.op = "list", !.school = s, !.year = now]
                          EXCEPT !.pc = "any"])
  <2> PICK local : local = [[NoLocal EXCEPT !.op = "list", !.school = s, !.year = now]
                               EXCEPT !.pc = "any"]
    OBVIOUS
  <2>1. /\ local.op = "list" /\ local.pc = "any" /\ local.school = s /\ local.year = now
        /\ local.made = {}
    BY DEF NoLocal
  <2>2. now \in Years
    BY DEF Inv, TypeOK
  <2>3. local \in Local
    BY <2>2, LocalFields DEF Local, Ops, Steps
  <2> QED BY <1>2, <1>4, <2>1, <2>2, <2>3, Looking DEF Steps
<1> QED BY <1>1, <1>3, <1>4

LEMMA ListAnyStep ==
    ASSUME Inv, NEW r \in Requests, ListAny(r)
    PROVE  Good(r)
<1>1. /\ req[r].op = "list" /\ req[r].pc = "any" /\ req[r] \in Local /\ Keeping(r)
      /\ UNCHANGED rows
  BY DEF ListAny, At, Inv, Sound, TypeOK
<1>2. CASE Answer(r, "ok")
  BY <1>1, <1>2, Answers DEF Final, Steps
<1>3. CASE YearsAt(req[r].school) # {} /\ req[r].year \in classes /\ Goto(r, "insert")
  <2> PICK local : local = [req[r] EXCEPT !.pc = "insert"]
    OBVIOUS
  <2>1. /\ local.pc = "insert" /\ local.op = "list" /\ local.school = req[r].school
        /\ local.year = req[r].year /\ local.user = req[r].user /\ local.made = req[r].made
    BY <1>1 DEF Local
  <2>2. local \in Local
    BY <1>1 DEF Local, Steps
  <2>3. Forward(r) /\ req'[r] = local /\ now' = now
    BY <1>1, <1>3, <2>1, <2>2, Going DEF Goto, Steps
  <2>4. Writes(r) /\ TypeOK'
    BY <1>1, <2>3, Quiet
  <2>5. req[r].school \in Schools /\ req[r].year \in Years
    BY <1>1 DEF Keeping, Steps
  <2>6. Keeping(r)'
    BY <2>1, <2>3, <2>5, NullIsNothing DEF Keeping, Ops
  <2>7. Linking(r)'
    <3>1. PICK s \in Schools : s = req[r].school
      BY <2>5
    <3>2. PICK y \in Years : <<y, s>> \in linked
      BY <1>3, <3>1 DEF YearsAt
    <3>3. s \in LiveSchools /\ <<y, s>> \in linked' /\ school' = school /\ classes' = classes
      BY <1>1, <3>2 DEF Inv, TypeOK, rows
    <3>4. school'[s] # "unborn" /\ YearsAt(s)' # {}
      BY <3>2, <3>3 DEF LiveSchools, YearsAt
    <3> QED BY <1>3, <2>1, <2>3, <3>1, <3>3, <3>4 DEF Linking, At, YearsAt
  <2>8. Vacating(r)' /\ Sweeping(r)' /\ Moving(r)' /\ Importing(r)'
    BY <2>1, <2>3, Calm
  <2> QED BY <2>1, <2>3, <2>4, <2>6, <2>7, <2>8 DEF Good, Own, Reports
<1> QED BY <1>2, <1>3 DEF ListAny

(* An INSERT into class_school, of a class there is at a school there is.  *)
LEMMA Inserting ==
    ASSUME Inv, NEW r \in Requests, NEW y \in classes, NEW s \in Schools,
           req[r].pc = "insert", req[r].school = s, s \in LiveSchools,
           linked' = linked \cup {<<y, s>>},
           UNCHANGED <<classes, school, user, profiled, member>>
    PROVE  Writes(r) /\ (Forward(r) /\ now' = now => TypeOK')
<1>1. school[s] = "live" /\ TypeOK
  BY DEF LiveSchools, Inv
<1>2. LinksLast(r)
  <2>1. \A p \in linked' : p \notin linked => p[2] = s
    OBVIOUS
  <2> QED BY <1>1, <2>1 DEF LinksLast, Inv, TypeOK
<1>3. Forward(r) /\ now' = now => TypeOK'
  BY <1>1 DEF TypeOK, Forward, LiveSchools, Live
<1> QED BY <1>2, <1>3, SameMembers DEF Writes

LEMMA ListInsertStep ==
    ASSUME Inv, NEW r \in Requests, ListInsert(r)
    PROVE  Good(r)
<1>1. /\ req[r].op = "list" /\ req[r].pc = "insert" /\ Keeping(r) /\ Linking(r)
  BY DEF ListInsert, At, Inv, Sound
<1>2. /\ req[r].pc \in Steps /\ req[r].school \in Schools /\ req[r].year \in classes
      /\ "ok" \in Final /\ "failed" \in Final
  BY <1>1 DEF Keeping, Linking, At, Steps, Final
<1>3. CASE req[r].school \in LiveSchools
  <2>1. Answer(r, "ok") /\ Writes(r) /\ (Forward(r) /\ now' = now => TypeOK')
    BY <1>1, <1>2, <1>3, Inserting DEF ListInsert
  <2> QED BY <1>1, <1>2, <2>1, Answering DEF Good
<1>4. CASE req[r].school \notin LiveSchools
  BY <1>1, <1>2, <1>4, Answers DEF ListInsert, rows
<1> QED BY <1>3, <1>4

LEMMA LinkLookupStep ==
    ASSUME Inv, NEW r \in Requests, LinkLookup(r)
    PROVE  Good(r)
<1>1. PICK s \in Schools, y \in Years :
         LET local == [NoLocal EXCEPT !.op = "link", !.school = s, !.year = y]
         IN  /\ IF s \in LiveSchools /\ y \in classes /\ <<y, s>> \notin linked
                THEN Begin(r, [local EXCEPT !.pc = "insert"])
                ELSE Refuse(r, local.op)
             /\ UNCHANGED rows
  BY DEF LinkLookup
<1> PICK look : look = [NoLocal EXCEPT !.op = "link", !.school = s, !.year = y]
  OBVIOUS
<1> PICK local : local = [look EXCEPT !.pc = "insert"]
  OBVIOUS
<1>2. /\ local.op = "link" /\ local.pc = "insert" /\ local.school = s /\ local.year = y
      /\ local.made = {} /\ look.op = "link"
  BY DEF NoLocal
<1>3. local \in Local
  BY LocalFields DEF Local, Ops, Steps
<1>4. CASE Begin(r, local) /\ y \in classes
  BY <1>1, <1>2, <1>3, <1>4, Looking DEF Steps, Ops
<1>5. CASE Refuse(r, "link")
  BY <1>1, <1>5, Refusing DEF Refuse, Ops, Final
<1> QED BY <1>1, <1>2, <1>4, <1>5

LEMMA LinkInsertStep ==
    ASSUME Inv, NEW r \in Requests, LinkInsert(r)
    PROVE  Good(r)
<1>1. /\ req[r].op = "link" /\ req[r].pc = "insert" /\ Keeping(r) /\ Linking(r)
  BY DEF LinkInsert, At, Inv, Sound
<1>2. /\ req[r].pc \in Steps /\ req[r].school \in Schools /\ req[r].year \in classes
      /\ "ok" \in Final /\ "failed" \in Final
  BY <1>1 DEF Keeping, Linking, At, Steps, Final
<1>3. CASE req[r].school \in LiveSchools /\ <<req[r].year, req[r].school>> \notin linked
  <2>1. Answer(r, "ok") /\ Writes(r) /\ (Forward(r) /\ now' = now => TypeOK')
    BY <1>1, <1>2, <1>3, Inserting DEF LinkInsert
  <2> QED BY <1>1, <1>2, <2>1, Answering DEF Good
<1>4. CASE Answer(r, "failed") /\ UNCHANGED linked
  BY <1>1, <1>2, <1>4, Answers DEF LinkInsert, rows
<1> QED BY <1>3, <1>4 DEF LinkInsert

LEMMA BulkLookupStep ==
    ASSUME Inv, NEW r \in Requests, BulkLookup(r)
    PROVE  Good(r)
<1>1. PICK s \in Schools, start \in Years :
         LET local == [NoLocal EXCEPT !.op = "bulk", !.school = s]
         IN  /\ IF start <= now /\ s \in LiveSchools
                THEN Begin(r, [local EXCEPT !.pc = "insert",
                                            !.years = classes \cap (start .. now)])
                ELSE Refuse(r, local.op)
             /\ UNCHANGED rows
  BY DEF BulkLookup
<1> PICK Y : Y = classes \cap (start .. now)
  OBVIOUS
<1> PICK look : look = [NoLocal EXCEPT !.op = "bulk", !.school = s]
  OBVIOUS
<1> PICK local : local = [look EXCEPT !.pc = "insert", !.years = Y]
  OBVIOUS
<1>2. /\ local.op = "bulk" /\ local.pc = "insert" /\ local.school = s /\ local.years = Y
      /\ local.made = {} /\ look.op = "bulk"
  BY DEF NoLocal
<1>3. Y \subseteq classes /\ Y \subseteq Years
  BY DEF Inv, TypeOK
<1>4. local \in Local
  BY <1>3, LocalFields DEF Local, Ops, Steps
<1>5. CASE Begin(r, local)
  BY <1>1, <1>2, <1>3, <1>4, <1>5, Looking DEF Steps, Ops
<1>6. CASE Refuse(r, "bulk")
  BY <1>1, <1>6, Refusing DEF Refuse, Ops, Final
<1> QED BY <1>1, <1>2, <1>5, <1>6

LEMMA BulkInsertStep ==
    ASSUME Inv, NEW r \in Requests, BulkInsert(r)
    PROVE  Good(r)
<1>1. /\ req[r].op = "bulk" /\ req[r].pc = "insert" /\ Keeping(r) /\ Linking(r)
      /\ req[r] \in Local
  BY DEF BulkInsert, At, Inv, Sound, TypeOK
<1>2. /\ req[r].pc \in Steps /\ req[r].school \in Schools /\ req[r].years \subseteq classes
      /\ "ok" \in Final /\ "failed" \in Final
  BY <1>1 DEF Keeping, Linking, At, Steps, Final
<1>3. CASE (Answer(r, "ok") \/ Answer(r, "failed")) /\ UNCHANGED linked
  BY <1>1, <1>2, <1>3, Answers DEF BulkInsert, rows
<1>4. CASE \E y \in req[r].years :
              /\ req[r].school \in LiveSchools
              /\ linked' = linked \cup {<<y, req[r].school>>}
              /\ Become(r, [req[r] EXCEPT !.years = @ \ {y}])
  <2>1. PICK y \in req[r].years :
           /\ req[r].school \in LiveSchools
           /\ linked' = linked \cup {<<y, req[r].school>>}
           /\ Become(r, [req[r] EXCEPT !.years = @ \ {y}])
    BY <1>4
  <2> PICK local : local = [req[r] EXCEPT !.years = @ \ {y}]
    OBVIOUS
  <2>2. /\ local.pc = "insert" /\ local.op = "bulk" /\ local.school = req[r].school
        /\ local.years = req[r].years \ {y} /\ local.made = req[r].made
    BY <1>1 DEF Local
  <2>3. local \in Local
    BY <1>1 DEF Local
  <2>4. local # req[r] /\ local.pc # "idle"
    BY <2>1, <2>2
  <2>5. Forward(r) /\ req'[r] = local /\ now' = now
    BY <1>1, <1>2, <2>1, <2>2, <2>3, <2>4, Going
  <2>6. Writes(r) /\ TypeOK'
    BY <1>1, <1>2, <2>1, <2>5, Inserting DEF BulkInsert
  <2>7. Keeping(r)'
    BY <1>2, <2>2, <2>5, NullIsNothing DEF Keeping, Ops
  <2>8. Linking(r)'
    BY <1>2, <2>2, <2>5, <2>6 DEF Linking, At, Writes, LinksLast
  <2>9. Vacating(r)' /\ Sweeping(r)' /\ Moving(r)' /\ Importing(r)'
    BY <2>2, <2>5, Calm
  <2> QED BY <2>2, <2>5, <2>6, <2>7, <2>8, <2>9 DEF Good, Own, Reports
<1> QED BY <1>3, <1>4 DEF BulkInsert

LEMMA UnlinkLookupStep ==
    ASSUME Inv, NEW r \in Requests, UnlinkLookup(r)
    PROVE  Good(r)
<1>1. PICK s \in Schools, y \in Years, op \in {"unlink", "cascade"} :
         LET local == [NoLocal EXCEPT !.op = op, !.school = s, !.year = y]
         IN  /\ IF <<y, s>> \notin linked
                THEN Refuse(r, op)
                ELSE Begin(r, [local EXCEPT
                         !.pc = IF op = "cascade" THEN "sweep" ELSE "leave"])
             /\ UNCHANGED rows
  BY DEF UnlinkLookup
<1> PICK pc : pc = IF op = "cascade" THEN "sweep" ELSE "leave"
  OBVIOUS
<1> PICK local : local = [[NoLocal EXCEPT !.op = op, !.school = s, !.year = y]
                             EXCEPT !.pc = pc]
  OBVIOUS
<1>2. /\ local.op = op /\ local.pc = pc /\ local.school = s /\ local.year = y
      /\ local.made = {}
  BY DEF NoLocal
<1>3. /\ pc \in Steps /\ op \in Ops /\ "refused" \in Final
      /\ op # "create" /\ op # "link" /\ op # "bulk"
      /\ pc \in Steps \ {"left", "drop", "unlink", "erased", "profile", "place"}
      /\ pc # "insert" /\ (pc = "leave" => op = "unlink")
      /\ (pc = "sweep" => op \in {"cascade", "close"})
  BY DEF Steps, Ops, Final
<1>4. local \in Local
  BY <1>3, LocalFields DEF Local
<1>5. CASE Begin(r, local)
  <2>1. UNCHANGED rows
    BY <1>1
  <2> QED BY <1>2, <1>3, <1>4, <1>5, <2>1, Looking
<1>6. CASE Refuse(r, op)
  BY <1>1, <1>3, <1>6, Refusing DEF Refuse
<1> QED BY <1>1, <1>5, <1>6

LEMMA RowsTyped ==
    ASSUME Inv, NEW M \in SUBSET member
    PROVE  RowsOf(M) \in SUBSET Rows
BY DEF Inv, TypeOK, Member, RowsOf, Row, Rows

LEMMA UnlinkLeaveStep ==
    ASSUME Inv, NEW r \in Requests, UnlinkLeave(r)
    PROVE  Good(r)
<1>1. /\ req[r].op = "unlink" /\ req[r].pc = "leave" /\ Keeping(r) /\ req[r] \in Local
      /\ UNCHANGED rows
  BY DEF UnlinkLeave, At, Inv, Sound, TypeOK
<1> PICK S : S = RowsOf(InClassAt(req[r].year, req[r].school))
  OBVIOUS
<1> PICK local : local = [req[r] EXCEPT !.pc = "left", !.seen = S]
  OBVIOUS
<1>2. S \in SUBSET Rows
  BY RowsTyped DEF InClassAt
<1>3. /\ local.pc = "left" /\ local.op = "unlink" /\ local.school = req[r].school
      /\ local.year = req[r].year /\ local.seen = S /\ local.user = req[r].user
      /\ local.made = req[r].made
  BY <1>1 DEF Local
<1>4. local \in Local
  BY <1>1, <1>2 DEF Local, Steps
<1>5. Forward(r) /\ req'[r] = local /\ now' = now
  <2>1. Become(r, local)
    BY <1>1 DEF UnlinkLeave
  <2> QED BY <1>1, <1>3, <1>4, <2>1, Going DEF Steps
<1>6. Writes(r) /\ TypeOK'
  BY <1>1, <1>5, Quiet
<1>7. Keeping(r)'
  BY <1>1, <1>3, <1>5, NullIsNothing DEF Keeping, Ops, Steps
<1>8. Vacating(r)'
  BY <1>1, <1>3, <1>5 DEF Vacating, At, InClassAt, RowsOf, rows, Row
<1>9. Linking(r)' /\ Sweeping(r)' /\ Moving(r)' /\ Importing(r)'
  BY <1>3, <1>5 DEF Linking, Sweeping, Moving, Importing, At
<1> QED BY <1>3, <1>5, <1>6, <1>7, <1>8, <1>9 DEF Good, Own, Reports

LEMMA UnlinkLeftStep ==
    ASSUME Inv, NEW r \in Requests, UnlinkLeft(r)
    PROVE  Good(r)
<1>1. /\ req[r].op = "unlink" /\ req[r].pc = "left" /\ Keeping(r) /\ req[r] \in Local
      /\ Vacating(r) /\ At(r, "unlink", "left")
      /\ TypeOK /\ UNCHANGED <<classes, school, linked, user, profiled>>
      /\ member' = {m \in member : Row(m) \notin req[r].seen \/ m.school # req[r].school}
  BY DEF UnlinkLeft, At, Inv, Sound, TypeOK
<1> PICK local : local = [req[r] EXCEPT !.pc = "unlink", !.seen = {}]
  OBVIOUS
<1>2. /\ local.pc = "unlink" /\ local.op = "unlink" /\ local.school = req[r].school
      /\ local.year = req[r].year /\ local.user = req[r].user /\ local.made = req[r].made
  BY <1>1 DEF Local
<1>3. local \in Local
  BY <1>1 DEF Local, Steps
<1>4. Forward(r) /\ req'[r] = local /\ now' = now
  <2>1. Become(r, local)
    BY <1>1 DEF UnlinkLeft
  <2> QED BY <1>1, <1>2, <1>3, <2>1, Going DEF Steps
<1>5. Writes(r)
  <2>1. UsersLive(r)
    BY <1>1 DEF UsersLive, TypeOK
  <2>2. LinksLast(r)
    BY <1>1, SameLinks
  <2>3. MembersLast(r)
    BY <1>1 DEF MembersLast, Stays, Lost
  <2> QED BY <2>1, <2>2, <2>3 DEF Writes
<1>6. TypeOK'
  <2>1. /\ member' \subseteq Member
        /\ \A m, n \in member' : m.user = n.user /\ m.year = n.year => m = n
    BY <1>1 DEF TypeOK
  <2> QED BY <1>1, <1>4, <2>1 DEF TypeOK, Forward, LiveSchools, Live
<1>7. Keeping(r)'
  BY <1>1, <1>2, <1>4, NullIsNothing DEF Keeping, Ops, Steps
<1>8. Vacating(r)'
  <2> SUFFICES ASSUME NEW m \in member', m.year = req[r].year, m.school = req[r].school
               PROVE  Unminded(m, r)'
    BY <1>2, <1>4 DEF Vacating, InClassAt, At
  <2>1. m \in InClassAt(req[r].year, req[r].school) /\ Row(m) \notin req[r].seen
    BY <1>1 DEF InClassAt
  <2>2. Unminded(m, r)
    BY <1>1, <2>1 DEF Vacating
  <2> QED BY <2>1, <2>2, <1>4, UnmindedStays DEF InClassAt
<1>9. Linking(r)' /\ Sweeping(r)' /\ Moving(r)' /\ Importing(r)'
  BY <1>2, <1>4 DEF Linking, Sweeping, Moving, Importing, At
<1> QED BY <1>2, <1>4, <1>5, <1>6, <1>7, <1>8, <1>9 DEF Good, Own, Reports

LEMMA SweepListStep ==
    ASSUME Inv, NEW r \in Requests, SweepList(r)
    PROVE  Good(r)
<1>1. /\ req[r].op \in {"cascade", "close"} /\ req[r].pc = "sweep" /\ Keeping(r)
      /\ req[r] \in Local /\ member \subseteq Member /\ UNCHANGED rows
  BY DEF SweepList, Inv, Sound, TypeOK
<1> PICK W : W = UsersOf(IF req[r].op = "cascade"
                         THEN InClassAt(req[r].year, req[r].school)
                         ELSE {m \in member : m.school = req[r].school})
  OBVIOUS
<1> PICK local : local = [req[r] EXCEPT !.pc = "drop", !.who = W]
  OBVIOUS
<1>2. W \subseteq Users
  BY <1>1 DEF UsersOf, InClassAt, Member
<1>3. /\ local.pc = "drop" /\ local.op = req[r].op /\ local.school = req[r].school
      /\ local.year = req[r].year /\ local.who = W /\ local.user = req[r].user
      /\ local.made = req[r].made
  BY <1>1 DEF Local
<1>4. local \in Local
  BY <1>1, <1>2 DEF Local, Steps
<1>5. Forward(r) /\ req'[r] = local /\ now' = now
  <2>1. Become(r, local)
    BY <1>1 DEF SweepList
  <2> QED BY <1>1, <1>3, <1>4, <2>1, Going DEF Steps
<1>6. Writes(r) /\ TypeOK'
  BY <1>1, <1>5, Quiet
<1>7. Keeping(r)'
  BY <1>1, <1>3, <1>5, NullIsNothing DEF Keeping, Ops, Steps
<1>8. Vacating(r)'
  <2>1. \A m \in InClassAt(req[r].year, req[r].school) :
            req[r].op = "cascade" => m.user \in W
    BY DEF UsersOf
  <2> SUFFICES ASSUME req[r].op = "cascade", NEW m \in member',
                      m.year = req[r].year, m.school = req[r].school
               PROVE  m.user \in W
    <3>1. /\ req'[r].pc = "drop" /\ req'[r].op = req[r].op /\ req'[r].who = W
          /\ req'[r].year = req[r].year /\ req'[r].school = req[r].school
      BY <1>3, <1>5
    <3> QED BY <3>1 DEF Vacating, At, InClassAt
  <2> QED BY <1>1, <2>1 DEF InClassAt, rows
<1>9. Sweeping(r)'
  <2>1. ASSUME NEW u \in W
        PROVE  \E m \in member' : /\ m.user = u /\ m.school = req[r].school
                                  /\ req[r].op = "close" \/ m.year = req[r].year
    BY <1>1 DEF UsersOf, InClassAt, rows
  <2> QED BY <1>3, <1>5, <2>1 DEF Sweeping, Belongs
<1>10. Linking(r)' /\ Moving(r)' /\ Importing(r)'
  BY <1>1, <1>3, <1>5 DEF Linking, Moving, Importing, At
<1> QED BY <1>3, <1>5, <1>6, <1>7, <1>8, <1>9, <1>10 DEF Good, Own, Reports

LEMMA SweepDropStep ==
    ASSUME Inv, NEW r \in Requests, SweepDrop(r)
    PROVE  Good(r)
<1>1. /\ req[r].op \in {"cascade", "close"} /\ req[r].pc = "drop" /\ Keeping(r)
      /\ req[r] \in Local /\ Vacating(r) /\ TypeOK /\ DeleteUsers(req[r].who)
      /\ \A m \in member : Entered(m)
      /\ UNCHANGED <<classes, school, linked>>
  BY DEF SweepDrop, Inv, Sound, Keeping, TypeOK
<1> PICK pc : pc = IF req[r].op = "cascade" THEN "unlink" ELSE "close"
  OBVIOUS
<1> PICK local : local = [req[r] EXCEPT !.who = {}, !.pc = pc]
  OBVIOUS
<1>2. /\ local.pc = pc /\ local.op = req[r].op /\ local.school = req[r].school
      /\ local.year = req[r].year /\ local.user = req[r].user
      /\ local.made = req[r].made
  BY <1>1 DEF Local
<1>3. pc \in {"unlink", "close"} /\ pc \in Steps
  BY DEF Steps
<1>4. local \in Local
  BY <1>1, <1>3 DEF Local
<1>5. Forward(r) /\ req'[r] = local /\ now' = now
  <2>1. Become(r, local)
    BY DEF SweepDrop
  <2> QED BY <1>1, <1>2, <1>3, <1>4, <2>1, Going DEF Steps
<1>6. /\ user' \in [Users -> {"unborn", "live", "gone"}]
      /\ \A u \in Users : user'[u] = IF u \in req[r].who /\ user[u] = "live" THEN "gone"
                                     ELSE user[u]
      /\ profiled' = profiled \ req[r].who
      /\ member' = {m \in member : m.user \notin req[r].who}
  BY <1>1 DEF DeleteUsers, TypeOK
<1>7. Writes(r)
  <2>1. UsersLive(r)
    <3>1. ASSUME NEW u \in Users, u \notin req[r].who
          PROVE  Classes(u)' = Classes(u)
      BY <1>6, <3>1 DEF Classes
    <3>2. \A u \in Users : u \in profiled => user[u] = "live"
      BY <1>1 DEF TypeOK, Live
    <3> QED BY <1>1, <1>6, <3>1, <3>2 DEF UsersLive
  <2>2. LinksLast(r)
    BY <1>1, SameLinks
  <2>3. ASSUME NEW n \in member, n.user \in req[r].who
        PROVE  Lost(n, r)
    BY <1>1, <1>6, <2>3 DEF Lost, Entered, TypeOK, Member
  <2>4. MembersLast(r)
    BY <1>6, <2>3 DEF MembersLast, Stays
  <2> QED BY <2>1, <2>2, <2>4 DEF Writes
<1>8. TypeOK'
  <2>1. profiled' \subseteq Live'
    BY <1>1, <1>6 DEF TypeOK, Live
  <2> QED BY <1>1, <1>5, <1>6, <2>1 DEF TypeOK, Forward, LiveSchools
<1>9. Keeping(r)'
  BY <1>1, <1>2, <1>3, <1>5, NullIsNothing DEF Keeping, Ops, Steps
<1>10. Vacating(r)'
  <2> SUFFICES ASSUME pc = "unlink", NEW m \in member',
                      m.year = req[r].year, m.school = req[r].school
               PROVE  Unminded(m, r)'
    BY <1>2, <1>3, <1>5 DEF Vacating, InClassAt, At
  <2>1. m \in InClassAt(req[r].year, req[r].school) /\ m.user \notin req[r].who
    BY <1>6 DEF InClassAt
  <2>2. Unminded(m, r)
    BY <1>1, <2>1 DEF Vacating, At
  <2> QED BY <2>1, <2>2, <1>5, UnmindedStays DEF InClassAt
<1>11. Linking(r)' /\ Sweeping(r)' /\ Moving(r)' /\ Importing(r)'
  BY <1>1, <1>2, <1>3, <1>5 DEF Linking, Sweeping, Moving, Importing, At
<1> QED BY <1>2, <1>5, <1>7, <1>8, <1>9, <1>10, <1>11 DEF Good, Own, Reports

LEMMA UnlinkStep ==
    ASSUME Inv, NEW r \in Requests, Unlink(r)
    PROVE  Good(r)
<1>1. /\ req[r].op \in {"unlink", "cascade"} /\ req[r].pc = "unlink" /\ Keeping(r)
      /\ req[r] \in Local /\ TypeOK
      /\ linked' = linked \ {<<req[r].year, req[r].school>>}
      /\ UNCHANGED <<classes, school, user, profiled, member>>
  BY DEF Unlink, Inv, Sound, Keeping, TypeOK
<1> PICK local : local = [req[r] EXCEPT !.pc = "ok"]
  OBVIOUS
<1>2. /\ local.pc = "ok" /\ local.op = req[r].op /\ local.school = req[r].school
      /\ local.year = req[r].year /\ local.user = req[r].user /\ local.made = req[r].made
  BY <1>1 DEF Local
<1>3. local \in Local
  BY <1>1 DEF Local, Final
<1>4. Forward(r) /\ req'[r] = local /\ now' = now
  <2>1. Become(r, local)
    BY DEF Unlink, Goto
  <2> QED BY <1>1, <1>2, <1>3, <2>1, Going DEF Steps
<1>5. Writes(r)
  <2>1. LinksLast(r)
    BY <1>1 DEF LinksLast, TypeOK
  <2> QED BY <1>1, <2>1, SameMembers DEF Writes
<1>6. TypeOK'
  BY <1>1, <1>4 DEF TypeOK, Forward, LiveSchools, Live
<1>7. Own(r)'
  BY <1>1, <1>2, <1>4, <1>5, Ending DEF Final
<1> QED BY <1>2, <1>4, <1>5, <1>6, <1>7 DEF Good, Reports

LEMMA CloseLookupStep ==
    ASSUME Inv, NEW r \in Requests, CloseLookup(r)
    PROVE  Good(r)
<1>1. PICK s \in Schools :
         LET local == [NoLocal EXCEPT !.op = "close", !.school = s]
         IN  /\ IF s \in LiveSchools
                THEN Begin(r, [local EXCEPT !.pc = "sweep"])
                ELSE Refuse(r, local.op)
             /\ UNCHANGED rows
  BY DEF CloseLookup
<1> PICK look : look = [NoLocal EXCEPT !.op = "close", !.school = s]
  OBVIOUS
<1> PICK local : local = [look EXCEPT !.pc = "sweep"]
  OBVIOUS
<1>2. /\ local.op = "close" /\ local.pc = "sweep" /\ local.school = s
      /\ local.made = {} /\ look.op = "close"
  BY DEF NoLocal
<1>3. local \in Local
  BY LocalFields DEF Local, Ops, Steps
<1>4. CASE Begin(r, local)
  BY <1>1, <1>2, <1>3, <1>4, Looking DEF Steps, Ops
<1>5. CASE Refuse(r, "close")
  BY <1>1, <1>5, Refusing DEF Refuse, Ops, Final
<1> QED BY <1>1, <1>2, <1>4, <1>5

(* A membership that is given another school is still that membership.     *)
LEMMA Resettled ==
    ASSUME NEW m \in Member, NEW s \in Schools \cup {Null}
    PROVE  \E n \in Member : /\ n = [m EXCEPT !.school = s]
                             /\ n.user = m.user /\ n.year = m.year /\ n.by = m.by
                             /\ n.school = s /\ Row(n) = Row(m)
<1> PICK n : n = [m EXCEPT !.school = s]
  OBVIOUS
<1>1. n \in Member
  BY DEF Member
<1>2. n.user = m.user /\ n.year = m.year /\ n.by = m.by /\ n.school = s
  BY DEF Member
<1> QED BY <1>1, <1>2 DEF Row

LEMMA CloseStep ==
    ASSUME Inv, NEW r \in Requests, Close(r)
    PROVE  Good(r)
<1>1. /\ req[r].op = "close" /\ req[r].pc = "close" /\ Keeping(r)
      /\ req[r] \in Local /\ TypeOK
      /\ UNCHANGED <<classes, user, profiled>>
  BY DEF Close, At, Inv, Sound, TypeOK
<1> PICK s \in Schools : s = req[r].school
  BY <1>1 DEF Keeping, Steps
<1>2. /\ school' = [school EXCEPT ![s] = "gone"]
      /\ linked' = {p \in linked : p[2] # s}
      /\ member' = {IF m.school = s THEN [m EXCEPT !.school = Null] ELSE m : m \in member}
  BY DEF Close
<1> PICK local : local = [req[r] EXCEPT !.pc = "ok"]
  OBVIOUS
<1>3. /\ local.pc = "ok" /\ local.op = "close" /\ local.school = s
      /\ local.year = req[r].year /\ local.user = req[r].user /\ local.made = req[r].made
  BY <1>1 DEF Local
<1>4. local \in Local
  BY <1>1 DEF Local, Final
<1>5. Forward(r) /\ req'[r] = local /\ now' = now
  <2>1. Become(r, local)
    BY DEF Close, Goto
  <2> QED BY <1>1, <1>3, <1>4, <2>1, Going DEF Steps
<1>6. s # Null
  BY RosterAssumption DEF RosterAssumption
<1> DEFINE After(n, m) == /\ m \in Member /\ m.user = n.user /\ m.year = n.year
                          /\ Row(m) = Row(n) /\ m.school # s
                          /\ (n.school = s /\ m.school = Null) \/ m = n
<1>7. ASSUME NEW n \in member
      PROVE  \E m \in member' : After(n, m)
  <2>1. CASE n.school = s
    <3>1. n \in Member /\ Null \in Schools \cup {Null}
      BY <1>1 DEF TypeOK
    <3>2. PICK m \in Member : /\ m = [n EXCEPT !.school = Null]
                              /\ m.user = n.user /\ m.year = n.year
                              /\ m.school = Null /\ Row(m) = Row(n)
      BY <3>1, Resettled
    <3>3. m \in member'
      BY <1>2, <2>1, <3>2
    <3> QED BY <1>6, <2>1, <3>2, <3>3
  <2>2. CASE n.school # s
    BY <1>1, <1>2, <2>2 DEF TypeOK
  <2> QED BY <2>1, <2>2
<1>8. ASSUME NEW m \in member'
      PROVE  \E n \in member : After(n, m)
  <2>1. PICK n \in member : m = IF n.school = s THEN [n EXCEPT !.school = Null] ELSE n
    BY <1>2
  <2>2. n \in Member /\ Null \in Schools \cup {Null}
    BY <1>1 DEF TypeOK
  <2>3. CASE n.school = s
    <3>1. PICK k \in Member : /\ k = [n EXCEPT !.school = Null]
                              /\ k.user = n.user /\ k.year = n.year
                              /\ k.school = Null /\ Row(k) = Row(n)
      BY <2>2, Resettled
    <3>2. k = m
      BY <2>1, <2>3, <3>1
    <3> QED BY <1>6, <2>3, <3>1, <3>2
  <2>4. CASE n.school # s
    BY <2>1, <2>2, <2>4
  <2> QED BY <2>3, <2>4
<1> HIDE DEF After
<1>9. Writes(r)
  <2>1. UsersLive(r)
    <3>1. ASSUME NEW u \in Users, Classes(u) # {}
          PROVE  Classes(u)' # {}
      <4>1. PICK n \in member : n.user = u
        BY <3>1 DEF Classes
      <4>2. PICK m \in member' : m.user = u
        BY <4>1, <1>7 DEF After
      <4> QED BY <4>2 DEF Classes
    <3> QED BY <1>1, <3>1 DEF UsersLive, TypeOK
  <2>2. \A m \in member' : m.school # s
    BY <1>8 DEF After
  <2>3. LinksLast(r)
    BY <1>1, <1>2, <2>2 DEF LinksLast, TypeOK
  <2>4. \A m, n : After(n, m) => Stays(n, m, r)
    BY <1>1 DEF After, Stays
  <2>5. MembersLast(r)
    BY <1>7, <1>8, <2>4 DEF MembersLast
  <2> QED BY <2>1, <2>3, <2>5 DEF Writes
<1>10. TypeOK'
  <2>1. member' \subseteq Member
    BY <1>8 DEF After
  <2>2. ASSUME NEW m \in member', NEW n \in member', m.user = n.user, m.year = n.year
        PROVE  m = n
    <3>1. PICK k \in member : After(k, m)
      BY <1>8
    <3>2. PICK l \in member : After(l, n)
      BY <1>8
    <3>3. k = l
      BY <1>1, <2>2, <3>1, <3>2 DEF After, TypeOK
    <3>4. PICK j \in member : m = IF j.school = s THEN [j EXCEPT !.school = Null] ELSE j
      BY <1>2
    <3>5. PICK i \in member : n = IF i.school = s THEN [i EXCEPT !.school = Null] ELSE i
      BY <1>2
    <3>6. j.user = m.user /\ j.year = m.year /\ i.user = n.user /\ i.year = n.year
      BY <1>1, <3>4, <3>5 DEF TypeOK, Member
    <3>7. i = j
      BY <1>1, <2>2, <3>6 DEF TypeOK
    <3> QED BY <3>4, <3>5, <3>7
  <2>3. linked' \subseteq classes' \X LiveSchools'
    BY <1>1, <1>2 DEF TypeOK, LiveSchools
  <2>4. school' \in [Schools -> {"unborn", "live", "gone"}]
    BY <1>1, <1>2 DEF TypeOK
  <2> QED BY <1>1, <1>5, <2>1, <2>2, <2>3, <2>4 DEF TypeOK, Forward, Live
<1>11. Own(r)'
  BY <1>1, <1>3, <1>5, <1>9, Ending DEF Final
<1> QED BY <1>3, <1>5, <1>9, <1>10, <1>11 DEF Good, Reports

LEMMA ImportLookupStep ==
    ASSUME Inv, NEW r \in Requests, ImportLookup(r)
    PROVE  Good(r)
<1>1. PICK s \in Schools, y \in Years, n \in 1 .. MaxRows :
         /\ Begin(r, [NoLocal EXCEPT !.op = "create", !.pc = "row",
                                     !.school = s, !.year = y, !.left = n])
         /\ UNCHANGED rows
  BY DEF ImportLookup
<1> PICK local : local = [NoLocal EXCEPT !.op = "create", !.pc = "row",
                                         !.school = s, !.year = y, !.left = n]
  OBVIOUS
<1>2. n \in 0 .. MaxRows /\ n # 0
  BY RosterAssumption DEF RosterAssumption
<1>3. /\ local.op = "create" /\ local.pc = "row" /\ local.school = s /\ local.year = y
      /\ local.left = n /\ local.made = {} /\ local.user = Null
  BY DEF NoLocal
<1>4. local \in Local
  BY <1>2, LocalFields DEF Local, Ops, Steps
<1> QED BY <1>1, <1>2, <1>3, <1>4, Looking DEF Steps, Ops

(* A row is skipped.                                                       *)
LEMMA Skipping ==
    ASSUME Inv, NEW r \in Requests, req[r].op = "create", req[r].pc \in Steps,
           Skip(r), Writes(r)
    PROVE  Forward(r) /\ Own(r)' /\ Reports(r) /\ now' = now
<1>1. Keeping(r) /\ req[r] \in Local
  BY DEF Inv, Sound, TypeOK
<1> PICK pc : pc = IF req[r].left = 1 THEN "ok" ELSE "row"
  OBVIOUS
<1> PICK n : n = req[r].left - 1
  OBVIOUS
<1> PICK local : local = [req[r] EXCEPT !.left = n, !.user = Null, !.pc = pc]
  OBVIOUS
<1>2. /\ n \in 0 .. MaxRows /\ n # req[r].left /\ (pc = "row" => n # 0)
      /\ pc \in Steps \cup Final /\ pc \in {"ok", "row"}
  BY <1>1, RosterAssumption DEF Local, Keeping, Steps, Final, RosterAssumption
<1>3. /\ local.op = "create" /\ local.pc = pc /\ local.school = req[r].school
      /\ local.year = req[r].year /\ local.user = Null /\ local.left = n
      /\ local.made = req[r].made
  BY <1>1 DEF Local
<1>4. local \in Local
  BY <1>1, <1>2 DEF Local
<1>5. Forward(r) /\ req'[r] = local /\ now' = now
  <2>1. Become(r, local)
    BY DEF Skip
  <2>2. local # req[r] /\ local.pc # "idle"
    BY <1>2, <1>3
  <2> QED BY <1>3, <1>4, <2>1, <2>2, Going
<1>6. Keeping(r)'
  BY <1>1, <1>2, <1>3, <1>5, NullIsNothing DEF Keeping, Ops, Steps, Final
<1>7. Linking(r)'
  BY <1>3, <1>5 DEF Linking, At
<1>8. Vacating(r)' /\ Sweeping(r)' /\ Moving(r)' /\ Importing(r)'
  BY <1>2, <1>3, <1>5, Calm
<1> QED BY <1>3, <1>5, <1>6, <1>7, <1>8 DEF Own, Reports

LEMMA Skips ==
    ASSUME Inv, NEW r \in Requests, req[r].op = "create", req[r].pc \in Steps,
           Skip(r), UNCHANGED rows
    PROVE  Good(r)
<1>1. Writes(r)
  BY Quiet
<1>2. Forward(r) /\ Own(r)' /\ Reports(r) /\ now' = now
  BY <1>1, Skipping
<1> QED BY <1>1, <1>2, Quiet DEF Good

LEMMA ImportUserStep ==
    ASSUME Inv, NEW r \in Requests, ImportUser(r)
    PROVE  Good(r)
<1>1. /\ req[r].op = "create" /\ req[r].pc = "row" /\ Keeping(r) /\ TypeOK
      /\ req[r] \in Local /\ UNCHANGED <<classes, school, linked, profiled, member>>
      /\ \A q \in Requests : Importing(q)
      /\ \A m \in member : Entered(m)
  BY DEF ImportUser, At, Inv, Sound, TypeOK
<1>2. PICK u \in Users : /\ user[u] = "unborn"
                         /\ user' = [user EXCEPT ![u] = "live"]
                         /\ Become(r, [req[r] EXCEPT !.pc = "profile", !.user = u])
  BY DEF ImportUser
<1> PICK local : local = [req[r] EXCEPT !.pc = "profile", !.user = u]
  OBVIOUS
<1>3. /\ local.op = "create" /\ local.pc = "profile" /\ local.school = req[r].school
      /\ local.year = req[r].year /\ local.user = u /\ local.left = req[r].left
      /\ local.made = req[r].made
  BY <1>1 DEF Local
<1>4. local \in Local
  BY <1>1 DEF Local, Steps
<1>5. Forward(r) /\ req'[r] = local /\ now' = now
  BY <1>1, <1>2, <1>3, <1>4, Going DEF Steps
<1>6. /\ user' \in [Users -> {"unborn", "live", "gone"}] /\ user'[u] = "live"
      /\ \A v \in Users : v # u => user'[v] = user[v]
  BY <1>1, <1>2 DEF TypeOK
<1>7. Writes(r)
  <2>1. UsersLive(r)
    <3>1. \A v \in Users : Classes(v)' = Classes(v)
      BY <1>1 DEF Classes
    <3> QED BY <1>1, <1>2, <1>6, <3>1 DEF UsersLive
  <2>2. MembersLast(r)
    BY <1>1 DEF MembersLast, Stays
  <2> QED BY <1>1, <2>1, <2>2, SameLinks DEF Writes
<1>8. TypeOK'
  <2>1. Live \subseteq Live'
    BY <1>2, <1>6 DEF Live
  <2> QED BY <1>1, <1>5, <1>6, <2>1 DEF TypeOK, Forward, LiveSchools
<1>9. Keeping(r)'
  BY <1>1, <1>3, <1>5, NullIsNothing DEF Keeping, Ops, Steps
<1>10. Importing(r)'
  <2>1. u # Null
    BY RosterAssumption DEF RosterAssumption
  <2>2. ASSUME NEW q \in Requests, q # r, req'[q].op = "create", req'[q].user = u
        PROVE  FALSE
    BY <1>1, <1>2, <1>5, <2>1, <2>2 DEF Forward, Importing
  <2>3. \A m \in member' : m.user # u
    BY <1>1, <1>2 DEF Entered
  <2> QED BY <1>3, <1>5, <1>6, <2>2, <2>3 DEF Importing
<1>11. Linking(r)' /\ Vacating(r)' /\ Sweeping(r)' /\ Moving(r)'
  BY <1>3, <1>5 DEF Linking, Vacating, Sweeping, Moving, At
<1> QED BY <1>3, <1>5, <1>7, <1>8, <1>9, <1>10, <1>11 DEF Good, Own, Reports

LEMMA ImportProfileStep ==
    ASSUME Inv, NEW r \in Requests, ImportProfile(r)
    PROVE  Good(r)
<1>1. /\ req[r].op = "create" /\ req[r].pc = "profile" /\ Keeping(r) /\ TypeOK
      /\ req[r] \in Local /\ Importing(r) /\ member \subseteq Member
      /\ UNCHANGED <<classes, school, linked, user, member>>
  BY DEF ImportProfile, At, Inv, Sound, TypeOK
<1>2. CASE Skip(r) /\ UNCHANGED profiled
  BY <1>1, <1>2, Skips DEF rows, Steps
<1>3. CASE /\ req[r].user \in Live /\ profiled' = profiled \cup {req[r].user}
           /\ Goto(r, "place")
  <2> PICK u \in Users : u = req[r].user
    BY <1>1 DEF Keeping
  <2> PICK local : local = [req[r] EXCEPT !.pc = "place"]
    OBVIOUS
  <2>1. /\ local.op = "create" /\ local.pc = "place" /\ local.school = req[r].school
        /\ local.year = req[r].year /\ local.user = u /\ local.left = req[r].left
        /\ local.made = req[r].made
    BY <1>1 DEF Local
  <2>2. local \in Local
    BY <1>1 DEF Local, Steps
  <2>3. Forward(r) /\ req'[r] = local /\ now' = now
    BY <1>1, <1>3, <2>1, <2>2, Going DEF Goto, Steps
  <2>4. Writes(r)
    <3>1. UsersLive(r)
      <4>1. \A v \in Users : Classes(v)' = Classes(v)
        BY <1>1 DEF Classes
      <4> QED BY <1>1, <1>3, <4>1 DEF UsersLive, TypeOK
    <3>2. MembersLast(r)
      BY <1>1 DEF MembersLast, Stays
    <3> QED BY <1>1, <3>1, <3>2, SameLinks DEF Writes
  <2>5. TypeOK'
    BY <1>1, <1>3, <2>3 DEF TypeOK, Forward, LiveSchools, Live
  <2>6. Keeping(r)'
    BY <1>1, <2>1, <2>3, NullIsNothing DEF Keeping, Ops, Steps
  <2>7. Importing(r)'
    <3>1. u # Null /\ user'[u] # "unborn" /\ u \in profiled'
      BY <1>1, <1>3, RosterAssumption DEF Importing, RosterAssumption
    <3>2. \A q \in Requests : req'[q].op = "create" /\ req'[q].user = u => q = r
      BY <1>1, <2>3, <3>1 DEF Forward, Importing
    <3>3. ASSUME NEW m \in member', m.user = u
          PROVE  m.by # Null /\ req'[m.by].op = "move" /\ Overlap(m.by, r)'
      <4>1. m.by \in Requests /\ m.by # Null /\ req[m.by].op = "move" /\ Overlap(m.by, r)
        BY <1>1, <3>1, <3>3 DEF Importing, Member
      <4> QED BY <2>3, <4>1, Staying DEF Overlap
    <3> QED BY <2>1, <2>3, <3>1, <3>2, <3>3 DEF Importing
  <2>8. Linking(r)' /\ Vacating(r)' /\ Sweeping(r)' /\ Moving(r)'
    BY <2>1, <2>3 DEF Linking, Vacating, Sweeping, Moving, At
  <2> QED BY <2>1, <2>3, <2>4, <2>5, <2>6, <2>7, <2>8 DEF Good, Own, Reports
<1> QED BY <1>2, <1>3 DEF ImportProfile

LEMMA ImportPlaceStep ==
    ASSUME Inv, NEW r \in Requests, ImportPlace(r)
    PROVE  Good(r)
<1>1. /\ req[r].op = "create" /\ req[r].pc = "place" /\ Keeping(r) /\ TypeOK
      /\ req[r] \in Local /\ Importing(r)
      /\ UNCHANGED <<classes, school, linked, user, profiled>>
  BY DEF ImportPlace, At, Inv, Sound, TypeOK
<1>2. CASE Skip(r) /\ UNCHANGED member
  BY <1>1, <1>2, Skips DEF rows, Steps
<1> PICK new : new = [user |-> req[r].user, year |-> req[r].year,
                      school |-> req[r].school, by |-> r]
  OBVIOUS
<1> PICK pc : pc = IF req[r].left = 1 THEN "ok" ELSE "row"
  OBVIOUS
<1> PICK left : left = req[r].left - 1
  OBVIOUS
<1>3. CASE /\ req[r].user \in Live /\ req[r].year \in classes
           /\ req[r].school \in LiveSchools
           /\ member' = IF req[r].year \in Classes(req[r].user) THEN member
                        ELSE member \cup {new}
           /\ Become(r, [req[r] EXCEPT !.made = @ \cup {req[r].user}, !.user = Null,
                                       !.left = left, !.pc = pc])
  <2> PICK u \in Users : u = req[r].user
    BY <1>1 DEF Keeping
  <2> PICK local : local = [req[r] EXCEPT !.made = @ \cup {u}, !.user = Null,
                                          !.left = left, !.pc = pc]
    OBVIOUS
  <2>1. /\ left \in 0 .. MaxRows /\ left # req[r].left /\ (pc = "row" => left # 0)
        /\ pc \in Steps \cup Final /\ pc \in {"ok", "row"}
    BY <1>1, RosterAssumption DEF Local, Keeping, Steps, Final, RosterAssumption
  <2>2. /\ local.op = "create" /\ local.pc = pc /\ local.school = req[r].school
        /\ local.year = req[r].year /\ local.user = Null /\ local.left = left
        /\ local.made = req[r].made \cup {u}
    BY <1>1 DEF Local
  <2>3. local \in Local
    BY <1>1, <2>1 DEF Local
  <2>4. Forward(r) /\ req'[r] = local /\ now' = now
    <3>1. Become(r, local)
      BY <1>3
    <3>2. local # req[r] /\ local.pc # "idle"
      BY <2>1, <2>2
    <3> QED BY <1>1, <2>2, <2>3, <3>1, <3>2, Going DEF Steps
  <2>5. /\ u # Null /\ user[u] = "live" /\ u \in profiled
        /\ \A m \in member : m.user = u =>
              m.by # Null /\ req[m.by].op = "move" /\ Overlap(m.by, r)
    BY <1>1, <1>3, RosterAssumption DEF Importing, RosterAssumption, Live
  <2>6. /\ new.user = u /\ new.year = req[r].year /\ new.school = req[r].school
        /\ new.by = r
    OBVIOUS
  <2>7. new \in Member
    BY <1>1, <1>3 DEF Member, TypeOK, LiveSchools
  <2>8. member' = member \/ (member' = member \cup {new} /\ req[r].year \notin Classes(u))
    BY <1>3
  <2>9. MembersLast(r)
    <3>1. Placed(new, r)
      BY <1>1, <2>5, <2>6, <2>8 DEF Placed
    <3> QED BY <2>8, <3>1 DEF MembersLast, Stays
  <2>10. UsersLive(r)
    <3>1. \A v \in Users : Classes(v) \subseteq Classes(v)'
      BY <2>8 DEF Classes
    <3> QED BY <1>1, <3>1 DEF UsersLive, TypeOK
  <2>11. Writes(r)
    BY <1>1, <2>9, <2>10, SameLinks DEF Writes
  <2>12. Classes(u)' # {}
    <3>1. CASE member' = member
      <4>1. req[r].year \in Classes(u)
        BY <1>3, <2>6, <3>1 DEF Classes
      <4> QED BY <3>1, <4>1 DEF Classes
    <3>2. CASE new \in member'
      BY <2>6, <3>2 DEF Classes
    <3> QED BY <2>8, <3>1, <3>2
  <2>13. TypeOK'
    <3>1. member' \subseteq Member
      BY <1>1, <2>7, <2>8 DEF TypeOK
    <3>2. \A m, n \in member' : m.user = n.user /\ m.year = n.year => m = n
      <4>1. req[r].year \notin Classes(u) =>
                \A m \in member : ~ (m.user = new.user /\ m.year = new.year)
        BY <2>6 DEF Classes
      <4> QED BY <1>1, <2>8, <4>1 DEF TypeOK
    <3> QED BY <1>1, <2>4, <3>1, <3>2 DEF TypeOK, Forward, LiveSchools, Live
  <2>14. Keeping(r)'
    BY <1>1, <2>1, <2>2, <2>4, NullIsNothing DEF Keeping, Ops, Steps, Final
  <2>15. Linking(r)'
    BY <2>2, <2>4 DEF Linking, At
  <2>16. Vacating(r)' /\ Sweeping(r)' /\ Moving(r)' /\ Importing(r)'
    BY <2>1, <2>2, <2>4, Calm
  <2>17. Reports(r)
    BY <1>1, <2>2, <2>4, <2>5, <2>12 DEF Reports
  <2> QED BY <2>4, <2>11, <2>13, <2>14, <2>15, <2>16, <2>17 DEF Good, Own
<1> QED BY <1>2, <1>3 DEF ImportPlace

LEMMA FailStep ==
    ASSUME Inv, NEW r \in Requests, Fail(r)
    PROVE  Good(r)
<1>1. req[r].pc \in Steps /\ req[r] \in Local /\ Linking(r) /\ Keeping(r) /\ UNCHANGED rows
  BY DEF Fail, Inv, Sound, TypeOK
<1>2. CASE req[r].op = "create"
  BY <1>1, <1>2, Skips DEF Fail
<1>3. CASE req[r].op # "create"
  <2> PICK local : local = [req[r] EXCEPT !.pc = "failed", !.seen = {}, !.who = {}]
    OBVIOUS
  <2>1. /\ local.op = req[r].op /\ local.pc = "failed" /\ local.school = req[r].school
        /\ local.year = req[r].year /\ local.user = req[r].user
        /\ local.years = req[r].years /\ local.made = req[r].made
    BY <1>1 DEF Local
  <2>2. local \in Local
    BY <1>1 DEF Local, Final
  <2>3. Forward(r) /\ req'[r] = local /\ now' = now
    <3>1. Become(r, local)
      BY <1>3 DEF Fail
    <3> QED BY <1>1, <1>3, <2>1, <2>2, <3>1, Going DEF Steps
  <2>4. Writes(r) /\ TypeOK'
    BY <1>1, <2>3, Quiet
  <2>5. Own(r)'
    BY <1>1, <1>3, <2>1, <2>3, <2>4, Ending DEF Linking, Final
  <2> QED BY <2>1, <2>3, <2>4, <2>5 DEF Good, Reports
<1> QED BY <1>2, <1>3

LEMMA MoveLookupStep ==
    ASSUME Inv, NEW r \in Requests, MoveLookup(r)
    PROVE  Good(r)
<1>1. PICK u \in Users, y \in Years :
         LET local == [NoLocal EXCEPT !.op = "move", !.user = u, !.year = y]
         IN  \/ Begin(r, [local EXCEPT !.pc = "erase"])
             \/ Refuse(r, "move")
  BY DEF MoveLookup
<1> PICK local : local = [[NoLocal EXCEPT !.op = "move", !.user = u, !.year = y]
                             EXCEPT !.pc = "erase"]
  OBVIOUS
<1>2. UNCHANGED rows
  BY DEF MoveLookup
<1>3. /\ local.op = "move" /\ local.pc = "erase" /\ local.year = y
      /\ local.user = u /\ local.made = {}
  BY DEF NoLocal
<1>4. local \in Local
  BY LocalFields DEF Local, Ops, Steps
<1>5. CASE Begin(r, local)
  BY <1>2, <1>3, <1>4, <1>5, Looking DEF Steps, Ops
<1>6. CASE Refuse(r, "move")
  BY <1>2, <1>6, Refusing DEF Refuse, Ops, Final
<1> QED BY <1>1, <1>5, <1>6

LEMMA MoveEraseStep ==
    ASSUME Inv, NEW r \in Requests, MoveErase(r)
    PROVE  Good(r)
<1>1. /\ req[r].op = "move" /\ req[r].pc = "erase" /\ Keeping(r) /\ req[r] \in Local
      /\ UNCHANGED rows
  BY DEF MoveErase, At, Inv, Sound, TypeOK
<1> PICK S : S = RowsOf({m \in member : m.user = req[r].user})
  OBVIOUS
<1> PICK local : local = [req[r] EXCEPT !.pc = "leave", !.seen = S]
  OBVIOUS
<1>2. S \in SUBSET Rows
  BY RowsTyped
<1>3. /\ local.pc = "leave" /\ local.op = "move" /\ local.school = req[r].school
      /\ local.year = req[r].year /\ local.seen = S /\ local.user = req[r].user
      /\ local.made = req[r].made
  BY <1>1 DEF Local
<1>4. local \in Local
  BY <1>1, <1>2 DEF Local, Steps
<1>5. Forward(r) /\ req'[r] = local /\ now' = now
  <2>1. Become(r, local)
    BY <1>1 DEF MoveErase
  <2> QED BY <1>1, <1>3, <1>4, <2>1, Going DEF Steps
<1>6. Writes(r) /\ TypeOK'
  BY <1>1, <1>5, Quiet
<1>7. Keeping(r)'
  BY <1>1, <1>3, <1>5, NullIsNothing DEF Keeping, Ops, Steps
<1>8. Moving(r)'
  <2>1. \A t \in S : t[1] = req[r].user
    BY DEF RowsOf, Row
  <2>2. \A m \in member' : m.user = req[r].user => Row(m) \in S
    BY <1>1 DEF RowsOf, rows
  <2> QED BY <1>3, <1>5, <2>1, <2>2 DEF Moving, Row
<1>9. Linking(r)' /\ Vacating(r)' /\ Sweeping(r)' /\ Importing(r)'
  BY <1>3, <1>5 DEF Linking, Vacating, Sweeping, Importing, At
<1> QED BY <1>3, <1>5, <1>6, <1>7, <1>8, <1>9 DEF Good, Own, Reports

LEMMA MoveErasedStep ==
    ASSUME Inv, NEW r \in Requests, MoveErased(r)
    PROVE  Good(r)
<1>1. /\ req[r].op = "move" /\ req[r].pc = "leave" /\ Keeping(r) /\ req[r] \in Local
      /\ Moving(r) /\ At(r, "move", "leave") /\ member \subseteq Member /\ UNCHANGED rows
  BY DEF MoveErased, At, Inv, Sound, TypeOK
<1> PICK S : S = req[r].seen \cap RowsOf(member)
  OBVIOUS
<1> PICK local : local = [req[r] EXCEPT !.pc = "erased", !.seen = S]
  OBVIOUS
<1>2. /\ local.pc = "erased" /\ local.op = "move" /\ local.school = req[r].school
      /\ local.year = req[r].year /\ local.seen = S /\ local.user = req[r].user
      /\ local.made = req[r].made
  BY <1>1 DEF Local
<1>3. local \in Local
  BY <1>1 DEF Local, Steps
<1>4. Forward(r) /\ req'[r] = local /\ now' = now
  <2>1. Become(r, local)
    BY <1>1 DEF MoveErased
  <2> QED BY <1>1, <1>2, <1>3, <2>1, Going DEF Steps
<1>5. Writes(r) /\ TypeOK'
  BY <1>1, <1>4, Quiet
<1>6. Keeping(r)'
  BY <1>1, <1>2, <1>4, NullIsNothing DEF Keeping, Ops, Steps
<1>7. Moving(r)'
  <2>1. \A t \in S : t[1] = req[r].user
    BY <1>1 DEF Moving
  <2>2. ASSUME NEW m \in member', m.user = req[r].user
        PROVE  Row(m) \in S \/ (m.by # Null /\ Overlap(m.by, r)')
    <3>1. m \in member /\ Row(m) \in RowsOf(member) /\ m.by \in Requests \cup {Null}
      BY <1>1 DEF RowsOf, rows, Member
    <3>2. Row(m) \in req[r].seen \/ (m.by # Null /\ Overlap(m.by, r))
      BY <1>1, <2>2, <3>1 DEF Moving
    <3> QED BY <1>4, <3>1, <3>2, Staying
  <2> QED BY <1>2, <1>4, <2>1, <2>2 DEF Moving, Row
<1>8. Linking(r)' /\ Vacating(r)' /\ Sweeping(r)' /\ Importing(r)'
  BY <1>2, <1>4 DEF Linking, Vacating, Sweeping, Importing, At
<1> QED BY <1>2, <1>4, <1>5, <1>6, <1>7, <1>8 DEF Good, Own, Reports

LEMMA MoveInsertStep ==
    ASSUME Inv, NEW r \in Requests, MoveInsert(r)
    PROVE  Good(r)
<1>1. /\ req[r].op = "move" /\ req[r].pc = "erased" /\ Keeping(r) /\ req[r] \in Local
      /\ Moving(r) /\ At(r, "move", "erased") /\ TypeOK
      /\ UNCHANGED <<classes, school, linked, user, profiled>>
  BY DEF MoveInsert, At, Inv, Sound, TypeOK
<1> PICK rest : rest = {m \in member : Row(m) \notin req[r].seen}
  OBVIOUS
<1>2. ASSUME NEW pc \in Final, Become(r, [req[r] EXCEPT !.pc = pc, !.seen = {}])
      PROVE  /\ Forward(r) /\ now' = now /\ Reports(r) /\ (Writes(r) => Own(r)')
  <2> PICK local : local = [req[r] EXCEPT !.pc = pc, !.seen = {}]
    OBVIOUS
  <2>1. /\ local.pc = pc /\ local.op = "move" /\ local.school = req[r].school
        /\ local.year = req[r].year /\ local.user = req[r].user
        /\ local.made = req[r].made
    BY <1>1 DEF Local
  <2>2. local \in Local
    BY <1>1 DEF Local
  <2>3. local # req[r] /\ pc # "idle"
    BY <1>1, <2>1 DEF Final
  <2>4. Forward(r) /\ req'[r] = local /\ now' = now
    BY <1>1, <1>2, <2>1, <2>2, <2>3, Going DEF Steps
  <2>5. Writes(r) => Own(r)'
    BY <2>1, <2>4, Ending
  <2> QED BY <2>1, <2>4, <2>5 DEF Reports
<1>3. CASE Become(r, [req[r] EXCEPT !.pc = "failed", !.seen = {}]) /\ UNCHANGED member
  <2>1. UNCHANGED rows
    BY <1>1, <1>3 DEF rows
  <2>2. Forward(r) /\ now' = now /\ Reports(r) /\ (Writes(r) => Own(r)')
    BY <1>2, <1>3 DEF Final
  <2> QED BY <2>1, <2>2, Quiet DEF Good
<1>4. CASE /\ req[r].user \in Live
           /\ \A m \in rest : m.user = req[r].user => m.year # req[r].year
           /\ \E s \in SchoolsFor(req[r].year) :
                 member' = rest \cup {[user |-> req[r].user, year |-> req[r].year,
                                       school |-> s, by |-> r]}
           /\ Become(r, [req[r] EXCEPT !.pc = "ok", !.seen = {}])
  <2>1. PICK s \in SchoolsFor(req[r].year) :
           member' = rest \cup {[user |-> req[r].user, year |-> req[r].year,
                                 school |-> s, by |-> r]}
    BY <1>4
  <2> PICK new : new = [user |-> req[r].user, year |-> req[r].year,
                        school |-> s, by |-> r]
    OBVIOUS
  <2>2. /\ new.user = req[r].user /\ new.year = req[r].year /\ new.school = s
        /\ new.by = r /\ member' = rest \cup {new} /\ rest \subseteq member
    BY <2>1
  <2>3. req[r].user \in Users /\ user[req[r].user] = "live" /\ req[r].year \in Years
    BY <1>1, <1>4 DEF Live, Keeping, Steps
  <2>4. /\ s \in Schools \cup {Null}
        /\ s # Null => <<req[r].year, s>> \in linked
    BY DEF SchoolsFor
  <2>5. new \in Member
    BY <2>3, <2>4 DEF Member
  <2>6. Placed(new, r)
    <3>1. ASSUME NEW n \in member', n.user = req[r].user, n # new
          PROVE  n.by # Null /\ Overlap(n.by, r)
      BY <1>1, <2>2, <3>1 DEF Moving
    <3> QED BY <1>1, <2>2, <2>3, <2>4, <3>1 DEF Placed
  <2>7. MembersLast(r)
    <3>1. ASSUME NEW n \in member, n \notin rest
          PROVE  Lost(n, r)
      <4>1. Row(n) \in req[r].seen
        BY <3>1
      <4>2. n.user = req[r].user
        BY <1>1, <4>1 DEF Moving, Row
      <4> QED BY <1>1, <4>2 DEF Lost
    <3> QED BY <2>2, <2>6, <3>1 DEF MembersLast, Stays
  <2>8. UsersLive(r)
    <3>1. ASSUME NEW v \in Users, Classes(v) # {}
          PROVE  Classes(v)' # {}
      <4>1. CASE v = req[r].user
        BY <2>2, <4>1 DEF Classes
      <4>2. CASE v # req[r].user
        <5>1. PICK n \in member : n.user = v
          BY <3>1 DEF Classes
        <5>2. Row(n) \notin req[r].seen
          BY <1>1, <4>2, <5>1 DEF Moving, Row
        <5> QED BY <2>2, <5>1, <5>2 DEF Classes
      <4> QED BY <4>1, <4>2
    <3> QED BY <1>1, <3>1 DEF UsersLive, TypeOK
  <2>9. Writes(r)
    BY <1>1, <2>7, <2>8, SameLinks DEF Writes
  <2>10. Forward(r) /\ now' = now /\ Reports(r) /\ Own(r)'
    BY <1>2, <1>4, <2>9 DEF Final
  <2>11. TypeOK'
    <3>1. member' \subseteq Member
      BY <1>1, <2>2, <2>5 DEF TypeOK
    <3>2. \A m, n \in member' : m.user = n.user /\ m.year = n.year => m = n
      BY <1>1, <1>4, <2>2 DEF TypeOK
    <3> QED BY <1>1, <2>10, <3>1, <3>2 DEF TypeOK, Forward, LiveSchools, Live
  <2> QED BY <2>9, <2>10, <2>11 DEF Good
<1> QED BY <1>3, <1>4 DEF MoveInsert

LEMMA SeedYearsStep ==
    ASSUME Inv, NEW r \in Requests, SeedYears(r)
    PROVE  Good(r)
<1>1. /\ Begin(r, Reply("boot", "backfill")) /\ classes' = classes \cup (1 .. now)
      /\ UNCHANGED <<school, linked, user, profiled, member>> /\ TypeOK
  BY DEF SeedYears, Reply, Inv
<1>2. "boot" \in Ops /\ "backfill" \in Steps
  BY DEF Ops, Steps
<1> PICK local \in Local : /\ local = Reply("boot", "backfill")
                           /\ local.op = "boot" /\ local.pc = "backfill"
                           /\ local.user = Null /\ local.made = {}
  BY <1>2, Answered
<1>3. Forward(r) /\ req'[r] = local /\ now' = now
  BY <1>1, <1>2, Starting
<1>4. Writes(r)
  <2>1. LinksLast(r)
    BY <1>1 DEF LinksLast, TypeOK
  <2> QED BY <1>1, <2>1, SameMembers DEF Writes
<1>5. TypeOK'
  <2>1. 1 .. now \subseteq Years
    BY <1>1, RosterAssumption DEF TypeOK, Years, RosterAssumption
  <2> QED BY <1>1, <1>3, <2>1 DEF TypeOK, Forward, LiveSchools, Live
<1>6. Keeping(r)'
  BY <1>2, <1>3, NullIsNothing DEF Keeping, Steps
<1>7. Linking(r)' /\ Vacating(r)' /\ Sweeping(r)' /\ Moving(r)' /\ Importing(r)'
  BY <1>3 DEF Linking, Vacating, Sweeping, Moving, Importing, At
<1> QED BY <1>3, <1>4, <1>5, <1>6, <1>7 DEF Good, Own, Reports

LEMMA BackfillStep ==
    ASSUME Inv, NEW r \in Requests, Backfill(r)
    PROVE  Good(r)
<1>1. /\ req[r].op = "boot" /\ req[r].pc = "backfill" /\ req[r] \in Local /\ TypeOK
      /\ UNCHANGED <<classes, school, linked, user, profiled>>
  BY DEF Backfill, At, Inv, TypeOK
<1> PICK bare : bare = {m \in member : m.school = Null /\ SchoolsFor(m.year) # {Null}}
  OBVIOUS
<1>2. PICK f \in [bare -> Schools] :
         /\ \A m \in bare : f[m] \in SchoolsFor(m.year)
         /\ member' = (member \ bare) \cup {[m EXCEPT !.school = f[m]] : m \in bare}
  BY DEF Backfill
<1> PICK local : local = [req[r] EXCEPT !.pc = "ok"]
  OBVIOUS
<1>3. /\ local.pc = "ok" /\ local.op = "boot" /\ local.school = req[r].school
      /\ local.year = req[r].year /\ local.user = req[r].user /\ local.made = req[r].made
  BY <1>1 DEF Local
<1>4. local \in Local
  BY <1>1 DEF Local, Final
<1>5. Forward(r) /\ req'[r] = local /\ now' = now
  <2>1. Become(r, local)
    BY DEF Backfill, Goto
  <2> QED BY <1>1, <1>3, <1>4, <2>1, Going DEF Steps
<1> DEFINE After(n, m) ==
        /\ n \in member /\ m \in Member /\ m.user = n.user /\ m.year = n.year
        /\ Row(m) = Row(n)
        /\ \/ m = n /\ n \notin bare
           \/ n.school = Null /\ <<m.year, m.school>> \in linked
              /\ n \in bare /\ m = [n EXCEPT !.school = f[n]]
<1>6. ASSUME NEW n \in bare
      PROVE  \E m \in Member : m = [n EXCEPT !.school = f[n]] /\ After(n, m)
  <2>1. n \in Member /\ f[n] \in Schools \cup {Null}
    BY <1>1, <1>2 DEF TypeOK
  <2>2. PICK m \in Member : /\ m = [n EXCEPT !.school = f[n]]
                            /\ m.user = n.user /\ m.year = n.year
                            /\ m.school = f[n] /\ Row(m) = Row(n)
    BY <2>1, Resettled
  <2>3. f[n] \in SchoolsFor(n.year) /\ SchoolsFor(n.year) # {Null} /\ n.school = Null
    BY <1>2
  <2>4. <<n.year, f[n]>> \in linked
    BY <2>3 DEF SchoolsFor
  <2> QED BY <2>2, <2>3, <2>4
<1>7. ASSUME NEW n \in member
      PROVE  \E m \in member' : After(n, m)
  <2>1. CASE n \in bare
    BY <1>2, <1>6, <2>1
  <2>2. CASE n \notin bare
    BY <1>1, <1>2, <2>2 DEF TypeOK
  <2> QED BY <2>1, <2>2
<1>8. ASSUME NEW m \in member'
      PROVE  \E n \in member : After(n, m)
  <2>1. CASE m \in member /\ m \notin bare
    BY <1>1, <2>1 DEF TypeOK
  <2>2. ASSUME NEW n \in bare, m = [n EXCEPT !.school = f[n]]
        PROVE  After(n, m) /\ n \in member
    <3>1. PICK k \in Member : k = [n EXCEPT !.school = f[n]] /\ After(n, k)
      BY <1>6
    <3>2. k = m
      BY <2>2, <3>1
    <3> QED BY <3>1, <3>2
  <2> HIDE DEF After
  <2> QED BY <1>2, <2>1, <2>2
<1> HIDE DEF After
<1>9. Writes(r)
  <2>1. UsersLive(r)
    <3>1. ASSUME NEW u \in Users, Classes(u) # {}
          PROVE  Classes(u)' # {}
      <4>1. PICK n \in member : n.user = u
        BY <3>1 DEF Classes
      <4>2. PICK m \in member' : m.user = u
        BY <4>1, <1>7 DEF After
      <4> QED BY <4>2 DEF Classes
    <3> QED BY <1>1, <3>1 DEF UsersLive, TypeOK
  <2>2. \A m, n : After(n, m) => Stays(n, m, r)
    BY <1>1 DEF After, Stays
  <2>3. MembersLast(r)
    BY <1>7, <1>8, <2>2 DEF MembersLast
  <2> QED BY <1>1, <2>1, <2>3, SameLinks DEF Writes
<1>10. TypeOK'
  <2>1. member' \subseteq Member
    BY <1>8 DEF After
  <2>2. ASSUME NEW m \in member', NEW n \in member', m.user = n.user, m.year = n.year
        PROVE  m = n
    <3>1. PICK k \in member : After(k, m)
      BY <1>8
    <3>2. PICK l \in member : After(l, n)
      BY <1>8
    <3>3. k = l
      BY <1>1, <2>2, <3>1, <3>2 DEF After, TypeOK
    <3> QED BY <3>1, <3>2, <3>3 DEF After
  <2> QED BY <1>1, <1>5, <2>1, <2>2 DEF TypeOK, Forward, LiveSchools, Live
<1>11. Own(r)'
  BY <1>3, <1>5, <1>9, Ending DEF Final
<1> QED BY <1>3, <1>5, <1>9, <1>10, <1>11 DEF Good, Reports

-----------------------------------------------------------------------------
(* Every step of a request is good.                                        *)
LEMMA Step ==
    ASSUME Inv, NEW r \in Requests,
           \/ CreateSchool(r) \/ ListSchoolClasses(r)
           \/ LinkClassToSchool(r) \/ BulkLinkClasses(r)
           \/ UnlinkClassFromSchool(r) \/ DeleteSchool(r)
           \/ ImportUsers(r) \/ MoveUserClass(r)
           \/ SeedYears(r) \/ Backfill(r) \/ Fail(r)
    PROVE  Good(r)
<1>1. CASE CreateSchool(r) \/ SeedYears(r) \/ Backfill(r) \/ Fail(r)
  BY <1>1, CreateSchoolStep, SeedYearsStep, BackfillStep, FailStep
<1>2. CASE ListSchoolClasses(r)
  BY <1>2, ListLookupStep, ListAnyStep, ListInsertStep DEF ListSchoolClasses
<1>3. CASE LinkClassToSchool(r)
  BY <1>3, LinkLookupStep, LinkInsertStep DEF LinkClassToSchool
<1>4. CASE BulkLinkClasses(r)
  BY <1>4, BulkLookupStep, BulkInsertStep DEF BulkLinkClasses
<1>5. CASE UnlinkClassFromSchool(r)
  BY <1>5, UnlinkLookupStep, UnlinkLeaveStep, UnlinkLeftStep, SweepListStep,
     SweepDropStep, UnlinkStep DEF UnlinkClassFromSchool
<1>6. CASE DeleteSchool(r)
  BY <1>6, CloseLookupStep, CloseStep DEF DeleteSchool
<1>7. CASE ImportUsers(r)
  BY <1>7, ImportLookupStep, ImportUserStep, ImportProfileStep, ImportPlaceStep
     DEF ImportUsers
<1>8. CASE MoveUserClass(r)
  BY <1>8, MoveLookupStep, MoveEraseStep, MoveErasedStep, MoveInsertStep
     DEF MoveUserClass
<1> QED BY <1>1, <1>2, <1>3, <1>4, <1>5, <1>6, <1>7, <1>8

(* A step that changes nothing but the calendar, or nothing.               *)
LEMMA Passing ==
    ASSUME Inv, UNCHANGED <<rows, req, earlier>>, now' \in Years
    PROVE  Inv' /\ StepHolds
<1>1. /\ classes' = classes /\ school' = school /\ linked' = linked /\ user' = user
      /\ profiled' = profiled /\ member' = member /\ req' = req /\ earlier' = earlier
  BY DEF rows
<1>2. TypeOK'
  BY <1>1 DEF Inv, TypeOK, LiveSchools, Live
<1>3. ASSUME NEW r \in Requests
      PROVE  Sound(r)'
  <2>1. Sound(r)
    BY DEF Inv
  <2>2. Keeping(r)' /\ Past(r)' /\ Made(r)'
    BY <1>1, <2>1 DEF Sound, Keeping, Past, Made
  <2>3. Linking(r)'
    BY <1>1, <2>1 DEF Sound, Linking, At, YearsAt, Unlinks, Overlap
  <2>4. Vacating(r)'
    BY <1>1, <2>1 DEF Sound, Vacating, At, InClassAt, Row, Unminded, Overlap
  <2>5. Sweeping(r)'
    BY <1>1, <2>1 DEF Sound, Sweeping, Belongs, Left, Overlap
  <2>6. Importing(r)' /\ Moving(r)'
    BY <1>1, <2>1 DEF Sound, Importing, Moving, At, Row, Overlap, Live
  <2> QED BY <2>2, <2>3, <2>4, <2>5, <2>6 DEF Sound
<1>4. (\A m \in member : Entered(m))'
  BY <1>1 DEF Inv, Entered
<1>5. MembershipsHold'
  BY <1>1 DEF Inv, MembershipsHold, SecondClassNeedsOverlap, UnlinkedClassesAreEmpty,
              CreatedRowsAreWhole, Overlap, Unlinks, Live, Classes
<1>6. StepHolds
  BY <1>1 DEF StepHolds, EmptyStays, MembersGo, UnlinkStrands, YearsAt, Live, Classes
<1> QED BY <1>2, <1>3, <1>4, <1>5, <1>6 DEF Inv

LEMMA Keeps ==
    ASSUME Inv, [Next]_vars
    PROVE  Inv' /\ StepHolds
<1>1. CASE NewYear
  <2>1. now + 1 \in Years
    BY <1>1, RosterAssumption DEF NewYear, Inv, TypeOK, Years, RosterAssumption
  <2> QED BY <1>1, <2>1, Passing DEF NewYear
<1>2. CASE UNCHANGED vars
  BY <1>2, Passing DEF vars, Inv, TypeOK
<1>3. ASSUME NEW r \in Requests,
             \/ CreateSchool(r) \/ ListSchoolClasses(r)
             \/ LinkClassToSchool(r) \/ BulkLinkClasses(r)
             \/ UnlinkClassFromSchool(r) \/ DeleteSchool(r)
             \/ ImportUsers(r) \/ MoveUserClass(r)
             \/ SeedYears(r) \/ Backfill(r) \/ Fail(r)
      PROVE  Inv' /\ StepHolds
  BY <1>3, Step, Lasting, GoodStepHolds
<1> QED BY <1>1, <1>2, <1>3 DEF Next

LEMMA Beginning ==
    ASSUME Init
    PROVE  Inv
<1>1. PICK f \in [Live -> linked \cup {Null}] :
         member = {[user |-> u, year |-> f[u][1], school |-> f[u][2],
                    by |-> Null] : u \in {v \in Live : f[v] # Null}}
  BY DEF Init
<1>2. /\ now \in Years /\ classes = 1 .. now /\ linked \in SUBSET (classes \X LiveSchools)
      /\ school \in [Schools -> {"unborn", "live"}]
      /\ user \in [Users -> {"unborn", "live"}] /\ profiled = Live
      /\ req = [r \in Requests |-> NoLocal] /\ earlier = [r \in Requests |-> {}]
  BY DEF Init
<1>3. classes \subseteq Years
  BY <1>2, RosterAssumption DEF Years, RosterAssumption
<1>4. ASSUME NEW m \in member
      PROVE  /\ m \in Member /\ m.by = Null /\ m.user \in Live
             /\ m.year = f[m.user][1] /\ m.school = f[m.user][2]
             /\ <<m.year, m.school>> \in linked
  <2>1. PICK u \in Live : f[u] # Null /\ m = [user |-> u, year |-> f[u][1],
                                              school |-> f[u][2], by |-> Null]
    BY <1>1
  <2>2. f[u] \in linked
    BY <2>1
  <2>3. f[u] = <<f[u][1], f[u][2]>> /\ f[u][1] \in Years /\ f[u][2] \in Schools
    BY <1>2, <1>3, <2>2 DEF LiveSchools
  <2> QED BY <2>1, <2>2, <2>3 DEF Member, Live
<1>5. ASSUME NEW m \in member, NEW n \in member, m.user = n.user
      PROVE  m = n
  <2>1. PICK u \in Live : m = [user |-> u, year |-> f[u][1],
                              school |-> f[u][2], by |-> Null]
    BY <1>1
  <2>2. PICK v \in Live : n = [user |-> v, year |-> f[v][1],
                              school |-> f[v][2], by |-> Null]
    BY <1>1
  <2>3. u = v
    BY <1>5, <2>1, <2>2
  <2> QED BY <2>1, <2>2, <2>3
<1>6. TypeOK
  <2>1. req \in [Requests -> Local]
    BY <1>2, LocalFields
  <2> QED BY <1>2, <1>3, <1>4, <1>5, <2>1 DEF TypeOK
<1>7. ASSUME NEW r \in Requests
      PROVE  Sound(r)
  <2>1. req[r] = NoLocal /\ earlier[r] = {}
    BY <1>2
  <2>2. Keeping(r) /\ Past(r) /\ Linking(r) /\ Vacating(r)
    BY <2>1, LocalFields, NullIsNothing
       DEF Keeping, Past, Linking, Vacating, At, Ops, Steps
  <2>3. Sweeping(r) /\ Importing(r) /\ Made(r) /\ Moving(r)
    BY <2>1, LocalFields DEF Sweeping, Importing, Made, Moving, At
  <2> QED BY <2>2, <2>3 DEF Sound
<1>8. \A m \in member : Entered(m)
  BY <1>4 DEF Entered, Live
<1>9. MembershipsHold
  <2>1. SecondClassNeedsOverlap
    BY <1>5 DEF SecondClassNeedsOverlap
  <2>2. UnlinkedClassesAreEmpty
    BY <1>4 DEF UnlinkedClassesAreEmpty
  <2>3. CreatedRowsAreWhole
    BY <1>2, LocalFields DEF CreatedRowsAreWhole
  <2> QED BY <2>1, <2>2, <2>3 DEF MembershipsHold
<1> QED BY <1>7, <1>8, <1>9, <1>6 DEF Inv

-----------------------------------------------------------------------------
(* The inductive invariant: what each request under way has read, and who  *)
(* may have changed it since.                                              *)
THEOREM Invariance == Spec => []Inv
<1>1. Inv /\ [Next]_vars => Inv'
  BY Keeps
<1> QED BY <1>1, Beginning, PTL DEF Spec

(* Every column and every local of a request keeps its type; nobody is     *)
(* twice in one class, no link names a school or a year there is not.      *)
THEOREM TypeCorrect == Spec => []TypeOK
BY Invariance, PTL DEF Inv

(* One class for everyone, nobody in a class that is not offered, and no   *)
(* created row that is not whole, but for the overlaps the parts name.     *)
THEOREM MembershipsStay == Spec => []MembershipsHold
BY Invariance, PTL DEF Inv

(* No step gives an empty school a class, deletes who is not a member, or  *)
(* takes somebody's last class away, but as the parts say.                 *)
THEOREM StepsStay == Spec => StepsHold
<1>1. Inv /\ [Next]_vars =>
        [\A s \in Schools :
            YearsAt(s) = {} /\ YearsAt(s)' # {} =>
                \E r \in Requests :
                    /\ req[r].pc = "insert" /\ req[r].school = s
                    /\ req[r] # req'[r]
                    /\ \/ req[r].op \in {"link", "bulk"}
                       \/ /\ req[r].op = "list"
                          /\ \E q \in Requests, y \in Years :
                                Unlinks(q, y, s) /\ Overlap(q, r)]_vars
  BY Keeps DEF StepHolds, EmptyStays
<1>2. Inv /\ [Next]_vars =>
        [\A u \in Live, r \in Requests :
            u \notin Live' /\ req[r] # req'[r] =>
                LET here == {m \in member : m.user = u /\ m.school = req[r].school}
                IN  \/ \E m \in here : req[r].op = "close" \/ m.year = req[r].year
                    \/ \E q \in Requests :
                          /\ Overlap(q, r)
                          /\ \/ req[q].op = "move" /\ req[q].user = u
                             \/ req[q].op \in {"unlink", "close"}
                                  /\ req[q].school = req[r].school]_vars
  BY Keeps DEF StepHolds, MembersGo, Belongs, Left
<1>3. Inv /\ [Next]_vars =>
        [\A u \in Live :
            u \in Live' /\ Classes(u) # {} /\ Classes(u)' = {} =>
                \E r \in Requests : At(r, "unlink", "left") /\ req[r] # req'[r]]_vars
  BY Keeps DEF StepHolds, UnlinkStrands
<1>4. Spec => EmptySchoolsStayEmpty
  BY <1>1, Invariance, PTL DEF Spec, EmptySchoolsStayEmpty
<1>5. Spec => OnlyMembersAreSwept
  BY <1>2, Invariance, PTL DEF Spec, OnlyMembersAreSwept
<1>6. Spec => OnlyUnlinkStrands
  BY <1>3, Invariance, PTL DEF Spec, OnlyUnlinkStrands
<1> QED BY <1>4, <1>5, <1>6 DEF StepsHold
=============================================================================
