---------------------------- MODULE PhotosProofs ----------------------------
(***************************************************************************)
(* The safety of Photos, for any users, requests, places and workloads.    *)
(*                                                                         *)
(* What a handler does to the two stores depends on what it read some      *)
(* statements before.  Known says how stale that may be: what the row      *)
(* names now is what the request has read, unless a mint that overlaps it  *)
(* has recorded another key since.  From that follows Kept: of each object *)
(* there is, and of each URL that may still be used, one can say why it is *)
(* named, or was deleted, or is excused.                                   *)
(***************************************************************************)
EXTENDS Photos, FiniteSetTheorems, WellFoundedInduction, TLAPS

(* What the request's own fields say of each other.                        *)
Keeping(r) ==
    /\ req[r].op = Null <=> req[r].pc = "idle"
    /\ req[r].op \in {"replace", "clear"} => req[r].kind \in ProfileKinds
    /\ req[r].op \in {"add", "remove"} => req[r].kind = Gallery
    /\ req[r].op \in Mints \cup {"clear", "remove", "delete"} => req[r].user \in Users
    /\ req[r].key # Null => /\ req[r].op \in Mints
                            /\ req[r].key.user = req[r].user
                            /\ req[r].key.kind = req[r].kind
                            /\ req[r].key.ms # 0

(* Which keys it holds, and which of them S3 was told to delete.           *)
Holding(r) ==
    /\ req[r].op = "replace" => req[r].key \notin req[r].keys
    /\ req[r].op \in Ops \ Sweeps =>
          \A k \in req[r].keys :
              /\ k.user = req[r].user
              /\ req[r].op \in {"replace", "clear"} => k.kind = req[r].kind
    /\ At(r, "replace", "previous")
       => req[r].key = Null /\ req[r].keys = {} /\ req[r].folder \in Folders
    /\ At(r, "add", "placement") => req[r].key = Null
    /\ req[r].op \in Mints /\ req[r].pc \in {"record", "displace", "insert", "ok"}
       => req[r].key # Null
    /\ At(r, "clear", "record") \/ At(r, "remove", "unlist")
       => req[r].keys \subseteq erased
    /\ At(r, "delete", "drop") => req[r].keys = {}

(* The row a removal has found.                                            *)
Finding(r) ==
    At(r, "remove", "erase") \/ At(r, "remove", "unlist") =>
        /\ req[r].row \in Requests
        /\ At(req[r].row, "add", "ok") /\ req[req[r].row].key \in req[r].keys

(* A sweep knows the members only once the objects are gone.               *)
Sweeping(r) ==
    /\ req[r].who # {} => req[r].op \in Sweeps /\ req[r].keys \subseteq erased
    /\ req[r].pc \in {"list", "purge", "members"} /\ req[r].op \in Sweeps
       => req[r].who = {}
    /\ req[r].pc = "members" => req[r].op \in Sweeps /\ req[r].keys \subseteq erased
    /\ req[r].pc \in {"drop", "list", "purge"} => req[r].op \in Sweeps \cup {"delete"}
    /\ req[r].pc = "close" => req[r].op \in Sweeps \cup {"unlink"}
    /\ req[r].op = "school" /\ req[r].pc \in Steps
       => req[r].region = {p \in Places : School[p] = req[r].school}
    /\ req[r].op \in {"cascade", "unlink"} => req[r].school = Null

(* The past of a request: what had finished then is finished still.        *)
Past(r) ==
    /\ r \notin earlier[r]
    /\ \A q \in earlier[r] : /\ req[q].pc \in Final
                             /\ earlier[q] \subseteq earlier[r]
    /\ req[r].pc = "idle" => earlier[r] = {}

-----------------------------------------------------------------------------
(* A mint of k that overlapped r.                                          *)
RacedWith(k, r) == \E q \in Requests : /\ req[q].op \in Mints /\ req[q].key = k
                                       /\ Overlap(q, r)

(* How stale what a request has read may be.                               *)
Known(r) ==
    LET u == req[r].user
        k == photo[u][req[r].kind]
    IN  /\ At(r, "replace", "record")
           => k \in req[r].keys \cup {Null, req[r].key} \/ RacedWith(k, r)
        /\ At(r, "clear", "erase") \/ At(r, "clear", "record")
           => k \in req[r].keys \cup {Null} \/ RacedWith(k, r)
        /\ (At(r, "delete", "erase") \/ At(r, "delete", "drop")) /\ r \notin MayFail
           => \A l \in Names(u) : l \in req[r].keys \cup erased \/ RacedWith(l, r)

(* Request s has had its turn at recording k.                              *)
Recorded(s, k) == /\ req[s].op = "replace" /\ req[s].key = k
                  /\ req[s].pc \in {"displace", "ok", "failed"}

Old(k) == k.ms = 0 \/ \E s \in Requests : Recorded(s, k)

Twice(k) == \E q, s \in Requests : q # s /\ req[q].key = k /\ req[s].key = k

(* What a replacement is about to delete: a key that was in its place      *)
(* before, and is back only if it was minted twice.                        *)
Displacing(r) ==
    /\ At(r, "replace", "record") \/ At(r, "replace", "displace")
       => \A k \in req[r].keys : Old(k)
    /\ At(r, "replace", "displace")
       => \A k \in req[r].keys :
              k = photo[req[r].user][req[r].kind] => Twice(k)

(* Why the user of a replacement is gone.                                  *)
Orphaned(r) ==
    /\ At(r, "replace", "previous") \/ At(r, "replace", "record")
    /\ req[r].user \notin live
    => \E x \in Requests :
          \/ req[x].op \in Sweeps /\ req[r].user \in req[x].who
          \/ req[x].op = "delete" /\ req[x].user = req[r].user /\ Overlap(r, x)

(* Those that had finished when r counted are below the limit.             *)
Before(r) == {g \in gallery : req[g].user = req[r].user /\ g \in earlier[r]}

Counted(r) ==
    req[r].op = "add" /\ req[r].pc \in {"placement", "insert", "ok"}
        => Cardinality(Before(r)) < Limit

-----------------------------------------------------------------------------
PhotoRow(u, kind) ==
    LET k == photo[u][kind]
    IN  k # Null => u \in live /\ k.user = u /\ k.kind = kind /\ Old(k)

GalleryRow(g) == At(g, "add", "ok") /\ req[g].user \in live

(* An object there is, or may be: its URL can be used.                     *)
Usable(r) == req[r].op \in Mints /\ req[r].pc \in {"displace", "ok"}

Accounted(k) == k \in erased \/ Displaced(k) \/ Raced(k)

Excused(k) ==
    \/ Accounted(k)
    \/ \E r \in Requests :
          \/ req[r].op \in Sweeps /\ k.user \in req[r].who
          \/ req[r].op = "delete" /\ req[r].user = k.user /\ r \in MayFail

Kept(k) ==
    /\ k.user \in live /\ k.kind = Gallery => k \in Names(k.user) \cup erased
    /\ k.user \in live /\ k.kind \in ProfileKinds => k \in Names(k.user) \/ Accounted(k)
    /\ k.user \notin live => Excused(k)

Linked == /\ MembershipsNameSchools
          /\ \A p \in linked : School[p] \in schools

Own(r) == Keeping(r) /\ Holding(r) /\ Finding(r) /\ Sweeping(r)

Tables(r) == /\ Known(r) /\ Displacing(r) /\ Orphaned(r) /\ Counted(r)
             /\ Usable(r) => Kept(req[r].key)

Sound(r) == Own(r) /\ Past(r) /\ Tables(r)

Inv == /\ TypeOK
       /\ \A r \in Requests : Sound(r)
       /\ \A u \in Users, kind \in ProfileKinds : PhotoRow(u, kind)
       /\ \A g \in gallery : GalleryRow(g)
       /\ IsFiniteSet(gallery)
       /\ \A k \in bucket : Kept(k)
       /\ Linked /\ clock # 0

-----------------------------------------------------------------------------
(* What a step of request r does to the requests: it moves r on, and what  *)
(* others rely on stays as it is.                                          *)
Forward(r) ==
    /\ \A q \in Requests \ {r} : req'[q] = req[q] /\ earlier'[q] = earlier[q]
    /\ req' \in [Requests -> Request] /\ earlier' \in [Requests -> SUBSET Requests]
    /\ req[r].pc \notin Final /\ req'[r].op # Null /\ req'[r].pc # "idle"
    /\ req[r].pc = "idle" => earlier'[r] = {q \in Requests : req[q].pc \in Final}
    /\ req[r].pc # "idle" => /\ earlier'[r] = earlier[r]
                             /\ req'[r].op = req[r].op /\ req'[r].user = req[r].user
                             /\ req'[r].kind = req[r].kind
                             /\ req[r].key # Null => req'[r].key = req[r].key
                             /\ req[r].who \subseteq req'[r].who
                             /\ req[r].op = "replace" /\ req[r].pc # "previous"
                                => req'[r].keys = req[r].keys
    /\ At(r, "replace", "displace") =>
          /\ req'[r].pc \in {"ok", "failed"}
          /\ req[r].keys \subseteq erased' \/ r \in MayFail

LEMMA BecomeEffect ==
    ASSUME TypeOK, NEW r \in Requests, NEW local \in Request, Become(r, local)
    PROVE  /\ \A q \in Requests \ {r} : req'[q] = req[q] /\ earlier'[q] = earlier[q]
           /\ req' \in [Requests -> Request] /\ earlier' \in [Requests -> SUBSET Requests]
           /\ req'[r] = local /\ earlier'[r] = earlier[r]
           /\ mix' \in Mixes
BY DEF TypeOK, Become

LEMMA BeginEffect ==
    ASSUME TypeOK, NEW r \in Requests, NEW local \in Request, Begin(r, local)
    PROVE  /\ \A q \in Requests \ {r} : req'[q] = req[q] /\ earlier'[q] = earlier[q]
           /\ req' \in [Requests -> Request] /\ earlier' \in [Requests -> SUBSET Requests]
           /\ req[r].pc = "idle" /\ req'[r] = local
           /\ earlier'[r] = {q \in Requests : req[q].pc \in Final}
           /\ mix' \in Mixes
<1> {q \in Requests : req[q].pc \in Final} \in SUBSET Requests
  OBVIOUS
<1> QED BY DEF TypeOK, Begin

(* Two requests that are both under way overlap.                           *)
LEMMA OverlapNow ==
    ASSUME Inv, NEW q \in Requests, NEW r \in Requests, q # r,
           req[q].pc \notin Final, req[r].pc \notin Final
    PROVE  Overlap(q, r)
BY DEF Inv, Sound, Past, Overlap

(* What a request has begun with stays as it is.                           *)
LEMMA Staying ==
    ASSUME Inv, NEW r \in Requests, Forward(r)
    PROVE  /\ \A q \in Requests : /\ req[q].op = Null <=> req[q].pc = "idle"
                                  /\ req[q].key # Null => req[q].op # Null
                                  /\ req[q].who # {} => req[q].op # Null
           /\ \A q \in Requests : req[q].op # Null =>
                 /\ req'[q].op = req[q].op /\ req'[q].user = req[q].user
                 /\ req'[q].kind = req[q].kind /\ earlier'[q] = earlier[q]
                 /\ req[q].key # Null => req'[q].key = req[q].key
                 /\ req[q].who \subseteq req'[q].who
           /\ \A q, x \in Requests :
                 req[q].op # Null /\ req[x].op # Null /\ Overlap(q, x)
                     => Overlap(q, x)'
<1> USE NullIsNothing
<1>1. \A q \in Requests : /\ req[q].op = Null <=> req[q].pc = "idle"
                          /\ req[q].key # Null => req[q].op # Null
                          /\ req[q].who # {} => req[q].op # Null
  BY DEF Inv, Sound, Own, Keeping, Sweeping, Ops
<1>2. \A q \in Requests : req[q].op # Null =>
          /\ req'[q].op = req[q].op /\ req'[q].user = req[q].user
          /\ req'[q].kind = req[q].kind /\ earlier'[q] = earlier[q]
          /\ req[q].key # Null => req'[q].key = req[q].key
          /\ req[q].who \subseteq req'[q].who
  BY <1>1 DEF Forward
<1>3. ASSUME NEW q \in Requests, NEW x \in Requests,
             req[q].op # Null, req[x].op # Null, Overlap(q, x)
      PROVE  Overlap(q, x)'
  BY <1>2, <1>3 DEF Overlap
<1> QED BY <1>1, <1>2, <1>3

(* What has been said of a key stays true.                                 *)
LEMMA Lasting ==
    ASSUME Inv, NEW r \in Requests, Forward(r), erased \subseteq erased',
           NEW k \in Keys
    PROVE  /\ \A x \in Requests : req[x].op # Null /\ RacedWith(k, x)
                 => RacedWith(k, x)'
           /\ Old(k) => Old(k)'
           /\ Twice(k) => Twice(k)'
           /\ Raced(k) => Raced(k)'
           /\ Accounted(k) => Accounted(k)'
           /\ Excused(k) => Excused(k)'
<1> USE NullIsNothing
<1>1. \A q \in Requests : /\ req[q].op = Null <=> req[q].pc = "idle"
                          /\ req[q].key # Null => req[q].op # Null
                          /\ req[q].who # {} => req[q].op # Null
  BY Staying
<1>2. \A q \in Requests : req[q].op # Null =>
          /\ req'[q].op = req[q].op /\ req'[q].user = req[q].user
          /\ req'[q].kind = req[q].kind /\ earlier'[q] = earlier[q]
          /\ req[q].key # Null => req'[q].key = req[q].key
          /\ req[q].who \subseteq req'[q].who
  BY Staying
<1>3. \A q, x \in Requests : req[q].op # Null /\ req[x].op # Null /\ Overlap(q, x)
                                 => Overlap(q, x)'
  BY Staying
<1>4. ASSUME NEW x \in Requests, req[x].op # Null, RacedWith(k, x)
      PROVE  RacedWith(k, x)'
  <2>1. PICK q \in Requests : req[q].op \in Mints /\ req[q].key = k /\ Overlap(q, x)
    BY <1>4 DEF RacedWith
  <2>2. req[q].op # Null /\ req[q].key # Null
    BY <2>1, <1>1
  <2> QED BY <1>2, <1>3, <1>4, <2>1, <2>2 DEF RacedWith
<1>5. ASSUME NEW x \in Requests, Recorded(x, k) PROVE Recorded(x, k)'
  BY <1>1, <1>2, <1>5 DEF Recorded, Forward, Final, At
<1>6. Old(k) => Old(k)'
  BY <1>5 DEF Old
<1>7. Twice(k) => Twice(k)'
  BY <1>1, <1>2 DEF Twice
<1>8. Raced(k) => Raced(k)'
  <2> SUFFICES ASSUME Raced(k) PROVE Raced(k)'
    OBVIOUS
  <2>1. PICK q, x \in Requests :
            /\ req[q].op \in Mints /\ req[q].key = k
            /\ Overlap(q, x) /\ req[x].user = k.user
            /\ \/ req[x].op \in {"replace", "clear"} /\ req[x].kind = k.kind
               \/ req[x].op = "delete"
    BY DEF Raced
  <2>2. req[q].key # Null /\ req[q].op # Null /\ req[x].op # Null
    BY <1>1, <2>1 DEF Ops, Mints, Sweeps
  <2>3. /\ Overlap(q, x)' /\ req'[q].op \in Mints /\ req'[q].key = k
        /\ req'[x].user = k.user /\ req'[x].kind = req[x].kind /\ req'[x].op = req[x].op
    BY <1>2, <1>3, <2>1, <2>2
  <2> QED BY <2>1, <2>3 DEF Raced
<1>9. Displaced(k) => Displaced(k)' \/ k \in erased'
  <2> SUFFICES ASSUME NEW x \in Requests, req[x].op = "replace", k \in req[x].keys,
                      req[x].pc = "displace" \/ x \in MayFail
               PROVE  Displaced(k)' \/ k \in erased'
    BY DEF Displaced
  <2>1. CASE x = r
    <3>1. req[r].pc # "previous"
      BY <2>1 DEF Inv, Sound, Own, Holding, At
    <3>2. req[r].pc # "idle"
      BY <1>1, <2>1 DEF Ops, Mints, Sweeps
    <3> QED BY <2>1, <3>1, <3>2 DEF Forward, Displaced, At
  <2>2. CASE x # r
    BY <2>2 DEF Forward, Displaced
  <2> QED BY <2>1, <2>2
<1>10. Accounted(k) => Accounted(k)'
  BY <1>8, <1>9 DEF Accounted
<1>11. ASSUME NEW x \in Requests,
              \/ req[x].op \in Sweeps /\ k.user \in req[x].who
              \/ req[x].op = "delete" /\ req[x].user = k.user /\ x \in MayFail
       PROVE  Excused(k)'
  <2>1. req[x].op # Null
    BY <1>11 DEF Ops, Mints, Sweeps
  <2> QED BY <1>2, <1>11, <2>1 DEF Excused
<1> QED BY <1>4, <1>6, <1>7, <1>8, <1>10, <1>11 DEF Excused

(* The other requests know of each other what they knew, and of their own  *)
(* fields; r has no more of a past than it has begun with.                 *)
LEMMA OthersOwn ==
    ASSUME Inv, NEW r \in Requests, Forward(r), erased \subseteq erased'
    PROVE  /\ \A q \in Requests \ {r} : Own(q)'
           /\ \A q \in Requests : Past(q)'
<1>1. ASSUME NEW q \in Requests \ {r} PROVE Own(q)'
  <2>1. Own(q) /\ req'[q] = req[q]
    BY DEF Inv, Sound, Forward
  <2>2. Finding(q)'
    <3> SUFFICES ASSUME At(q, "remove", "erase") \/ At(q, "remove", "unlist")
                 PROVE  Finding(q)'
      BY <2>1 DEF Finding, At
    <3>1. /\ req[q].row \in Requests /\ At(req[q].row, "add", "ok")
          /\ req[req[q].row].key \in req[q].keys
      BY <2>1 DEF Own, Finding
    <3>2. req[q].row # r
      BY <3>1 DEF At, Forward, Final
    <3>3. req'[req[q].row] = req[req[q].row]
      BY <3>1, <3>2 DEF Forward
    <3> QED BY <2>1, <3>1, <3>3 DEF Finding, At
  <2>3. Keeping(q)'
    BY <2>1 DEF Own, Keeping
  <2>4. Holding(q)'
    BY <2>1 DEF Own, Holding, At
  <2>5. Sweeping(q)'
    BY <2>1 DEF Own, Sweeping
  <2> QED BY <2>2, <2>3, <2>4, <2>5 DEF Own
<1>2. ASSUME NEW q \in Requests PROVE Past(q)'
  <2>1. \A x \in Requests : Past(x) /\ earlier[x] \in SUBSET Requests
    BY DEF Inv, Sound, TypeOK
  <2>2. \A x \in Requests : req[x].pc \in Final =>
            x # r /\ req'[x] = req[x] /\ earlier'[x] = earlier[x]
    BY DEF Forward
  <2>3. CASE q = r /\ req[r].pc = "idle"
    <3>1. earlier'[q] = {x \in Requests : req[x].pc \in Final}
      BY <2>3 DEF Forward
    <3>2. \A x \in earlier'[q] : req'[x].pc \in Final /\ earlier'[x] \subseteq earlier'[q]
      BY <2>1, <2>2, <3>1 DEF Past
    <3> QED BY <2>3, <3>1, <3>2 DEF Past, Forward, Final
  <2>4. CASE ~(q = r /\ req[r].pc = "idle")
    <3>1. earlier'[q] = earlier[q] /\ (req'[q].pc = "idle" => req[q].pc = "idle")
      BY <2>4 DEF Forward
    <3> QED BY <2>1, <2>2, <3>1 DEF Past
  <2> QED BY <2>3, <2>4
<1> QED BY <1>1, <1>2

-----------------------------------------------------------------------------
(* What a step of r may do to the rows: repoint one photo to the key it     *)
(* records, list itself, and take rows and users away.                     *)
Repoints(r, u, kind) ==
    /\ At(r, "replace", "record") /\ u = req[r].user /\ kind = req[r].kind
    /\ photo'[u][kind] = req[r].key /\ u \in live /\ Recorded(r, req[r].key)'

Takes(r, u) == \/ req[r].op \in Sweeps /\ u \in req[r].who
               \/ req[r].op = "delete" /\ req[r].user = u

Moves(r) ==
    /\ \A u \in Users, kind \in ProfileKinds :
          photo'[u][kind] \in {photo[u][kind], Null} \/ Repoints(r, u, kind)
    /\ gallery' \subseteq gallery \cup {r}
    /\ r \in gallery' => At(r, "add", "insert") /\ At(r, "add", "ok")' /\ req[r].user \in live
    /\ live' \subseteq live
    /\ \A u \in Users \ live' :
          /\ \A kind \in ProfileKinds : photo'[u][kind] = Null
          /\ \A g \in gallery' : req[g].user # u
          /\ u \in live => Takes(r, u)
    /\ erased \subseteq erased'

(* The rows of a user name what they named, or the key r records.          *)
LEMMA NamesMove ==
    ASSUME Inv, NEW r \in Requests, Forward(r), Moves(r), NEW u \in Users,
           NEW l \in Names(u)'
    PROVE  \/ l \in Names(u)
           \/ /\ l = req[r].key /\ req[r].op \in Mints /\ req'[r].key = req[r].key
              /\ req[r].pc \in {"record", "insert"}
<1>1. l # Null
  BY DEF Names
<1>2. CASE \E kind \in ProfileKinds : l = photo'[u][kind]
  <2>1. PICK kind \in ProfileKinds : l = photo'[u][kind]
    BY <1>2
  <2>2. CASE l = photo[u][kind]
    BY <1>1, <2>2 DEF Names
  <2>3. CASE Repoints(r, u, kind)
    <3>1. l = req[r].key /\ req[r].op \in Mints /\ req[r].pc = "record"
      BY <2>1, <2>3 DEF Repoints, At, Mints
    <3> QED BY <1>1, <3>1 DEF Forward
  <2> QED BY <1>1, <2>1, <2>2, <2>3 DEF Moves
<1>3. CASE \E g \in gallery' : req'[g].user = u /\ l = req'[g].key
  <2>1. PICK g \in gallery' : req'[g].user = u /\ l = req'[g].key
    BY <1>3
  <2>2. CASE g = r
    <3>1. At(r, "add", "insert")
      BY <2>2 DEF Moves
    <3>2. req[r].key # Null /\ req[r].op \in Mints
      BY <3>1 DEF Inv, Sound, Own, Holding, At, Mints
    <3>3. req'[r].key = req[r].key
      BY <3>1, <3>2 DEF Forward, At
    <3> QED BY <2>1, <2>2, <3>1, <3>2, <3>3 DEF At
  <2>3. CASE g # r
    <3>1. g \in gallery /\ g \in Requests
      BY <2>3 DEF Moves, Inv, TypeOK
    <3>2. req'[g] = req[g]
      BY <2>3, <3>1 DEF Forward
    <3> QED BY <1>1, <2>1, <3>1, <3>2 DEF Names, GalleryOf
  <2> QED BY <2>2, <2>3
<1> QED BY <1>2, <1>3 DEF Names, GalleryOf

(* A request that is under way overlaps the mint whose key r records.      *)
LEMMA RacedNow ==
    ASSUME Inv, NEW r \in Requests, Forward(r), erased \subseteq erased',
           NEW q \in Requests \ {r}, req[q].pc \notin Final, req[q].op # Null,
           req[r].op \in Mints, req'[r].key = req[r].key, req[r].key \in Keys
    PROVE  RacedWith(req[r].key, q)'
<1>1. Overlap(r, q) /\ req[r].op # Null
  BY OverlapNow, NullIsNothing DEF Forward, Ops
<1>2. Overlap(r, q)'
  BY <1>1, Staying
<1>3. req'[r].op \in Mints
  BY <1>1 DEF Forward, Inv, Sound, Own, Keeping
<1> QED BY <1>2, <1>3 DEF RacedWith

(* What the other requests have read is as fresh as it was.                *)
LEMMA OthersKnow ==
    ASSUME Inv, NEW r \in Requests, Forward(r), Moves(r), NEW q \in Requests \ {r}
    PROVE  Known(q)'
<1> USE NullIsNothing
<1>1. Known(q) /\ Own(q) /\ req'[q] = req[q] /\ erased \subseteq erased'
  BY DEF Inv, Sound, Tables, Forward, Moves
<1>2. \A k \in Keys : RacedWith(k, q) /\ req[q].op # Null => RacedWith(k, q)'
  BY <1>1, Lasting
<1>3. \A u \in Users, kind \in ProfileKinds : photo[u][kind] \in Keys \cup {Null}
  BY DEF Inv, TypeOK
<1>4. ASSUME req[q].op \in {"replace", "clear"}, req[q].pc \in {"record", "erase"},
             NEW k, k = photo[req[q].user][req[q].kind],
             NEW l, l = photo'[req[q].user][req[q].kind]
      PROVE  l = k \/ l = Null \/ RacedWith(l, q)'
  <2>1. /\ req[q].user \in Users /\ req[q].kind \in ProfileKinds
        /\ req[q].op # Null /\ req[q].pc \notin Final
    BY <1>1, <1>4 DEF Own, Keeping, Ops, Mints, Final
  <2>2. CASE Repoints(r, req[q].user, req[q].kind)
    <3>1. req[r].key # Null /\ req[r].op \in Mints /\ l = req[r].key
      BY <1>4, <2>2 DEF Repoints, At, Mints, Inv, Sound, Own, Holding
    <3>2. req[r].key \in Keys
      BY <3>1 DEF Inv, TypeOK, Request
    <3>3. req'[r].key = req[r].key
      BY <2>2, <3>1 DEF Forward, Repoints, At
    <3>4. RacedWith(req[r].key, q)'
      BY <1>1, <2>1, <3>1, <3>2, <3>3, RacedNow
    <3> QED BY <3>1, <3>3, <3>4 DEF RacedWith
  <2> QED BY <1>4, <2>1, <2>2 DEF Moves
<1>5. ASSUME req[q].op \in {"replace", "clear"}, req[q].pc \in {"record", "erase"},
             NEW K, NEW k, k = photo[req[q].user][req[q].kind],
             k \in K \cup {Null} \/ RacedWith(k, q),
             NEW l, l = photo'[req[q].user][req[q].kind]
      PROVE  l \in K \cup {Null} \/ RacedWith(l, q)'
  <2>1. req[q].user \in Users /\ req[q].kind \in ProfileKinds /\ req[q].op # Null
    BY <1>1, <1>5 DEF Own, Keeping, Ops, Mints
  <2>2. l = k \/ l = Null \/ RacedWith(l, q)'
    BY <1>4, <1>5
  <2>3. k \in Keys \cup {Null}
    BY <1>3, <1>5, <2>1
  <2>4. CASE l = k /\ RacedWith(l, q) /\ l \in Keys
    BY <1>2, <2>1, <2>4
  <2> QED BY <1>5, <2>2, <2>3, <2>4
<1>6. ASSUME At(q, "replace", "record"),
             NEW l, l = photo'[req[q].user][req[q].kind]
      PROVE  l \in req[q].keys \cup {Null, req[q].key} \/ RacedWith(l, q)'
  <2> DEFINE K == req[q].keys \cup {req[q].key}
  <2>1. PICK k : k = photo[req[q].user][req[q].kind]
    OBVIOUS
  <2>2. k \in K \cup {Null} \/ RacedWith(k, q)
    BY <1>1, <1>6, <2>1 DEF Known, RacedWith
  <2> HIDE DEF K
  <2>3. l \in K \cup {Null} \/ RacedWith(l, q)'
    BY <1>5, <1>6, <2>1, <2>2 DEF At
  <2> QED BY <2>3 DEF K
<1>7. ASSUME At(q, "clear", "erase") \/ At(q, "clear", "record"),
             NEW l, l = photo'[req[q].user][req[q].kind]
      PROVE  l \in req[q].keys \cup {Null} \/ RacedWith(l, q)'
  <2>1. PICK k : k = photo[req[q].user][req[q].kind]
    OBVIOUS
  <2>2. k \in req[q].keys \cup {Null} \/ RacedWith(k, q)
    BY <1>1, <1>7, <2>1 DEF Known, RacedWith
  <2> QED BY <1>5, <1>7, <2>1, <2>2 DEF At
<1>8. ASSUME At(q, "delete", "erase") \/ At(q, "delete", "drop"), q \notin MayFail,
             NEW u, u = req[q].user, NEW l \in Names(u)'
      PROVE  l \in req[q].keys \cup erased' \/ RacedWith(l, q)'
  <2>1. u \in Users /\ req[q].op # Null /\ req[q].pc \notin Final
    BY <1>1, <1>8 DEF Own, Keeping, Ops, At, Final
  <2>2. CASE l \in Names(u)
    <3>1. l \in req[q].keys \cup erased \/ RacedWith(l, q)
      BY <1>1, <1>8, <2>2 DEF Known
    <3>2. l \in Keys
      <4>1. \A g \in gallery : req[g].key \in Keys \cup {Null}
        BY DEF Inv, TypeOK, Request
      <4> QED BY <1>3, <2>1, <2>2, <4>1 DEF Names, GalleryOf
    <3> QED BY <1>1, <1>2, <2>1, <3>1, <3>2
  <2>3. CASE l = req[r].key /\ req[r].op \in Mints /\ req'[r].key = req[r].key
             /\ req[r].pc \in {"record", "insert"}
    <3>1. req[r].key \in Keys \cup {Null}
      BY DEF Inv, TypeOK, Request
    <3>2. l # Null
      BY <1>8 DEF Names
    <3>3. RacedWith(req[r].key, q)'
      BY <1>1, <2>1, <2>3, <3>1, <3>2, RacedNow
    <3> QED BY <2>3, <3>3 DEF RacedWith
  <2> QED BY <1>8, <2>1, <2>2, <2>3, NamesMove
<1> QED BY <1>1, <1>6, <1>7, <1>8 DEF Known, At, RacedWith, Names, GalleryOf

(* What another replacement is about to delete does not come back, unless  *)
(* it was minted twice.                                                    *)
LEMMA OthersDisplace ==
    ASSUME Inv, NEW r \in Requests, Forward(r), Moves(r), NEW q \in Requests \ {r}
    PROVE  Displacing(q)'
<1> USE NullIsNothing
<1>1. Displacing(q) /\ Own(q) /\ req'[q] = req[q] /\ erased \subseteq erased'
  BY DEF Inv, Sound, Tables, Forward, Moves
<1>2. \A k \in Keys : (Old(k) => Old(k)') /\ (Twice(k) => Twice(k)')
  BY <1>1, Lasting
<1>3. req[q].keys \subseteq Keys
  BY DEF Inv, TypeOK, Request
<1>4. ASSUME At(q, "replace", "record") \/ At(q, "replace", "displace"),
             NEW k \in req[q].keys
      PROVE  Old(k)'
  BY <1>1, <1>2, <1>3, <1>4 DEF Displacing
<1>5. ASSUME At(q, "replace", "displace"), NEW k \in req[q].keys,
             k = photo'[req[q].user][req[q].kind]
      PROVE  Twice(k)'
  <2>1. req[q].user \in Users /\ req[q].kind \in ProfileKinds /\ k # Null
    BY <1>1, <1>3, <1>5 DEF Own, Keeping, Mints, At
  <2>2. CASE k = photo[req[q].user][req[q].kind]
    BY <1>1, <1>2, <1>3, <1>5, <2>2 DEF Displacing
  <2>3. CASE Repoints(r, req[q].user, req[q].kind)
    <3>1. k = req[r].key /\ req[r].op = "replace" /\ req[r].pc = "record"
      BY <1>5, <2>3 DEF Repoints, At
    <3>2. k.ms # 0 /\ Old(k)
      BY <1>1, <1>5, <2>1, <3>1 DEF Displacing, Inv, Sound, Own, Keeping
    <3>3. PICK s \in Requests : Recorded(s, k)
      BY <3>2 DEF Old
    <3>4. s # r
      BY <3>1, <3>3 DEF Recorded
    <3>5. Twice(k)
      BY <3>1, <3>3, <3>4 DEF Twice, Recorded
    <3> QED BY <1>2, <1>3, <3>5
  <2> QED BY <1>5, <2>1, <2>2, <2>3 DEF Moves
<1> QED BY <1>1, <1>4, <1>5 DEF Displacing, At

(* A user goes with the deletion of theirs, or with a sweep.               *)
LEMMA OthersOrphaned ==
    ASSUME Inv, NEW r \in Requests, Forward(r), Moves(r), NEW q \in Requests \ {r}
    PROVE  Orphaned(q)'
<1> USE NullIsNothing
<1>1. Orphaned(q) /\ Own(q) /\ req'[q] = req[q] /\ erased \subseteq erased'
  BY DEF Inv, Sound, Tables, Forward, Moves
<1> SUFFICES ASSUME At(q, "replace", "previous") \/ At(q, "replace", "record"),
                    req[q].user \notin live'
             PROVE  \E x \in Requests :
                      \/ req'[x].op \in Sweeps /\ req[q].user \in req'[x].who
                      \/ req'[x].op = "delete" /\ req'[x].user = req[q].user /\ Overlap(q, x)'
  BY <1>1 DEF Orphaned, At
<1>2. req[q].user \in Users /\ req[q].op # Null /\ req[q].pc \notin Final
  BY <1>1 DEF Own, Keeping, Mints, At, Final, Ops
<1>3. CASE req[q].user \in live
  <2>1. Takes(r, req[q].user)
    BY <1>2, <1>3 DEF Moves
  <2>2. req[r].op # Null /\ req[r].pc # "idle"
    BY <2>1 DEF Takes, Ops, Inv, Sound, Own, Keeping
  <2>3. CASE req[r].op \in Sweeps /\ req[q].user \in req[r].who
    BY <2>2, <2>3 DEF Forward
  <2>4. CASE req[r].op = "delete" /\ req[r].user = req[q].user
    <3>1. Overlap(q, r)
      BY <1>2, OverlapNow DEF Forward
    <3>2. Overlap(q, r)'
      BY <1>1, <1>2, <2>2, <3>1, Staying
    <3> QED BY <2>2, <2>4, <3>2 DEF Forward
  <2> QED BY <2>1, <2>3, <2>4 DEF Takes
<1>4. CASE req[q].user \notin live
  <2>1. PICK x \in Requests :
          \/ req[x].op \in Sweeps /\ req[q].user \in req[x].who
          \/ req[x].op = "delete" /\ req[x].user = req[q].user /\ Overlap(q, x)
    BY <1>1, <1>4 DEF Orphaned
  <2>2. req[x].op # Null /\ req[x].pc # "idle"
    BY <2>1 DEF Ops, Inv, Sound, Own, Keeping
  <2>3. /\ req'[x].op = req[x].op /\ req'[x].user = req[x].user
        /\ req[x].who \subseteq req'[x].who
    BY <2>2 DEF Forward
  <2>4. Overlap(q, x) => Overlap(q, x)'
    BY <1>1, <1>2, <2>2, Staying
  <2> QED BY <2>1, <2>3, <2>4
<1> QED BY <1>3, <1>4

(* A request that is inserted now had not finished when another counted.   *)
LEMMA OthersCounted ==
    ASSUME Inv, NEW r \in Requests, Forward(r), Moves(r), NEW q \in Requests \ {r}
    PROVE  Counted(q)'
<1>1. Counted(q) /\ req'[q] = req[q] /\ earlier'[q] = earlier[q] /\ r \notin earlier[q]
  BY DEF Inv, Sound, Tables, Forward, Past
<1>2. Before(q)' \subseteq Before(q)
  <2> SUFFICES ASSUME NEW g \in gallery', req'[g].user = req[q].user, g \in earlier[q]
               PROVE  g \in Before(q)
    BY <1>1 DEF Before
  <2>1. g # r /\ g \in gallery /\ g \in Requests
    BY <1>1 DEF Moves, Inv, TypeOK
  <2>2. req'[g] = req[g]
    BY <2>1 DEF Forward
  <2> QED BY <2>1, <2>2 DEF Before
<1>3. IsFiniteSet(Before(q))
  BY FS_Subset DEF Before, Inv
<1>4. Cardinality(Before(q)') <= Cardinality(Before(q))
  BY <1>2, <1>3, FS_Subset
<1>5. Cardinality(Before(q)') \in Nat /\ Cardinality(Before(q)) \in Nat
  BY <1>2, <1>3, FS_Subset, FS_CardinalityType
<1> QED BY <1>1, <1>4, <1>5, PhotosAssumption DEF Counted

(* A step loses no row but those whose keys it accounts for.               *)
Loses(r) ==
    /\ \A k \in Keys : k.user \in live' /\ k \in Names(k.user) =>
          \/ k \in Names(k.user)' \/ k \in erased'
          \/ k.kind \in ProfileKinds /\ Accounted(k)'
    /\ \A k \in Keys : k.user \in live \ live' /\ Kept(k) => Excused(k)'

LEMMA KeptLasts ==
    ASSUME Inv, NEW r \in Requests, Forward(r), Moves(r), Loses(r),
           NEW k \in Keys, Kept(k)
    PROVE  Kept(k)'
<1>1. erased \subseteq erased' /\ live' \subseteq live
  BY DEF Moves
<1>2. (Accounted(k) => Accounted(k)') /\ (Excused(k) => Excused(k)')
  BY <1>1, Lasting
<1>3. ASSUME k.user \in live', k.kind = Gallery
      PROVE  k \in Names(k.user)' \/ k \in erased'
  BY <1>1, <1>3, PhotosAssumption DEF Kept, Loses
<1>4. ASSUME k.user \in live', k.kind \in ProfileKinds
      PROVE  k \in Names(k.user)' \/ Accounted(k)'
  BY <1>1, <1>2, <1>4 DEF Kept, Loses, Accounted
<1>5. ASSUME k.user \notin live'
      PROVE  Excused(k)'
  BY <1>1, <1>2, <1>5 DEF Kept, Loses
<1> QED BY <1>3, <1>4, <1>5 DEF Kept

LEMMA RowsLast ==
    ASSUME Inv, NEW r \in Requests, Forward(r), Moves(r), TypeOK'
    PROVE  /\ \A u \in Users, kind \in ProfileKinds : PhotoRow(u, kind)'
           /\ \A g \in gallery' : GalleryRow(g)'
           /\ IsFiniteSet(gallery')
<1>1. erased \subseteq erased'
  BY DEF Moves
<1>2. ASSUME NEW u \in Users, NEW kind \in ProfileKinds PROVE PhotoRow(u, kind)'
  <2> SUFFICES ASSUME NEW k, k = photo'[u][kind], k # Null
               PROVE  u \in live' /\ k.user = u /\ k.kind = kind /\ Old(k)'
    BY DEF PhotoRow, Old
  <2>1. u \in live'
    BY DEF Moves
  <2>2. CASE k = photo[u][kind]
    <3>1. k.user = u /\ k.kind = kind /\ Old(k) /\ k \in Keys
      BY <2>2 DEF Inv, PhotoRow, TypeOK, Old
    <3> QED BY <1>1, <2>1, <3>1, Lasting
  <2>3. CASE Repoints(r, u, kind)
    <3>1. k = req[r].key /\ Recorded(r, req[r].key)'
      BY <2>3 DEF Repoints
    <3>2. k.user = u /\ k.kind = kind
      BY <2>3, <3>1 DEF Repoints, Inv, Sound, Own, Keeping
    <3>3. Recorded(r, k)'
      BY <2>3, <3>1 DEF Recorded, Repoints, Forward, At
    <3> QED BY <2>1, <3>2, <3>3 DEF Old
  <2> QED BY <2>2, <2>3 DEF Moves
<1>3. ASSUME NEW g \in gallery' PROVE GalleryRow(g)'
  <2>1. req'[g] \in Request /\ req[g] \in Request /\ g \in Requests
    BY DEF TypeOK, Inv
  <2>2. At(g, "add", "ok")' /\ req'[g].user = req[g].user /\ req[g].user \in Users
    <3>1. CASE g = r
      BY <3>1 DEF Moves, Forward, At, Inv, Sound, Own, Keeping, Mints
    <3>2. CASE g # r
      BY <2>1, <3>2 DEF Moves, Forward, At, Inv, GalleryRow, Sound, Own, Keeping, Mints
    <3> QED BY <3>1, <3>2
  <2> QED BY <2>2 DEF GalleryRow, Moves
<1>4. IsFiniteSet(gallery')
  <2>1. IsFiniteSet(gallery \cup {r})
    BY FS_AddElement DEF Inv
  <2> QED BY <2>1, FS_Subset DEF Moves
<1> QED BY <1>2, <1>3, <1>4

(* A step that moves and loses no more than that keeps the invariant, once *)
(* its own request is as it should be.                                     *)
LEMMA Step ==
    ASSUME Inv, NEW r \in Requests, Forward(r), Moves(r), Loses(r), TypeOK',
           bucket' \subseteq bucket, Linked', clock' # 0,
           Own(r)', Known(r)', Displacing(r)', Orphaned(r)', Counted(r)',
           Usable(r)' => Usable(r) \/ Kept(req[r].key)'
    PROVE  Inv'
<1>1. ASSUME NEW k \in Keys, Kept(k) PROVE Kept(k)'
  BY <1>1, KeptLasts
<1>2. \A k \in bucket' : Kept(k)'
  BY <1>1 DEF Inv, TypeOK
<1>3. ASSUME NEW q \in Requests, Usable(q), req'[q].key = req[q].key
      PROVE  Kept(req[q].key)'
  <2>1. PICK k : k = req[q].key
    OBVIOUS
  <2>2. k \in Keys /\ Kept(k)
    BY <1>3, <2>1 DEF Inv, Sound, Own, Holding, Usable, TypeOK, Request, Tables, Kept, Excused, Accounted, Displaced, Raced
  <2>3. Kept(k)'
    BY <1>1, <2>2
  <2> QED BY <1>3, <2>1, <2>3 DEF Kept, Excused, Accounted, Displaced, Raced
<1>4. ASSUME NEW q \in Requests, Usable(q)' PROVE Kept(req[q].key)'
  <2>1. CASE q = r /\ Usable(r)
    <3>1. req'[r].key = req[r].key
      BY <2>1 DEF Usable, Forward, Inv, Sound, Own, Holding, Keeping
    <3> QED BY <1>3, <2>1, <3>1
  <2>2. CASE q = r /\ ~Usable(r)
    BY <1>4, <2>2
  <2>3. CASE q # r
    BY <1>3, <1>4, <2>3 DEF Forward, Usable
  <2> QED BY <2>1, <2>2, <2>3
<1>5. \A q \in Requests : Own(q)' /\ Past(q)'
  BY OthersOwn DEF Moves
<1>6. \A q \in Requests : Known(q)' /\ Displacing(q)' /\ Orphaned(q)' /\ Counted(q)'
  BY OthersKnow, OthersDisplace, OthersOrphaned, OthersCounted
<1>7. \A q \in Requests : Sound(q)'
  BY <1>4, <1>5, <1>6 DEF Sound, Tables
<1>8. /\ \A u \in Users, kind \in ProfileKinds : PhotoRow(u, kind)'
      /\ \A g \in gallery' : GalleryRow(g)'
      /\ IsFiniteSet(gallery')
  BY RowsLast
<1> QED BY <1>2, <1>7, <1>8 DEF Inv

-----------------------------------------------------------------------------
(* Most steps leave the rows of users and photos alone.                    *)
LEMMA Quiet ==
    ASSUME Inv, NEW r \in Requests, Forward(r), UNCHANGED <<live, photo, gallery>>,
           erased \subseteq erased'
    PROVE  Moves(r) /\ Loses(r) /\ Before(r)' \subseteq gallery
<1>1. r \notin gallery
  BY DEF Inv, GalleryRow, Forward, At, Final
<1>2. \A g \in gallery : g \in Requests /\ req'[g] = req[g]
  BY <1>1 DEF Inv, TypeOK, Forward
<1>3. Moves(r)
  <2>1. \A u \in Users \ live : /\ \A kind \in ProfileKinds : photo[u][kind] = Null
                                /\ \A g \in gallery : req[g].user # u
    BY DEF Inv, PhotoRow, GalleryRow
  <2> QED BY <1>1, <2>1 DEF Moves
<1>4. Loses(r)
  <2>1. \A u \in Users, k \in Keys : k \in Names(u) => k \in Names(u)'
    BY <1>2 DEF Names, GalleryOf
  <2>2. \A k \in Keys : k.user \in Users
    BY DEF Keys
  <2> QED BY <2>1, <2>2 DEF Loses
<1> QED BY <1>3, <1>4 DEF Before

(* A request begins: what it has read so far is what there is.             *)
LEMMA Beginning ==
    ASSUME Inv, NEW r \in Requests, NEW local \in Request, Begin(r, local),
           UNCHANGED <<rows, objects, clock>>,
           local.op \in Ops, local.pc # "idle",
           local.op \in Mints => local.pc \in {"previous", "placement", "refused"},
           local.op = "replace" /\ local.pc = "previous" => local.user \in live,
           Own(r)', Known(r)', Counted(r)'
    PROVE  Inv'
<1> USE NullIsNothing
<1>1. TypeOK
  BY DEF Inv
<1>2. /\ \A q \in Requests \ {r} : req'[q] = req[q] /\ earlier'[q] = earlier[q]
      /\ req' \in [Requests -> Request] /\ earlier' \in [Requests -> SUBSET Requests]
      /\ req[r].pc = "idle" /\ req'[r] = local
      /\ earlier'[r] = {q \in Requests : req[q].pc \in Final}
      /\ mix' \in Mixes
  BY <1>1, BeginEffect
<1>3. Forward(r)
  <2>1. local.op # Null
    OBVIOUS
  <2> QED BY <1>2, <2>1 DEF Forward, Final, At
<1>4. TypeOK'
  BY <1>1, <1>2 DEF TypeOK, rows, objects
<1>5. Moves(r) /\ Loses(r)
  BY <1>3, Quiet DEF rows, objects
<1>6. Linked' /\ clock' # 0 /\ bucket' \subseteq bucket
  BY DEF Inv, Linked, MembershipsNameSchools, rows, objects
<1>7. Displacing(r)' /\ Orphaned(r)' /\ ~Usable(r)'
  BY <1>2 DEF Displacing, Orphaned, Usable, At, Mints, rows
<1> QED BY <1>3, <1>4, <1>5, <1>6, <1>7, Step

(* A request goes on, and leaves the rows alone.                           *)
LEMMA GoingOn ==
    ASSUME Inv, NEW r \in Requests, NEW local \in Request, Become(r, local),
           UNCHANGED <<live, photo, gallery>>, erased \subseteq erased',
           bucket' \subseteq bucket, erased' \in SUBSET Keys,
           place' \in [Users -> SUBSET Places], schools' \in SUBSET Schools,
           linked' \in SUBSET Places, clock' \in 0 .. MaxMs, clock' # 0, Linked',
           req[r].pc \in Steps, local.pc \in Steps \cup Final,
           local.op = req[r].op, local.user = req[r].user, local.kind = req[r].kind,
           req[r].key # Null => local.key = req[r].key,
           req[r].who \subseteq local.who,
           local.op = "replace" =>
              /\ req[r].pc # "previous" => local.keys = req[r].keys
              /\ local.pc \in {"previous", "record"} => req[r].pc = "previous"
              /\ req[r].pc = "displace" =>
                    /\ local.pc \in {"ok", "failed"}
                    /\ req[r].keys \subseteq erased' \/ r \in MayFail,
           local.op = "add" /\ local.pc \in {"placement", "insert", "ok"}
              => req[r].pc \in {"placement", "insert"},
           local.op \in Mints /\ local.pc \in {"displace", "ok"}
              => req[r].pc = "displace",
           Own(r)', Known(r)', Displacing(r)'
    PROVE  Inv'
<1> USE NullIsNothing
<1>1. TypeOK /\ Sound(r)
  BY DEF Inv
<1>2. /\ \A q \in Requests \ {r} : req'[q] = req[q] /\ earlier'[q] = earlier[q]
      /\ req' \in [Requests -> Request] /\ earlier' \in [Requests -> SUBSET Requests]
      /\ req'[r] = local /\ earlier'[r] = earlier[r]
      /\ mix' \in Mixes
  BY <1>1, BecomeEffect
<1>3. req[r].pc # "idle" /\ req[r].pc \notin Final /\ local.pc # "idle" /\ req[r].op # Null
  BY <1>1 DEF Steps, Final, Sound, Own, Keeping
<1>4. Forward(r)
  BY <1>2, <1>3 DEF Forward, At
<1>5. TypeOK'
  BY <1>1, <1>2 DEF TypeOK
<1>6. Moves(r) /\ Loses(r) /\ Before(r)' \subseteq gallery
  BY <1>4, Quiet
<1>7. Orphaned(r)'
  <2> SUFFICES ASSUME local.op = "replace", local.pc \in {"previous", "record"},
                      req[r].user \notin live
               PROVE  \E x \in Requests :
                        \/ req'[x].op \in Sweeps /\ req[r].user \in req'[x].who
                        \/ req'[x].op = "delete" /\ req'[x].user = req[r].user
                           /\ Overlap(r, x)'
    BY <1>2 DEF Orphaned, At
  <2>1. PICK x \in Requests :
          \/ req[x].op \in Sweeps /\ req[r].user \in req[x].who
          \/ req[x].op = "delete" /\ req[x].user = req[r].user /\ Overlap(r, x)
    BY <1>1 DEF Sound, Tables, Orphaned, At
  <2>2. req[x].op # Null
    BY <2>1 DEF Ops
  <2>3. /\ req'[x].op = req[x].op /\ req'[x].user = req[x].user
        /\ req[x].who \subseteq req'[x].who
    BY <1>4, <2>2, Staying
  <2>4. Overlap(r, x) => Overlap(r, x)'
    BY <1>3, <1>4, <2>2, Staying
  <2> QED BY <2>1, <2>3, <2>4
<1>8. Counted(r)'
  <2> SUFFICES ASSUME local.op = "add", local.pc \in {"placement", "insert", "ok"}
               PROVE  Cardinality(Before(r)') < Limit
    BY <1>2 DEF Counted
  <2>1. Cardinality(Before(r)) < Limit
    BY <1>1, <1>2 DEF Sound, Tables, Counted
  <2>2. \A g \in gallery : g \in Requests /\ req'[g] = req[g]
    BY <1>2, <1>3 DEF Inv, TypeOK, GalleryRow, At, Final
  <2>3. Before(r)' = Before(r)
    BY <1>2, <2>2 DEF Before
  <2> QED BY <2>1, <2>3
<1>9. Usable(r)' => Usable(r)
  BY <1>2 DEF Usable
<1> QED BY <1>4, <1>5, <1>6, <1>7, <1>8, <1>9, Step

-----------------------------------------------------------------------------
LEMMA Blank == /\ NoRequest \in Request /\ NoRequest.pc = "idle" /\ NoRequest.op = Null
               /\ NoRequest.key = Null /\ NoRequest.keys = {} /\ NoRequest.who = {}
               /\ NoRequest.region = {} /\ NoRequest.school = Null
               /\ NoRequest.user = Null
BY DEF NoRequest, Request

LEMMA GotoEffect ==
    ASSUME TypeOK, NEW r \in Requests, NEW pc \in Steps \cup Final, Goto(r, pc)
    PROVE  \E local \in Request :
              /\ Become(r, local) /\ req'[r] = local /\ local.pc = pc
              /\ local.op = req[r].op /\ local.user = req[r].user
              /\ local.kind = req[r].kind /\ local.key = req[r].key
              /\ local.keys = req[r].keys /\ local.who = req[r].who
              /\ local.row = req[r].row /\ local.region = req[r].region
              /\ local.school = req[r].school /\ local.folder = req[r].folder
<1>1. PICK q \in Request : q = req[r]
  BY DEF TypeOK
<1>2. PICK local : local = [q EXCEPT !.pc = pc]
  OBVIOUS
<1>3. /\ local \in Request /\ local.pc = pc
      /\ local.op = q.op /\ local.user = q.user /\ local.kind = q.kind
      /\ local.key = q.key /\ local.keys = q.keys /\ local.who = q.who
      /\ local.row = q.row /\ local.region = q.region
      /\ local.school = q.school /\ local.folder = q.folder
  BY <1>2 DEF Request
<1>4. Become(r, local)
  BY <1>1, <1>2 DEF Goto
<1>5. req'[r] = local
  BY <1>3, <1>4, BecomeEffect
<1> QED BY <1>1, <1>3, <1>4, <1>5

(* A request goes on, and only that.                                       *)
LEMMA GoingTo ==
    ASSUME Inv, NEW r \in Requests, NEW pc \in Steps \cup Final, Goto(r, pc),
           UNCHANGED <<live, photo, gallery, clock>>, erased \subseteq erased',
           bucket' \subseteq bucket, erased' \in SUBSET Keys,
           place' \in [Users -> SUBSET Places], schools' \in SUBSET Schools,
           linked' \in SUBSET Places, Linked',
           req[r].pc \in Steps,
           req[r].op \in Mints => pc \in Final,
           At(r, "replace", "displace") => req[r].keys \subseteq erased' \/ r \in MayFail,
           req[r].op \in Mints /\ pc = "ok" => At(r, "replace", "displace"),
           At(r, "replace", "displace") => pc # "refused",
           Own(r)', Known(r)'
    PROVE  Inv'
<1>1. TypeOK
  BY DEF Inv
<1>2. PICK local \in Request :
          /\ Become(r, local) /\ req'[r] = local /\ local.pc = pc
          /\ local.op = req[r].op /\ local.user = req[r].user
          /\ local.kind = req[r].kind /\ local.key = req[r].key
          /\ local.keys = req[r].keys /\ local.who = req[r].who
  BY <1>1, GotoEffect
<1>3. Displacing(r)'
  BY <1>2 DEF Displacing, At, Mints, Final
<1>4. clock' \in 0 .. MaxMs /\ clock' # 0
  BY DEF Inv, TypeOK
<1> QED BY <1>2, <1>3, <1>4, GoingOn DEF At, Mints, Final

(* A request goes on, whatever it does to the rows.                        *)
LEMMA GotoForward ==
    ASSUME Inv, NEW r \in Requests, NEW pc \in Steps \cup Final, Goto(r, pc),
           req[r].pc \in Steps, ~At(r, "replace", "displace")
    PROVE  /\ Forward(r) /\ req[r].op # Null /\ mix' \in Mixes
           /\ \A q \in Requests \ {r} : req'[q] = req[q]
           /\ earlier'[r] = earlier[r]
           /\ req' \in [Requests -> Request] /\ earlier' \in [Requests -> SUBSET Requests]
           /\ req'[r].pc = pc
           /\ req'[r].op = req[r].op /\ req'[r].user = req[r].user
           /\ req'[r].kind = req[r].kind /\ req'[r].key = req[r].key
           /\ req'[r].keys = req[r].keys /\ req'[r].who = req[r].who
           /\ req'[r].row = req[r].row /\ req'[r].region = req[r].region
           /\ req'[r].school = req[r].school /\ req'[r].folder = req[r].folder
<1>1. TypeOK
  BY DEF Inv
<1>2. PICK local \in Request :
              /\ Become(r, local) /\ req'[r] = local /\ local.pc = pc
              /\ local.op = req[r].op /\ local.user = req[r].user
              /\ local.kind = req[r].kind /\ local.key = req[r].key
              /\ local.keys = req[r].keys /\ local.who = req[r].who
              /\ local.row = req[r].row /\ local.region = req[r].region
              /\ local.school = req[r].school /\ local.folder = req[r].folder
  BY <1>1, GotoEffect
<1>3. /\ \A q \in Requests \ {r} : req'[q] = req[q] /\ earlier'[q] = earlier[q]
      /\ req' \in [Requests -> Request] /\ earlier' \in [Requests -> SUBSET Requests]
      /\ req'[r] = local /\ earlier'[r] = earlier[r]
      /\ mix' \in Mixes
  BY <1>1, <1>2, BecomeEffect
<1>4. req[r].pc \notin Final /\ req[r].pc # "idle" /\ req'[r].pc # "idle" /\ req[r].op # Null
  BY <1>2, <1>3 DEF Steps, Final, Inv, Sound, Own, Keeping
<1> QED BY <1>2, <1>3, <1>4 DEF Forward

(* createPhotoUploadUrl.                                                   *)
(* What a request that looks a row up starts with: no key.                  *)
LEMMA ReplaceBegins ==
    ASSUME TypeOK, NEW r \in Requests, ReplaceLookup(r)
    PROVE  \E local \in Request :
              /\ Begin(r, local) /\ local.op = "replace" /\ local.pc \in {"previous", "refused"}
              /\ local.user \in Users /\ local.kind \in ProfileKinds
              /\ local.pc = "previous" => local.user \in live /\ local.folder \in Folders
              /\ local.key = Null /\ local.keys = {} /\ local.who = {}
<1> USE NullIsNothing
<1>1. PICK u \in Users, k \in ProfileKinds :
        LET local == [NoRequest EXCEPT !.op = "replace", !.user = u, !.kind = k]
        IN  \/ /\ u \in live
               /\ \E f \in Placements(u) :
                     Begin(r, [local EXCEPT !.pc = "previous", !.folder = f])
            \/ /\ u \notin live
               /\ Begin(r, [local EXCEPT !.pc = "refused"])
  BY DEF ReplaceLookup
<1>2. PICK l : l = [NoRequest EXCEPT !.op = "replace", !.user = u, !.kind = k]
  OBVIOUS
<1>3. /\ l \in Request /\ l.op = "replace" /\ l.user = u /\ l.kind = k
      /\ l.key = Null /\ l.keys = {} /\ l.who = {}
  BY <1>2, Blank DEF Request, NoRequest, Ops, Mints, Kinds
<1>4. CASE u \in live
  <2>1. PICK f \in Placements(u) : Begin(r, [l EXCEPT !.pc = "previous", !.folder = f])
    BY <1>1, <1>2, <1>4
  <2>2. f \in Folders
    BY DEF Placements, Folders, TypeOK
  <2>3. PICK m : m = [l EXCEPT !.pc = "previous", !.folder = f]
    OBVIOUS
  <2>4. PICK pc \in Steps \cup Final : pc = "previous"
    BY DEF Steps
  <2>5. PICK g \in Folders \cup {Null} : g = f
    BY <2>2
  <2>6. l \in Request /\ m = [l EXCEPT !.pc = pc, !.folder = g]
    BY <1>3, <2>3, <2>4, <2>5
  <2>7. /\ m \in Request /\ m.pc = pc /\ m.folder = g /\ m.op = l.op
        /\ m.user = l.user /\ m.kind = l.kind /\ m.key = l.key /\ m.keys = l.keys
        /\ m.who = l.who
    BY <2>6 DEF Request
  <2> QED BY <1>3, <1>4, <2>1, <2>2, <2>3, <2>4, <2>5, <2>7
<1>5. CASE u \notin live
  <2>1. PICK m : m = [l EXCEPT !.pc = "refused"]
    OBVIOUS
  <2>2. /\ m \in Request /\ m.pc = "refused" /\ m.op = l.op
        /\ m.user = l.user /\ m.kind = l.kind /\ m.key = l.key /\ m.keys = l.keys
        /\ m.who = l.who
    BY <1>3, <2>1 DEF Request, Final
  <2> QED BY <1>1, <1>2, <1>3, <1>5, <2>1, <2>2
<1> QED BY <1>4, <1>5

LEMMA ReplaceLookupStep ==
    ASSUME Inv, NEW r \in Requests, ReplaceLookup(r),
           UNCHANGED <<rows, objects, clock>>
    PROVE  Inv'
<1> USE NullIsNothing
<1>1. TypeOK
  BY DEF Inv
<1>2. PICK local \in Request :
        /\ Begin(r, local) /\ local.op = "replace" /\ local.pc \in {"previous", "refused"}
        /\ local.user \in Users /\ local.kind \in ProfileKinds
        /\ local.pc = "previous" => local.user \in live /\ local.folder \in Folders
        /\ local.key = Null /\ local.keys = {} /\ local.who = {}
  BY <1>1, ReplaceBegins
<1>3. req'[r] = local
  BY <1>1, <1>2, BeginEffect
<1>4. Own(r)'
  BY <1>2, <1>3 DEF Own, Keeping, Holding, Finding, Sweeping, At, Mints, Sweeps, Ops
<1>5. Known(r)' /\ Counted(r)'
  BY <1>2, <1>3 DEF Known, Counted, At
<1> QED BY <1>2, <1>4, <1>5, Beginning DEF Ops, Mints

LEMMA ReplaceReadStep ==
    ASSUME Inv, NEW r \in Requests, ReplaceRead(r), UNCHANGED <<rows, objects>>
    PROVE  Inv'
<1> USE NullIsNothing
<1>1. TypeOK /\ Sound(r)
  BY DEF Inv
<1>2. PICK q : q = req[r]
  OBVIOUS
<1>3. /\ q.op = "replace" /\ q.pc = "previous" /\ q.who = {}
      /\ q.key = Null /\ q.keys = {} /\ q.folder \in Folders
      /\ q.user \in Users /\ q.kind \in ProfileKinds /\ q \in Request
  BY <1>1, <1>2 DEF ReplaceRead, At, Sound, Own, Keeping, Holding, Sweeping, Mints, Sweeps,
                    TypeOK
<1>4. PICK old : old = photo[q.user][q.kind]
  OBVIOUS
<1>5. old \in Keys \cup {Null}
      /\ (old # Null => old.user = q.user /\ old.kind = q.kind /\ Old(old))
  BY <1>1, <1>3, <1>4 DEF TypeOK, Inv, PhotoRow, Old, Recorded
<1>6. PICK t \in clock .. MaxMs, key \in {BuildKey(q.user, q.kind, q.folder, clock')} :
        /\ clock' = t
        /\ Become(r, [q EXCEPT !.pc = "record", !.key = key, !.keys = {old} \ {Null, key}])
  BY <1>2, <1>4 DEF ReplaceRead
<1>7. clock' \in 0 .. MaxMs /\ clock' # 0
  BY <1>1, <1>6, PhotosAssumption DEF Inv, TypeOK
<1>8. key \in Keys /\ key # Null /\ key.user = q.user /\ key.kind = q.kind /\ key.ms # 0
  BY <1>3, <1>6, <1>7 DEF BuildKey, Keys, Kinds
<1>9. PICK keys \in SUBSET Keys : keys = {old} \ {Null, key}
  BY <1>5
<1>10. PICK local : local = [q EXCEPT !.pc = "record", !.key = key, !.keys = keys]
  OBVIOUS
<1>11. /\ local \in Request /\ local.op = "replace" /\ local.pc = "record" /\ local.who = {}
       /\ local.user = q.user /\ local.kind = q.kind /\ local.key = key /\ local.keys = keys
  <2>1. PICK pc \in Steps \cup Final : pc = "record"
    BY DEF Steps
  <2>2. q \in Request /\ key \in Keys \cup {Null}
    BY <1>3, <1>8
  <2>3. /\ local \in Request /\ local.op = q.op /\ local.pc = pc /\ local.who = q.who
        /\ local.user = q.user /\ local.kind = q.kind /\ local.key = key /\ local.keys = keys
    BY <1>10, <2>1, <2>2 DEF Request
  <2> QED BY <1>3, <2>1, <2>3
<1>12. Become(r, local)
  BY <1>6, <1>9, <1>10
<1>13. req'[r] = local /\ (\A s \in Requests \ {r} : req'[s] = req[s])
  BY <1>1, <1>11, <1>12, BecomeEffect
<1>14. Own(r)'
  BY <1>3, <1>5, <1>8, <1>9, <1>11, <1>13
     DEF Own, Keeping, Holding, Finding, Sweeping, At, Mints, Sweeps, Ops
<1>15. Known(r)'
  <2>1. photo'[req'[r].user][req'[r].kind] = old
    BY <1>4, <1>11, <1>13 DEF rows
  <2> QED BY <1>9, <1>11, <1>13, <2>1 DEF Known, At
<1>16. ASSUME NEW k \in keys PROVE Old(k)'
  <2>1. CASE k.ms = 0
    BY <2>1 DEF Old
  <2>2. CASE \E s \in Requests : Recorded(s, k)
    <3>1. PICK s \in Requests : Recorded(s, k)
      BY <2>2
    <3>2. req'[s] = req[s]
      BY <1>2, <1>3, <1>13, <3>1 DEF Recorded
    <3> QED BY <3>1, <3>2 DEF Old, Recorded
  <2> QED BY <1>5, <1>9, <2>1, <2>2 DEF Old
<1>17. Displacing(r)'
  BY <1>11, <1>13, <1>16 DEF Displacing, At
<1>18. Linked'
  BY DEF Inv, Linked, MembershipsNameSchools, rows
<1> QED BY <1>1, <1>2, <1>3, <1>7, <1>8, <1>11, <1>12, <1>14, <1>15, <1>17, <1>18, GoingOn
        DEF rows, objects, Steps, TypeOK

LEMMA ReplaceDisplaceStep ==
    ASSUME Inv, NEW r \in Requests, ReplaceDisplace(r),
           UNCHANGED <<live, place, schools, linked, gallery, clock>>
    PROVE  Inv'
<1>1. TypeOK /\ Sound(r)
  BY DEF Inv
<1>2. PICK pc \in Steps \cup Final : pc = "ok"
  BY DEF Final
<1>3. PICK local \in Request :
          /\ Become(r, local) /\ req'[r] = local /\ local.pc = pc
          /\ local.op = req[r].op /\ local.user = req[r].user
          /\ local.kind = req[r].kind /\ local.key = req[r].key
          /\ local.keys = req[r].keys /\ local.who = req[r].who
  BY <1>1, <1>2, GotoEffect DEF ReplaceDisplace
<1>4. /\ req[r].op = "replace" /\ req[r].pc = "displace" /\ req[r].keys \subseteq Keys
      /\ erased \subseteq erased' /\ bucket' \subseteq bucket /\ erased' \in SUBSET Keys
      /\ req[r].keys \subseteq erased' \/ r \in MayFail
  BY <1>1 DEF ReplaceDisplace, At, Erase, objects, TypeOK, Request
<1>5. Own(r)'
  BY <1>1, <1>2, <1>3, <1>4 DEF Sound, Own, Keeping, Holding, Finding, Sweeping, At, Mints,
                                Sweeps, Ops
<1>6. Known(r)'
  BY <1>2, <1>3, <1>4 DEF Known, At
<1>7. Linked'
  BY DEF Inv, Linked, MembershipsNameSchools
<1>8. Goto(r, pc) /\ UNCHANGED photo
  BY <1>2 DEF ReplaceDisplace
<1> QED BY <1>1, <1>2, <1>4, <1>5, <1>6, <1>7, <1>8, GoingTo DEF TypeOK, Steps, Final, At, Mints

LEMMA ReplaceRecordStep ==
    ASSUME Inv, NEW r \in Requests, ReplaceRecord(r),
           UNCHANGED <<live, place, schools, linked, gallery, clock>>
    PROVE  Inv'
<1> USE NullIsNothing
<1>1. TypeOK /\ Sound(r)
  BY DEF Inv
<1> DEFINE u == req[r].user
           kind == req[r].kind
           key == req[r].key
<1>2. PICK pc \in Steps \cup Final : pc = IF req[r].keys = {} THEN "ok" ELSE "displace"
  BY DEF Steps, Final
<1>3. Goto(r, pc) /\ req[r].op = "replace" /\ req[r].pc = "record" /\ UNCHANGED objects
  BY <1>2 DEF ReplaceRecord, At
<1>4. /\ Forward(r) /\ req[r].op # Null /\ mix' \in Mixes
      /\ \A q \in Requests \ {r} : req'[q] = req[q]
      /\ earlier'[r] = earlier[r]
      /\ req' \in [Requests -> Request] /\ earlier' \in [Requests -> SUBSET Requests]
      /\ req'[r].pc = pc
      /\ req'[r].op = "replace" /\ req'[r].user = u
      /\ req'[r].kind = kind /\ req'[r].key = key
      /\ req'[r].keys = req[r].keys /\ req'[r].who = req[r].who
  BY <1>3, GotoForward DEF Steps, At
<1>5. /\ u \in Users /\ kind \in ProfileKinds /\ key \in Keys /\ key \notin req[r].keys
      /\ key.user = u /\ key.kind = kind /\ key.ms # 0 /\ req[r].keys \subseteq Keys
  <2>1. key \in Keys \cup {Null} /\ req[r].keys \subseteq Keys
    BY <1>1 DEF TypeOK, Request
  <2> QED BY <1>1, <1>3, <2>1 DEF Sound, Own, Keeping, Holding, Mints, At
<1>6. photo' = IF u \in live THEN [photo EXCEPT ![u][kind] = key] ELSE photo
  BY DEF ReplaceRecord
<1>7. photo' \in [Users -> [ProfileKinds -> Keys \cup {Null}]]
  BY <1>1, <1>5, <1>6 DEF TypeOK
<1>8. /\ u \in live => photo'[u][kind] = key
      /\ u \notin live => photo' = photo
      /\ \A v \in Users, k \in ProfileKinds :
            v # u \/ k # kind => photo'[v][k] = photo[v][k]
  BY <1>1, <1>5, <1>6 DEF TypeOK
<1> HIDE DEF u, kind, key
<1>9. TypeOK'
  BY <1>1, <1>3, <1>4, <1>7 DEF TypeOK, objects
<1>10. r \notin gallery /\ (\A g \in gallery : g \in Requests /\ req'[g] = req[g])
  BY <1>3, <1>4 DEF Inv, GalleryRow, At, TypeOK
<1>11. Recorded(r, key)'
  BY <1>2, <1>4 DEF Recorded, key
<1>12. Moves(r)
  <2>1. ASSUME NEW v \in Users, NEW k \in ProfileKinds
        PROVE  photo'[v][k] \in {photo[v][k], Null} \/ Repoints(r, v, k)
    BY <1>3, <1>8, <1>11 DEF Repoints, At, u, kind, key
  <2>2. ASSUME NEW v \in Users \ live
        PROVE  /\ \A k \in ProfileKinds : photo'[v][k] = Null
               /\ \A g \in gallery : req[g].user # v
    BY <1>8 DEF Inv, PhotoRow, GalleryRow
  <2> QED BY <1>3, <1>10, <2>1, <2>2 DEF Moves, objects
<1>13. PICK o : o = photo[u][kind]
  OBVIOUS
<1>14. o \in Keys \cup {Null} /\ (o # Null => u \in live /\ o.user = u /\ o.kind = kind)
  BY <1>1, <1>5, <1>13 DEF TypeOK, Inv, PhotoRow
<1>15. o = Null \/ o = key \/ Accounted(o)'
  <2> SUFFICES ASSUME o # key, o # Null PROVE Accounted(o)'
    OBVIOUS
  <2>1. CASE o \in req[r].keys
    BY <1>2, <1>4, <2>1 DEF Displaced, Accounted
  <2>2. CASE RacedWith(o, r)
    <3>1. Raced(o)
      BY <1>3, <1>14, <2>2 DEF RacedWith, Raced, u, kind
    <3>2. Accounted(o)
      BY <3>1 DEF Accounted
    <3> QED BY <1>4, <1>12, <1>14, <3>2, Lasting DEF Moves
  <2>3. o \in req[r].keys \cup {Null, key} \/ RacedWith(o, r)
    BY <1>1, <1>3, <1>13 DEF Sound, Tables, Known, RacedWith, At, u, kind, key
  <2> QED BY <2>1, <2>2, <2>3
<1>16. Loses(r)
  <2>1. ASSUME NEW k \in Keys, NEW v, v = k.user, k \in Names(v), v \in live
        PROVE  k \in Names(v)' \/ (k.kind \in ProfileKinds /\ Accounted(k)')
    <3>1. CASE \E g \in gallery : req[g].user = v /\ k = req[g].key
      BY <1>10, <2>1, <3>1 DEF Names, GalleryOf
    <3>2. CASE \E j \in ProfileKinds : k = photo[v][j] /\ (v # u \/ j # kind)
      BY <1>8, <2>1, <3>2 DEF Names, Keys
    <3>3. CASE k = o /\ v = u
      <4>1. CASE k = key
        <5>1. k = photo'[u][kind] /\ k # Null
          BY <1>8, <2>1, <3>3, <4>1
        <5> QED BY <1>5, <3>3, <5>1 DEF Names
      <4>2. CASE k # key
        BY <1>5, <1>14, <1>15, <3>3, <4>2
      <4> QED BY <4>1, <4>2
    <3> QED BY <1>13, <2>1, <3>1, <3>2, <3>3 DEF Names, GalleryOf
  <2>2. \A k \in Keys : k.user \in live /\ k \in Names(k.user)
            => k \in Names(k.user)' \/ (k.kind \in ProfileKinds /\ Accounted(k)')
    BY <2>1 DEF Names, GalleryOf
  <2> QED BY <2>2 DEF Loses
<1>17. Own(r)'
  BY <1>1, <1>2, <1>3, <1>4, <1>5
     DEF Sound, Own, Keeping, Holding, Finding, Sweeping, At, Mints, Sweeps, Ops, u, kind,
         key, objects
<1>18. Known(r)' /\ Orphaned(r)' /\ Counted(r)'
  BY <1>2, <1>4 DEF Known, Orphaned, Counted, At
<1>19. Displacing(r)'
  <2>1. ASSUME NEW k \in req[r].keys
        PROVE  Old(k)' /\ k # photo'[u][kind]
    <3>1. Old(k) /\ k \in Keys
      BY <1>1, <1>3, <1>5 DEF Sound, Tables, Displacing, At
    <3>2. k # photo'[u][kind]
      BY <1>5, <1>8, <1>14, <1>13, <3>1
    <3> QED BY <1>4, <1>12, <3>1, <3>2, Lasting DEF Moves
  <2> QED BY <1>4, <2>1 DEF Displacing
<1>20. ASSUME NEW k, k = key PROVE Kept(k)'
  <2>1. CASE u \in live
    <3>1. PICK v : v = u
      OBVIOUS
    <3>2. k = photo'[v][kind] /\ k # Null /\ k.user = v /\ k.kind = kind
      BY <1>5, <1>8, <1>20, <2>1, <3>1
    <3>3. k \in Names(v)'
      BY <1>5, <3>2 DEF Names
    <3>4. k \in Names(k.user)'
      BY <3>2, <3>3 DEF Names, GalleryOf
    <3>5. v \in live' /\ k.kind # Gallery
      BY <1>5, <2>1, <3>1, <3>2, PhotosAssumption
    <3> QED BY <3>2, <3>4, <3>5 DEF Kept
  <2>2. CASE u \notin live
    <3>1. PICK x \in Requests :
            \/ req[x].op \in Sweeps /\ u \in req[x].who
            \/ req[x].op = "delete" /\ req[x].user = u /\ Overlap(r, x)
      BY <1>1, <1>3, <2>2 DEF Sound, Tables, Orphaned, At, u
    <3>2. Excused(k)
      BY <1>3, <1>5, <1>20, <3>1 DEF Excused, Accounted, Raced, Mints, u, key
    <3>3. Excused(k)'
      BY <1>4, <1>5, <1>12, <1>20, <3>2, Lasting DEF Moves
    <3> QED BY <1>5, <1>20, <2>2, <3>3 DEF Kept
  <2> QED BY <2>1, <2>2
<1>21. Kept(req[r].key)'
  BY <1>4, <1>20 DEF Kept, Excused, Accounted, Displaced, Raced, Names, key
<1>22. Linked' /\ clock' # 0 /\ bucket' \subseteq bucket
  BY <1>3 DEF Inv, Linked, MembershipsNameSchools, objects
<1> QED BY <1>4, <1>9, <1>12, <1>16, <1>17, <1>18, <1>19, <1>21, <1>22, Step

(* deletePhoto.                                                            *)
LEMMA ClearLookupStep ==
    ASSUME Inv, NEW r \in Requests, ClearLookup(r), UNCHANGED <<rows, objects, clock>>
    PROVE  Inv'
<1> USE NullIsNothing
<1>1. TypeOK
  BY DEF Inv
<1>2. PICK u \in Users, k \in ProfileKinds :
          LET keys == {photo[u][k]} \ {Null}
          IN  Begin(r, [NoRequest EXCEPT
                !.op = "clear", !.user = u, !.kind = k, !.keys = keys,
                !.pc = IF u \notin live THEN "refused"
                       ELSE IF keys = {} THEN "record" ELSE "erase"])
  BY DEF ClearLookup
<1>3. PICK old : old = photo[u][k]
  OBVIOUS
<1>4. old \in Keys \cup {Null} /\ (old # Null => old.user = u /\ old.kind = k)
  BY <1>1, <1>3 DEF TypeOK, Inv, PhotoRow
<1>5. PICK keys \in SUBSET Keys : keys = {old} \ {Null}
  BY <1>4
<1>6. PICK pc \in Steps \cup Final :
          pc = IF u \notin live THEN "refused" ELSE IF keys = {} THEN "record" ELSE "erase"
  BY DEF Steps, Final
<1>7. PICK op \in Ops : op = "clear"
  BY DEF Ops
<1>8. PICK local : local = [NoRequest EXCEPT !.op = op, !.user = u, !.kind = k,
                                             !.keys = keys, !.pc = pc]
  OBVIOUS
<1>9. /\ local \in Request /\ local.op = op /\ local.user = u /\ local.kind = k
      /\ local.keys = keys /\ local.pc = pc /\ local.key = Null /\ local.who = {}
  BY <1>8, Blank DEF Request, Kinds
<1>10. Begin(r, local)
  BY <1>2, <1>3, <1>5, <1>6, <1>7, <1>8
<1>11. req'[r] = local
  BY <1>1, <1>9, <1>10, BeginEffect
<1>12. Own(r)'
  BY <1>4, <1>5, <1>6, <1>7, <1>9, <1>11
     DEF Own, Keeping, Holding, Finding, Sweeping, At, Mints, Sweeps, Ops
<1>13. Known(r)'
  <2>1. photo'[req'[r].user][req'[r].kind] = old
    BY <1>3, <1>9, <1>11 DEF rows
  <2> QED BY <1>5, <1>7, <1>9, <1>11, <2>1 DEF Known, At
<1>14. Counted(r)'
  BY <1>7, <1>9, <1>11 DEF Counted
<1>15. pc # "idle"
  BY <1>6
<1> QED BY <1>7, <1>9, <1>10, <1>12, <1>13, <1>14, <1>15, Beginning DEF Mints

LEMMA ClearEraseStep ==
    ASSUME Inv, NEW r \in Requests, ClearErase(r),
           UNCHANGED <<live, place, schools, linked, photo, gallery, clock>>
    PROVE  Inv'
<1>1. TypeOK /\ Sound(r)
  BY DEF Inv
<1>2. PICK pc \in Steps \cup Final : pc = "record"
  BY DEF Steps
<1>3. Goto(r, pc) /\ req[r].op = "clear" /\ req[r].pc = "erase"
  BY <1>2 DEF ClearErase, At
<1>4. /\ erased \subseteq erased' /\ bucket' \subseteq bucket /\ erased' \in SUBSET Keys
      /\ req[r].keys \subseteq erased'
  BY <1>1 DEF ClearErase, Erase, TypeOK, Request
<1>5. /\ Forward(r) /\ req'[r].pc = pc
      /\ req'[r].op = "clear" /\ req'[r].user = req[r].user
      /\ req'[r].kind = req[r].kind /\ req'[r].key = req[r].key
      /\ req'[r].keys = req[r].keys /\ req'[r].who = req[r].who
  BY <1>3, GotoForward DEF Steps, At
<1>6. Own(r)'
  BY <1>1, <1>2, <1>3, <1>4, <1>5
     DEF Sound, Own, Keeping, Holding, Finding, Sweeping, At, Mints, Sweeps, Ops
<1>7. Known(r)'
  <2>1. PICK old : old = photo[req[r].user][req[r].kind]
    OBVIOUS
  <2>2. old \in req[r].keys \cup {Null} \/ RacedWith(old, r)
    BY <1>1, <1>3, <2>1 DEF Sound, Tables, Known, At, RacedWith
  <2>3. old \in Keys \cup {Null} /\ req[r].op # Null
    BY <1>1, <1>3, <2>1, NullIsNothing
       DEF TypeOK, Sound, Own, Keeping, Ops, Mints
  <2>4. old \in Keys /\ RacedWith(old, r) => RacedWith(old, r)'
    BY <1>4, <1>5, <2>3, Lasting
  <2>5. old \in req[r].keys \cup {Null} \/ RacedWith(old, r)'
    BY <2>2, <2>3, <2>4
  <2>6. photo'[req'[r].user][req'[r].kind] = old
    BY <1>5, <2>1
  <2> QED BY <1>2, <1>5, <2>5, <2>6 DEF Known, At, RacedWith
<1>8. Linked'
  BY DEF Inv, Linked, MembershipsNameSchools
<1> QED BY <1>1, <1>2, <1>3, <1>4, <1>6, <1>7, <1>8, GoingTo DEF TypeOK, Steps, At, Mints

LEMMA ClearRecordStep ==
    ASSUME Inv, NEW r \in Requests, ClearRecord(r),
           UNCHANGED <<live, place, schools, linked, gallery, clock, objects>>
    PROVE  Inv'
<1> USE NullIsNothing
<1>1. TypeOK /\ Sound(r)
  BY DEF Inv
<1>2. PICK pc \in Steps \cup Final : pc = "ok"
  BY DEF Final
<1>3. Goto(r, pc) /\ req[r].op = "clear" /\ req[r].pc = "record"
  BY <1>2 DEF ClearRecord, At
<1>4. /\ Forward(r) /\ req[r].op # Null /\ mix' \in Mixes
      /\ \A q \in Requests \ {r} : req'[q] = req[q]
      /\ earlier'[r] = earlier[r]
      /\ req' \in [Requests -> Request] /\ earlier' \in [Requests -> SUBSET Requests]
      /\ req'[r].pc = pc
      /\ req'[r].op = "clear" /\ req'[r].user = req[r].user
      /\ req'[r].kind = req[r].kind /\ req'[r].key = req[r].key
      /\ req'[r].keys = req[r].keys /\ req'[r].who = req[r].who
  BY <1>3, GotoForward DEF Steps, At
<1>5. PICK u \in Users, kind \in ProfileKinds : u = req[r].user /\ kind = req[r].kind
  BY <1>1, <1>3 DEF Sound, Own, Keeping, Mints
<1>6. photo' = [photo EXCEPT ![u][kind] = Null]
  BY <1>5 DEF ClearRecord
<1>7. /\ photo' \in [Users -> [ProfileKinds -> Keys \cup {Null}]]
      /\ photo'[u][kind] = Null
      /\ \A v \in Users, k \in ProfileKinds :
            v # u \/ k # kind => photo'[v][k] = photo[v][k]
  BY <1>1, <1>6 DEF TypeOK
<1>8. TypeOK'
  BY <1>1, <1>4, <1>7 DEF TypeOK, objects
<1>9. r \notin gallery /\ (\A g \in gallery : g \in Requests /\ req'[g] = req[g])
  BY <1>3, <1>4 DEF Inv, GalleryRow, At, TypeOK
<1>10. Moves(r)
  <2>1. ASSUME NEW v \in Users, NEW k \in ProfileKinds
        PROVE  photo'[v][k] \in {photo[v][k], Null}
    BY <1>7
  <2>2. ASSUME NEW v \in Users \ live
        PROVE  /\ \A k \in ProfileKinds : photo'[v][k] = Null
               /\ \A g \in gallery : req[g].user # v
    BY <2>1 DEF Inv, PhotoRow, GalleryRow
  <2> QED BY <1>9, <2>1, <2>2 DEF Moves, objects
<1>11. PICK o : o = photo[u][kind]
  OBVIOUS
<1>12. o \in Keys \cup {Null} /\ (o # Null => u \in live /\ o.user = u /\ o.kind = kind)
  BY <1>1, <1>11 DEF TypeOK, Inv, PhotoRow
<1>13. o = Null \/ Accounted(o)'
  <2> SUFFICES ASSUME o # Null PROVE Accounted(o)'
    OBVIOUS
  <2>1. CASE o \in req[r].keys
    <3>1. o \in erased
      BY <1>1, <1>3, <2>1 DEF Sound, Own, Holding, At
    <3> QED BY <3>1 DEF Accounted, objects
  <2>2. CASE RacedWith(o, r)
    <3>1. Raced(o)
      BY <1>3, <1>5, <1>12, <2>2 DEF RacedWith, Raced
    <3>2. Accounted(o)
      BY <3>1 DEF Accounted
    <3> QED BY <1>4, <1>10, <1>12, <3>2, Lasting DEF Moves
  <2>3. o \in req[r].keys \cup {Null} \/ RacedWith(o, r)
    BY <1>1, <1>3, <1>5, <1>11 DEF Sound, Tables, Known, RacedWith, At
  <2> QED BY <2>1, <2>2, <2>3
<1>14. Loses(r)
  <2>1. ASSUME NEW k \in Keys, NEW v, v = k.user, k \in Names(v)
        PROVE  k \in Names(v)' \/ (k.kind \in ProfileKinds /\ Accounted(k)')
    <3>1. CASE \E g \in gallery : req[g].user = v /\ k = req[g].key
      BY <1>9, <2>1, <3>1 DEF Names, GalleryOf
    <3>2. CASE \E j \in ProfileKinds : k = photo[v][j] /\ (v # u \/ j # kind)
      BY <1>7, <2>1, <3>2 DEF Names, Keys
    <3>3. CASE k = o /\ v = u
      BY <1>12, <1>13, <3>3
    <3> QED BY <1>11, <2>1, <3>1, <3>2, <3>3 DEF Names, GalleryOf
  <2>2. \A k \in Keys : k \in Names(k.user)
            => k \in Names(k.user)' \/ (k.kind \in ProfileKinds /\ Accounted(k)')
    BY <2>1 DEF Names, GalleryOf
  <2> QED BY <2>2 DEF Loses
<1>15. Own(r)'
  BY <1>1, <1>2, <1>3, <1>4
     DEF Sound, Own, Keeping, Holding, Finding, Sweeping, At, Mints, Sweeps, Ops, objects
<1>16. Known(r)' /\ Displacing(r)' /\ Orphaned(r)' /\ Counted(r)' /\ ~Usable(r)'
  BY <1>2, <1>4 DEF Known, Displacing, Orphaned, Counted, Usable, At, Mints
<1>17. Linked' /\ clock' # 0 /\ bucket' \subseteq bucket
  BY DEF Inv, Linked, MembershipsNameSchools, objects
<1> QED BY <1>4, <1>8, <1>10, <1>14, <1>15, <1>16, <1>17, Step

(* createGalleryUploadUrl.                                                 *)
LEMMA AddCountStep ==
    ASSUME Inv, NEW r \in Requests, AddCount(r), UNCHANGED <<rows, objects, clock>>
    PROVE  Inv'
<1> USE NullIsNothing
<1>1. TypeOK
  BY DEF Inv
<1>2. PICK u \in Users :
        Begin(r, [NoRequest EXCEPT
            !.op = "add", !.user = u, !.kind = Gallery,
            !.pc = IF Cardinality(GalleryOf(u)) >= Limit
                     THEN "refused" ELSE "placement"])
  BY DEF AddCount
<1>3. PICK pc \in Steps \cup Final :
          pc = IF Cardinality(GalleryOf(u)) >= Limit THEN "refused" ELSE "placement"
  BY DEF Steps, Final
<1>4. PICK op \in Ops : op = "add"
  BY DEF Ops, Mints
<1>5. PICK local : local = [NoRequest EXCEPT !.op = op, !.user = u, !.kind = Gallery,
                                             !.pc = pc]
  OBVIOUS
<1>6. /\ local \in Request /\ local.op = op /\ local.user = u /\ local.kind = Gallery
      /\ local.keys = {} /\ local.pc = pc /\ local.key = Null /\ local.who = {}
  BY <1>5, Blank DEF Request, Kinds
<1>7. Begin(r, local)
  BY <1>2, <1>3, <1>4, <1>5
<1>8. req'[r] = local /\ (\A q \in Requests \ {r} : req'[q] = req[q]) /\ req[r].pc = "idle"
  BY <1>1, <1>6, <1>7, BeginEffect
<1>9. Own(r)'
  BY <1>3, <1>4, <1>6, <1>8
     DEF Own, Keeping, Holding, Finding, Sweeping, At, Mints, Sweeps, Ops
<1>10. Known(r)'
  BY <1>4, <1>6, <1>8 DEF Known, At
<1>11. Counted(r)'
  <2> SUFFICES ASSUME ~ Cardinality(GalleryOf(u)) >= Limit
               PROVE  Cardinality(Before(r)') < Limit
    BY <1>3, <1>6, <1>8 DEF Counted
  <2>1. \A g \in gallery : g \in Requests /\ req'[g] = req[g]
    BY <1>8 DEF Inv, TypeOK, GalleryRow, At
  <2>2. Before(r)' \subseteq GalleryOf(u)
    BY <1>6, <1>8, <2>1 DEF Before, GalleryOf, rows
  <2>3. IsFiniteSet(GalleryOf(u))
    BY FS_Subset DEF GalleryOf, Inv
  <2>4. /\ Cardinality(Before(r)') <= Cardinality(GalleryOf(u))
        /\ Cardinality(Before(r)') \in Nat /\ Cardinality(GalleryOf(u)) \in Nat
    BY <2>2, <2>3, FS_Subset, FS_CardinalityType
  <2> QED BY <2>4, PhotosAssumption
<1>12. pc \in {"placement", "refused"}
  BY <1>3
<1> QED BY <1>4, <1>6, <1>7, <1>9, <1>10, <1>11, <1>12, Beginning DEF Mints

LEMMA AddPlacementStep ==
    ASSUME Inv, NEW r \in Requests, AddPlacement(r), UNCHANGED <<rows, objects>>
    PROVE  Inv'
<1> USE NullIsNothing
<1>1. TypeOK /\ Sound(r)
  BY DEF Inv
<1>2. PICK q \in Request : q = req[r]
  BY <1>1 DEF TypeOK
<1>3. q.op = "add" /\ q.pc = "placement" /\ q.user \in Users /\ q.kind = Gallery
  BY <1>1, <1>2 DEF AddPlacement, At, Sound, Own, Keeping, Mints
<1>4. q.who = {} /\ (q.key # Null => q.key.ms # 0 /\ q.key.user = q.user
                                     /\ q.key.kind = q.kind)
  BY <1>1, <1>2, <1>3 DEF Sound, Own, Keeping, Sweeping, Sweeps
<1>5. \A k \in q.keys : k.user = q.user
  BY <1>1, <1>2, <1>3 DEF Sound, Own, Holding, Ops, Mints, Sweeps
<1>6. Linked'
  BY DEF Inv, Linked, MembershipsNameSchools, rows
<1>7. CASE q.user \in live
  <2>1. PICK f \in Placements(q.user), t \in clock .. MaxMs :
            /\ clock' = t
            /\ Become(r, [q EXCEPT !.pc = "insert", !.folder = f,
                                   !.key = BuildKey(q.user, q.kind, f, t)])
    BY <1>2, <1>7 DEF AddPlacement
  <2>2. f \in Folders
    BY <1>1, <1>3 DEF Placements, Folders, TypeOK
  <2>3. clock' \in 0 .. MaxMs /\ clock' # 0
    BY <1>1, <2>1, PhotosAssumption DEF Inv, TypeOK
  <2>4. PICK key : key = BuildKey(q.user, q.kind, f, t)
    OBVIOUS
  <2>5. key \in Keys /\ key # Null /\ key.user = q.user /\ key.kind = q.kind /\ key.ms # 0
    BY <1>3, <2>1, <2>2, <2>3, <2>4 DEF BuildKey, Keys, Kinds
  <2>6. PICK pc \in Steps \cup Final : pc = "insert"
    BY DEF Steps
  <2>7. PICK local : local = [q EXCEPT !.pc = pc, !.folder = f, !.key = key]
    OBVIOUS
  <2>8. /\ local \in Request /\ local.op = q.op /\ local.pc = pc /\ local.who = q.who
        /\ local.user = q.user /\ local.kind = q.kind /\ local.key = key
        /\ local.keys = q.keys
    BY <2>2, <2>5, <2>7 DEF Request
  <2>9. Become(r, local)
    BY <2>1, <2>4, <2>6, <2>7
  <2>10. req'[r] = local
    BY <1>1, <2>8, <2>9, BecomeEffect
  <2>11. Own(r)'
    BY <1>3, <1>4, <1>5, <2>5, <2>6, <2>8, <2>10
       DEF Own, Keeping, Holding, Finding, Sweeping, At, Mints, Sweeps, Ops
  <2>12. Known(r)' /\ Displacing(r)'
    BY <1>3, <2>6, <2>8, <2>10 DEF Known, Displacing, At
  <2>13. q.key = Null
    BY <1>1, <1>2, <1>3 DEF Sound, Own, Holding, At
  <2> QED BY <1>1, <1>2, <1>3, <1>6, <2>3, <2>6, <2>8, <2>9, <2>11, <2>12, <2>13, GoingOn
          DEF rows, objects, Steps, TypeOK
<1>8. CASE q.user \notin live
  <2>1. PICK pc \in Steps \cup Final : pc = "refused"
    BY DEF Final
  <2>2. Goto(r, pc) /\ UNCHANGED clock
    BY <1>2, <1>8, <2>1 DEF AddPlacement
  <2>3. /\ req'[r].pc = pc
        /\ req'[r].op = req[r].op /\ req'[r].user = req[r].user
        /\ req'[r].kind = req[r].kind /\ req'[r].key = req[r].key
        /\ req'[r].keys = req[r].keys /\ req'[r].who = req[r].who
    BY <1>2, <1>3, <2>2, GotoForward DEF Steps, At
  <2>4. Own(r)'
    BY <1>2, <1>3, <1>4, <1>5, <2>1, <2>3
       DEF Own, Keeping, Holding, Finding, Sweeping, At, Mints, Sweeps, Ops
  <2>5. Known(r)'
    BY <1>2, <1>3, <2>3 DEF Known, At
  <2> QED BY <1>1, <1>2, <1>3, <1>6, <2>1, <2>2, <2>4, <2>5, GoingTo
          DEF rows, objects, TypeOK, Steps, Final, At, Mints
<1> QED BY <1>7, <1>8

LEMMA AddInsertStep ==
    ASSUME Inv, NEW r \in Requests, AddInsert(r),
           UNCHANGED <<live, place, schools, linked, photo, clock, objects>>
    PROVE  Inv'
<1> USE NullIsNothing
<1>1. TypeOK /\ Sound(r)
  BY DEF Inv
<1>2. req[r].op = "add" /\ req[r].pc = "insert"
  BY DEF AddInsert, At
<1>3. PICK pc \in Steps \cup Final : pc = IF req[r].user \in live THEN "ok" ELSE "failed"
  BY DEF Final
<1>4. Goto(r, pc)
  BY <1>3 DEF AddInsert
<1>5. /\ Forward(r) /\ req[r].op # Null /\ mix' \in Mixes
      /\ \A q \in Requests \ {r} : req'[q] = req[q]
      /\ earlier'[r] = earlier[r]
      /\ req' \in [Requests -> Request] /\ earlier' \in [Requests -> SUBSET Requests]
      /\ req'[r].pc = pc
      /\ req'[r].op = "add" /\ req'[r].user = req[r].user
      /\ req'[r].kind = req[r].kind /\ req'[r].key = req[r].key
      /\ req'[r].keys = req[r].keys /\ req'[r].who = req[r].who
  BY <1>2, <1>4, GotoForward DEF Steps, At
<1>6. Own(r)'
  BY <1>1, <1>2, <1>3, <1>5
     DEF Sound, Own, Keeping, Holding, Finding, Sweeping, At, Mints, Sweeps, Ops
<1>7. Known(r)' /\ Displacing(r)' /\ Orphaned(r)'
  BY <1>5 DEF Known, Displacing, Orphaned, At
<1>8. Linked' /\ clock' # 0 /\ bucket' \subseteq bucket
  BY DEF Inv, Linked, MembershipsNameSchools, objects
<1>9. CASE req[r].user \notin live
  <2>1. UNCHANGED gallery
    BY <1>9 DEF AddInsert
  <2> QED BY <1>1, <1>2, <1>3, <1>4, <1>6, <1>7, <1>8, <1>9, <2>1, GoingTo
          DEF TypeOK, objects, Steps, Final, At, Mints
<1>10. CASE req[r].user \in live
  <2>1. gallery' = gallery \cup {r}
    BY <1>10 DEF AddInsert
  <2>2. \A g \in gallery : g \in Requests /\ req'[g] = req[g] /\ g # r
    BY <1>2, <1>5 DEF Inv, GalleryRow, At, TypeOK
  <2>3. TypeOK'
    BY <1>1, <1>5, <2>1 DEF TypeOK, objects
  <2>4. Moves(r)
    <3>1. \A v \in Users \ live : /\ \A k \in ProfileKinds : photo[v][k] = Null
                                  /\ \A g \in gallery : req[g].user # v
      BY DEF Inv, PhotoRow, GalleryRow
    <3> QED BY <1>2, <1>3, <1>5, <1>10, <2>1, <3>1 DEF Moves, objects, At
  <2>5. \A u \in Users, k \in Keys : k \in Names(u) => k \in Names(u)'
    BY <2>1, <2>2 DEF Names, GalleryOf
  <2>6. Loses(r)
    BY <2>5 DEF Loses, Keys
  <2>7. Counted(r)'
    <3>1. Cardinality(Before(r)) < Limit /\ r \notin earlier[r]
      BY <1>1, <1>2 DEF Sound, Tables, Counted, Past
    <3>2. Before(r)' = Before(r)
      BY <1>5, <2>1, <2>2, <3>1 DEF Before
    <3> QED BY <3>1, <3>2 DEF Counted
  <2>8. PICK k \in Keys : k = req[r].key /\ k.user = req[r].user /\ k.kind = Gallery
    <3>1. req[r].key \in Keys \cup {Null}
      BY <1>1 DEF TypeOK, Request
    <3> QED BY <1>1, <1>2, <3>1 DEF Sound, Own, Keeping, Holding, Mints
  <2>9. PICK v \in Users : v = k.user
    BY DEF Keys
  <2>10. k \in Names(v)'
    BY <1>5, <2>1, <2>8, <2>9 DEF Names, GalleryOf
  <2>11. Kept(k)'
    BY <1>10, <2>8, <2>9, <2>10, PhotosAssumption DEF Kept, Names, GalleryOf
  <2>12. Kept(req[r].key)'
    BY <1>5, <2>8, <2>11 DEF Kept, Excused, Accounted, Displaced, Raced, Names, GalleryOf
  <2> QED BY <1>5, <1>6, <1>7, <1>8, <2>3, <2>4, <2>6, <2>7, <2>12, Step
<1> QED BY <1>9, <1>10

(* deleteGalleryPhoto.                                                     *)
LEMMA RemoveLookupStep ==
    ASSUME Inv, NEW r \in Requests, RemoveLookup(r), UNCHANGED <<rows, objects, clock>>
    PROVE  Inv'
<1> USE NullIsNothing
<1>1. TypeOK
  BY DEF Inv
<1>2. PICK op \in Ops : op = "remove"
  BY DEF Ops
<1>3. PICK u \in Users :
        LET local == [NoRequest EXCEPT !.op = "remove", !.user = u, !.kind = Gallery]
        IN  \/ \E g \in GalleryOf(u) :
                  Begin(r, [local EXCEPT !.pc = "erase", !.row = g, !.keys = {req[g].key}])
            \/ Begin(r, [local EXCEPT !.pc = "refused"])
  BY DEF RemoveLookup
<1>4. PICK l : l = [NoRequest EXCEPT !.op = op, !.user = u, !.kind = Gallery]
  OBVIOUS
<1>5. /\ l \in Request /\ l.op = op /\ l.user = u /\ l.kind = Gallery
      /\ l.key = Null /\ l.keys = {} /\ l.who = {}
  BY <1>4, Blank DEF Request, Kinds
<1>6. ASSUME NEW m \in Request, Begin(r, m), m.op = op, m.user = u, m.kind = Gallery,
             m.key = Null, m.who = {}, m.pc \in {"erase", "refused"},
             \A k \in m.keys : k.user = u,
             m.pc = "erase" => /\ m.row \in gallery /\ req[m.row].key \in m.keys
      PROVE  Inv'
  <2>1. req'[r] = m /\ (\A q \in Requests \ {r} : req'[q] = req[q]) /\ req[r].pc = "idle"
    BY <1>1, <1>6, BeginEffect
  <2>2. \A g \in gallery : /\ g \in Requests /\ req'[g] = req[g]
                           /\ req[g].op = "add" /\ req[g].pc = "ok"
    BY <2>1 DEF Inv, TypeOK, GalleryRow, At
  <2>3. Finding(r)'
    BY <1>6, <2>1, <2>2 DEF Finding, At
  <2>4. Own(r)'
    BY <1>2, <1>6, <2>1, <2>3
       DEF Own, Keeping, Holding, Sweeping, At, Mints, Sweeps, Ops
  <2>5. Known(r)' /\ Counted(r)'
    BY <1>2, <1>6, <2>1 DEF Known, Counted, At
  <2> QED BY <1>2, <1>6, <2>4, <2>5, Beginning DEF Mints
<1>7. CASE \E g \in GalleryOf(u) :
              Begin(r, [l EXCEPT !.pc = "erase", !.row = g, !.keys = {req[g].key}])
  <2>1. PICK g \in GalleryOf(u) :
              Begin(r, [l EXCEPT !.pc = "erase", !.row = g, !.keys = {req[g].key}])
    BY <1>7
  <2>2. g \in gallery /\ g \in Requests /\ req[g].user = u /\ req[g].op = "add"
        /\ req[g].pc = "ok"
    BY <1>1 DEF GalleryOf, TypeOK, Inv, GalleryRow, At
  <2>3. PICK k \in Keys : k = req[g].key /\ k.user = u
    <3>1. req[g].key \in Keys \cup {Null}
      BY <1>1, <2>2 DEF TypeOK, Request
    <3> QED BY <2>2, <3>1 DEF Inv, Sound, Own, Holding, Keeping, Mints
  <2>4. PICK pc \in Steps \cup Final : pc = "erase"
    BY DEF Steps
  <2>5. PICK m : m = [l EXCEPT !.pc = pc, !.row = g, !.keys = {k}]
    OBVIOUS
  <2>6. /\ m \in Request /\ m.op = l.op /\ m.user = l.user /\ m.kind = l.kind
        /\ m.key = l.key /\ m.who = l.who /\ m.pc = pc /\ m.row = g /\ m.keys = {k}
    BY <1>5, <2>2, <2>5 DEF Request
  <2> QED BY <1>5, <1>6, <2>1, <2>2, <2>3, <2>4, <2>5, <2>6
<1>8. CASE Begin(r, [l EXCEPT !.pc = "refused"])
  <2>1. PICK pc \in Steps \cup Final : pc = "refused"
    BY DEF Final
  <2>2. PICK m : m = [l EXCEPT !.pc = pc]
    OBVIOUS
  <2>3. /\ m \in Request /\ m.op = l.op /\ m.user = l.user /\ m.kind = l.kind
        /\ m.key = l.key /\ m.who = l.who /\ m.pc = pc /\ m.keys = l.keys
    BY <1>5, <2>2 DEF Request
  <2> QED BY <1>5, <1>6, <1>8, <2>1, <2>2, <2>3
<1> QED BY <1>2, <1>3, <1>4, <1>7, <1>8

LEMMA RemoveEraseStep ==
    ASSUME Inv, NEW r \in Requests, RemoveErase(r),
           UNCHANGED <<live, place, schools, linked, photo, gallery, clock>>
    PROVE  Inv'
<1>1. TypeOK /\ Sound(r)
  BY DEF Inv
<1>2. PICK pc \in Steps \cup Final : pc = "unlist"
  BY DEF Steps
<1>3. Goto(r, pc) /\ req[r].op = "remove" /\ req[r].pc = "erase"
  BY <1>2 DEF RemoveErase, At
<1>4. /\ erased \subseteq erased' /\ bucket' \subseteq bucket /\ erased' \in SUBSET Keys
      /\ req[r].keys \subseteq erased'
  BY <1>1 DEF RemoveErase, Erase, TypeOK, Request
<1>5. /\ Forward(r) /\ req'[r].pc = pc
      /\ \A q \in Requests \ {r} : req'[q] = req[q]
      /\ req'[r].op = "remove" /\ req'[r].user = req[r].user
      /\ req'[r].kind = req[r].kind /\ req'[r].key = req[r].key
      /\ req'[r].keys = req[r].keys /\ req'[r].who = req[r].who /\ req'[r].row = req[r].row
  BY <1>3, GotoForward DEF Steps, At
<1>6. Finding(r)'
  <2>1. /\ req[r].row \in Requests /\ At(req[r].row, "add", "ok")
        /\ req[req[r].row].key \in req[r].keys
    BY <1>1, <1>3 DEF Sound, Own, Finding, At
  <2>2. req[r].row # r
    BY <1>3, <2>1 DEF At
  <2> QED BY <1>5, <2>1, <2>2 DEF Finding, At
<1>7. Own(r)'
  BY <1>1, <1>2, <1>3, <1>4, <1>5, <1>6
     DEF Sound, Own, Keeping, Holding, Sweeping, At, Mints, Sweeps, Ops
<1>8. Known(r)'
  BY <1>5 DEF Known, At
<1>9. Linked'
  BY DEF Inv, Linked, MembershipsNameSchools
<1> QED BY <1>1, <1>2, <1>3, <1>4, <1>7, <1>8, <1>9, GoingTo DEF TypeOK, Steps, At, Mints

LEMMA RemoveUnlistStep ==
    ASSUME Inv, NEW r \in Requests, RemoveUnlist(r),
           UNCHANGED <<live, place, schools, linked, photo, clock, objects>>
    PROVE  Inv'
<1> USE NullIsNothing
<1>1. TypeOK /\ Sound(r)
  BY DEF Inv
<1>2. PICK pc \in Steps \cup Final : pc = "ok"
  BY DEF Final
<1>3. Goto(r, pc) /\ req[r].op = "remove" /\ req[r].pc = "unlist"
  BY <1>2 DEF RemoveUnlist, At
<1>4. /\ Forward(r) /\ req[r].op # Null /\ mix' \in Mixes
      /\ \A q \in Requests \ {r} : req'[q] = req[q]
      /\ earlier'[r] = earlier[r]
      /\ req' \in [Requests -> Request] /\ earlier' \in [Requests -> SUBSET Requests]
      /\ req'[r].pc = pc
      /\ req'[r].op = "remove" /\ req'[r].user = req[r].user
      /\ req'[r].kind = req[r].kind /\ req'[r].key = req[r].key
      /\ req'[r].keys = req[r].keys /\ req'[r].who = req[r].who
  BY <1>3, GotoForward DEF Steps, At
<1>5. req[req[r].row].key \in erased /\ gallery' = gallery \ {req[r].row}
  BY <1>1, <1>3 DEF Sound, Own, Finding, Holding, At, RemoveUnlist
<1>6. \A g \in gallery : g \in Requests /\ req'[g] = req[g] /\ g # r
  BY <1>3, <1>4 DEF Inv, GalleryRow, At, TypeOK
<1>7. TypeOK'
  BY <1>1, <1>4, <1>5 DEF TypeOK, objects
<1>8. Moves(r)
  <2>1. \A v \in Users \ live : /\ \A k \in ProfileKinds : photo[v][k] = Null
                                /\ \A g \in gallery : req[g].user # v
    BY DEF Inv, PhotoRow, GalleryRow
  <2> QED BY <1>5, <1>6, <2>1 DEF Moves, objects
<1>9. \A u \in Users, k \in Keys : k \in Names(u) => k \in Names(u)' \/ k \in erased
  BY <1>5, <1>6 DEF Names, GalleryOf
<1>10. Loses(r)
  BY <1>9 DEF Loses, Keys, objects
<1>11. Own(r)'
  BY <1>1, <1>2, <1>3, <1>4
     DEF Sound, Own, Keeping, Holding, Finding, Sweeping, At, Mints, Sweeps, Ops, objects
<1>12. Known(r)' /\ Displacing(r)' /\ Orphaned(r)' /\ Counted(r)' /\ ~Usable(r)'
  BY <1>2, <1>4 DEF Known, Displacing, Orphaned, Counted, Usable, At, Mints
<1>13. Linked' /\ clock' # 0 /\ bucket' \subseteq bucket
  BY DEF Inv, Linked, MembershipsNameSchools, objects
<1> QED BY <1>4, <1>7, <1>8, <1>10, <1>11, <1>12, <1>13, Step

(* deleteUser.                                                             *)
LEMMA DeleteLookupStep ==
    ASSUME Inv, NEW r \in Requests, DeleteLookup(r), UNCHANGED <<rows, objects, clock>>
    PROVE  Inv'
<1> USE NullIsNothing
<1>1. TypeOK
  BY DEF Inv
<1>2. PICK op \in Ops : op = "delete"
  BY DEF Ops
<1>3. PICK u \in Users :
        Begin(r, [NoRequest EXCEPT
            !.op = "delete", !.user = u,
            !.pc = IF u \in live THEN "collect" ELSE "refused"])
  BY DEF DeleteLookup
<1>4. PICK pc \in Steps \cup Final : pc = IF u \in live THEN "collect" ELSE "refused"
  BY DEF Steps, Final
<1>5. PICK local : local = [NoRequest EXCEPT !.op = op, !.user = u, !.pc = pc]
  OBVIOUS
<1>6. /\ local \in Request /\ local.op = op /\ local.user = u
      /\ local.keys = {} /\ local.pc = pc /\ local.key = Null /\ local.who = {}
  BY <1>5, Blank DEF Request
<1>7. Begin(r, local)
  BY <1>2, <1>3, <1>4, <1>5
<1>8. req'[r] = local
  BY <1>1, <1>6, <1>7, BeginEffect
<1>9. Own(r)'
  BY <1>2, <1>4, <1>6, <1>8
     DEF Own, Keeping, Holding, Finding, Sweeping, At, Mints, Sweeps, Ops
<1>10. Known(r)' /\ Counted(r)'
  BY <1>2, <1>4, <1>6, <1>8 DEF Known, Counted, At
<1>11. pc # "idle"
  BY <1>4
<1> QED BY <1>2, <1>6, <1>7, <1>9, <1>10, <1>11, Beginning DEF Mints

(* The rows of a user name keys of that user.                              *)
LEMMA NamesAreOwn ==
    ASSUME Inv, NEW u \in Users, NEW k \in Names(u)
    PROVE  k \in Keys /\ k.user = u
<1>1. TypeOK /\ k # Null
  BY DEF Inv, Names
<1>2. CASE \E kind \in ProfileKinds : k = photo[u][kind]
  BY <1>1, <1>2 DEF Inv, TypeOK, PhotoRow
<1>3. CASE \E g \in GalleryOf(u) : k = req[g].key
  <2>1. PICK g \in GalleryOf(u) : k = req[g].key
    BY <1>3
  <2>2. g \in Requests /\ req[g] \in Request /\ req[g].user = u
    BY <1>1 DEF TypeOK, GalleryOf
  <2>3. req[g].key \in Keys \cup {Null}
    BY <2>2 DEF Request
  <2> QED BY <1>1, <2>1, <2>2, <2>3 DEF Inv, Sound, Own, Keeping
<1> QED BY <1>1, <1>2, <1>3 DEF Names

LEMMA DeleteCollectStep ==
    ASSUME Inv, NEW r \in Requests, DeleteCollect(r), UNCHANGED <<rows, objects, clock>>
    PROVE  Inv'
<1> USE NullIsNothing
<1>1. TypeOK /\ Sound(r)
  BY DEF Inv
<1>2. PICK q \in Request : q = req[r]
  BY <1>1 DEF TypeOK
<1>3. q.op = "delete" /\ q.pc = "collect" /\ q.user \in Users
  BY <1>1, <1>2 DEF DeleteCollect, At, Sound, Own, Keeping
<1>4. q.key = Null /\ q.who = {}
  BY <1>1, <1>2, <1>3 DEF Sound, Own, Keeping, Sweeping, Mints, Sweeps
<1>5. PICK u \in Users : u = q.user
  BY <1>3
<1>6. PICK keys \in SUBSET Keys : keys = Names(u) /\ \A k \in keys : k.user = u
  <2>1. \A k \in Names(u) : k \in Keys /\ k.user = u
    BY NamesAreOwn
  <2>2. Names(u) \in SUBSET Keys
    BY <2>1
  <2> QED BY <2>1, <2>2
<1>7. PICK pc \in Steps \cup Final : pc = IF keys = {} THEN "drop" ELSE "erase"
  BY DEF Steps
<1>8. PICK local : local = [q EXCEPT !.pc = pc, !.keys = keys]
  OBVIOUS
<1>9. /\ local \in Request /\ local.op = q.op /\ local.pc = pc /\ local.who = q.who
      /\ local.user = q.user /\ local.kind = q.kind /\ local.key = q.key
      /\ local.keys = keys
  BY <1>8 DEF Request
<1>10. Become(r, local)
  BY <1>2, <1>5, <1>6, <1>7, <1>8 DEF DeleteCollect
<1>11. req'[r] = local /\ (\A s \in Requests \ {r} : req'[s] = req[s])
  BY <1>1, <1>9, <1>10, BecomeEffect
<1>12. Own(r)'
  BY <1>3, <1>4, <1>5, <1>6, <1>7, <1>9, <1>11
     DEF Own, Keeping, Holding, Finding, Sweeping, At, Mints, Sweeps, Ops
<1>13. Known(r)'
  <2>1. \A g \in gallery : g \in Requests /\ req'[g] = req[g]
    BY <1>1, <1>2, <1>3, <1>11 DEF Inv, GalleryRow, At, TypeOK
  <2>2. \A l \in Names(u)' : l \in keys
    BY <1>6, <2>1 DEF Names, GalleryOf, rows
  <2> QED BY <1>3, <1>5, <1>9, <1>11, <2>2 DEF Known, At, Names, GalleryOf
<1>14. Displacing(r)'
  BY <1>3, <1>9, <1>11 DEF Displacing, At
<1>15. Linked' /\ clock' # 0 /\ clock' \in 0 .. MaxMs
  BY DEF Inv, Linked, MembershipsNameSchools, rows, TypeOK
<1> QED BY <1>1, <1>2, <1>3, <1>4, <1>9, <1>10, <1>12, <1>13, <1>14, <1>15, GoingOn
        DEF rows, objects, Steps, TypeOK, Mints

LEMMA DeleteEraseStep ==
    ASSUME Inv, NEW r \in Requests, DeleteErase(r), UNCHANGED <<rows, clock>>
    PROVE  Inv'
<1> USE NullIsNothing
<1>1. TypeOK /\ Sound(r)
  BY DEF Inv
<1>2. PICK q \in Request : q = req[r]
  BY <1>1 DEF TypeOK
<1>3. q.op = "delete" /\ q.pc = "erase" /\ q.user \in Users
  BY <1>1, <1>2 DEF DeleteErase, At, Sound, Own, Keeping
<1>4. q.key = Null /\ q.who = {} /\ (\A l \in q.keys : l.user = q.user) /\ q.keys \subseteq Keys
  BY <1>1, <1>2, <1>3 DEF Sound, Own, Keeping, Holding, Sweeping, Mints, Sweeps, Ops, Request
<1>5. PICK k \in q.keys :
          /\ \/ Erase({k})
             \/ r \in MayFail /\ UNCHANGED objects
          /\ Become(r, [q EXCEPT
                !.pc = IF q.keys = {k} THEN "drop" ELSE "erase",
                !.keys = @ \ {k}])
  BY <1>2 DEF DeleteErase
<1>6. PICK keys \in SUBSET Keys : keys = q.keys \ {k}
  BY <1>4
<1>7. PICK pc \in Steps \cup Final : pc = IF q.keys = {k} THEN "drop" ELSE "erase"
  BY DEF Steps
<1>8. PICK local : local = [q EXCEPT !.pc = pc, !.keys = keys]
  OBVIOUS
<1>9. /\ local \in Request /\ local.op = q.op /\ local.pc = pc /\ local.who = q.who
      /\ local.user = q.user /\ local.kind = q.kind /\ local.key = q.key
      /\ local.keys = keys
  BY <1>8 DEF Request
<1>10. Become(r, local)
  <2>1. [q EXCEPT !.pc = IF q.keys = {k} THEN "drop" ELSE "erase", !.keys = @ \ {k}]
           = [q EXCEPT !.pc = pc, !.keys = keys]
    BY <1>6, <1>7 DEF Request
  <2> QED BY <1>5, <1>8, <2>1
<1>11. req'[r] = local /\ (\A s \in Requests \ {r} : req'[s] = req[s])
  BY <1>1, <1>9, <1>10, BecomeEffect
<1>12. /\ erased \subseteq erased' /\ bucket' \subseteq bucket /\ erased' \in SUBSET Keys
       /\ k \in erased' \/ r \in MayFail
  BY <1>1, <1>4, <1>5 DEF Erase, objects, TypeOK
<1>13. Own(r)'
  BY <1>3, <1>4, <1>6, <1>7, <1>9, <1>11
     DEF Own, Keeping, Holding, Finding, Sweeping, At, Mints, Sweeps, Ops
<1>14. PICK u \in Users : u = q.user
  BY <1>3
<1>15. Forward(r)
  <2>1. /\ \A s \in Requests \ {r} : req'[s] = req[s] /\ earlier'[s] = earlier[s]
        /\ req' \in [Requests -> Request] /\ earlier' \in [Requests -> SUBSET Requests]
        /\ earlier'[r] = earlier[r]
    BY <1>1, <1>9, <1>10, BecomeEffect
  <2>2. /\ local.op # Null /\ local.pc # "idle" /\ req[r].pc # "idle"
        /\ req[r].pc \notin Final
    BY <1>2, <1>3, <1>7, <1>9 DEF Final, Ops
  <2> QED BY <1>2, <1>3, <1>4, <1>9, <1>11, <2>1, <2>2 DEF Forward, At
<1>16. Known(r)'
  <2>1. \A g \in gallery : g \in Requests /\ req'[g] = req[g]
    BY <1>1, <1>2, <1>3, <1>11 DEF Inv, GalleryRow, At, TypeOK
  <2>2. Names(u)' = Names(u)
    BY <2>1 DEF Names, GalleryOf, rows
  <2>3. ASSUME r \notin MayFail, NEW l \in Names(u)
        PROVE  l \in keys \cup erased' \/ RacedWith(l, r)'
    <3>1. l \in q.keys \cup erased \/ RacedWith(l, r)
      BY <1>1, <1>2, <1>3, <1>14, <2>3 DEF Sound, Tables, Known, At
    <3>2. l \in Keys /\ req[r].op # Null
      BY <1>2, <1>3, NamesAreOwn DEF Ops
    <3> QED BY <1>6, <1>12, <1>15, <2>3, <3>1, <3>2, Lasting
  <2> QED BY <1>9, <1>11, <1>14, <2>2, <2>3, <1>3 DEF Known, At, Names, GalleryOf
<1>17. Displacing(r)'
  BY <1>3, <1>9, <1>11 DEF Displacing, At
<1>18. Linked' /\ clock' # 0 /\ clock' \in 0 .. MaxMs
  BY DEF Inv, Linked, MembershipsNameSchools, rows, TypeOK
<1>19. local.pc \in Steps
  BY <1>7, <1>9 DEF Steps
<1> QED BY <1>1, <1>2, <1>3, <1>4, <1>9, <1>10, <1>12, <1>13, <1>16, <1>17, <1>18, <1>19,
           GoingOn
        DEF rows, Steps, TypeOK, Mints

(* The rows of deleted users go by cascade.                                *)
LEMMA Dropping ==
    ASSUME Inv, NEW r \in Requests, NEW U \in SUBSET Users,
           NEW pc \in {"ok", "close"}, Goto(r, pc), Drop(U),
           UNCHANGED <<clock, objects>>,
           req[r].pc = "drop", req[r].op \in Sweeps \cup {"delete"},
           \A u \in U : Takes(r, u),
           \A k \in Keys : k.user \in U \cap live /\ Kept(k) => Excused(k),
           Own(r)'
    PROVE  Inv'
<1> USE NullIsNothing
<1>1. TypeOK /\ Sound(r)
  BY DEF Inv
<1>2. /\ Forward(r) /\ req[r].op # Null /\ mix' \in Mixes
      /\ \A q \in Requests \ {r} : req'[q] = req[q]
      /\ req' \in [Requests -> Request] /\ earlier' \in [Requests -> SUBSET Requests]
      /\ req'[r].op = req[r].op
  BY GotoForward DEF Steps, Final, At
<1>3. /\ live' = live \ U
      /\ place' = [u \in Users |-> IF u \in U THEN {} ELSE place[u]]
      /\ photo' = [u \in Users |-> IF u \in U THEN [k \in ProfileKinds |-> Null]
                                              ELSE photo[u]]
      /\ gallery' = {g \in gallery : req[g].user \notin U}
      /\ UNCHANGED <<schools, linked>>
  BY DEF Drop
<1>4. \A u \in Users, k \in ProfileKinds :
          photo'[u][k] = IF u \in U THEN Null ELSE photo[u][k]
  BY <1>3
<1>5. \A g \in gallery : g \in Requests /\ req'[g] = req[g] /\ g # r
  BY <1>2 DEF Inv, GalleryRow, At, TypeOK
<1>6. TypeOK'
  <2>1. photo' \in [Users -> [ProfileKinds -> Keys \cup {Null}]]
    BY <1>1, <1>3 DEF TypeOK
  <2>2. place' \in [Users -> SUBSET Places]
    BY <1>1, <1>3 DEF TypeOK
  <2> QED BY <1>1, <1>2, <1>3, <2>1, <2>2 DEF TypeOK, objects
<1>7. Moves(r)
  <2>1. \A v \in Users \ live : /\ \A k \in ProfileKinds : photo[v][k] = Null
                                /\ \A g \in gallery : req[g].user # v
    BY DEF Inv, PhotoRow, GalleryRow
  <2> QED BY <1>3, <1>4, <1>5, <2>1 DEF Moves, objects
<1>8. Loses(r)
  <2>1. \A u \in Users, k \in Keys : u \in live' /\ k \in Names(u) => k \in Names(u)'
    BY <1>3, <1>4, <1>5 DEF Names, GalleryOf
  <2>2. ASSUME NEW k \in Keys, k.user \in live \ live', Kept(k)
        PROVE  Excused(k)'
    BY <1>2, <1>3, <1>7, <2>2, Lasting DEF Moves
  <2>3. \A k \in Keys : k.user \in live' /\ k \in Names(k.user) => k \in Names(k.user)'
    BY <2>1 DEF Keys
  <2> QED BY <2>2, <2>3 DEF Loses
<1>9. Known(r)' /\ Displacing(r)' /\ Orphaned(r)' /\ Counted(r)' /\ ~Usable(r)'
  <2>1. req'[r].pc = pc
    BY GotoForward DEF Steps, Final, At
  <2> QED BY <1>2, <2>1 DEF Known, Displacing, Orphaned, Counted, Usable, At, Mints, Sweeps
<1>10. Linked' /\ clock' # 0 /\ bucket' \subseteq bucket
  BY <1>3 DEF Inv, Linked, MembershipsNameSchools, objects
<1> QED BY <1>2, <1>6, <1>7, <1>8, <1>9, <1>10, Step

LEMMA DeleteDropStep ==
    ASSUME Inv, NEW r \in Requests, DeleteDrop(r), UNCHANGED <<clock, objects>>
    PROVE  Inv'
<1> USE NullIsNothing
<1>1. TypeOK /\ Sound(r)
  BY DEF Inv
<1>2. PICK pc \in {"ok", "close"} : pc = "ok"
  OBVIOUS
<1>3. Goto(r, pc) /\ req[r].op = "delete" /\ req[r].pc = "drop" /\ Drop({req[r].user})
  BY <1>2 DEF DeleteDrop, At
<1>4. PICK u \in Users : u = req[r].user
  BY <1>1, <1>3 DEF Sound, Own, Keeping
<1>5. PICK U \in SUBSET Users : U = {u}
  OBVIOUS
<1>6. req[r].keys = {} /\ req[r].who = {}
  BY <1>1, <1>3 DEF Sound, Own, Holding, Sweeping, Sweeps, At
<1>7. ASSUME NEW k \in Keys, k.user \in live, k.user = u, Kept(k)
      PROVE  Excused(k)
  <2>1. CASE r \in MayFail
    BY <1>3, <1>4, <1>7, <2>1 DEF Excused
  <2>2. CASE r \notin MayFail /\ k \in Names(u)
    <3>1. k \in erased \/ RacedWith(k, r)
      BY <1>1, <1>3, <1>4, <1>6, <2>2 DEF Sound, Tables, Known, At
    <3> QED BY <1>3, <1>4, <1>7, <3>1 DEF Excused, Accounted, Raced, RacedWith
  <2>3. CASE Accounted(k)
    BY <2>3 DEF Excused
  <2> QED BY <1>7, <2>1, <2>2, <2>3 DEF Kept, Keys, Kinds, Accounted, Names, GalleryOf
<1>8. /\ req'[r].pc = pc
      /\ req'[r].op = req[r].op /\ req'[r].user = req[r].user
      /\ req'[r].kind = req[r].kind /\ req'[r].key = req[r].key
      /\ req'[r].keys = req[r].keys /\ req'[r].who = req[r].who
  BY <1>3, GotoForward DEF Steps, Final, At
<1>9. Own(r)'
  BY <1>1, <1>2, <1>3, <1>6, <1>8
     DEF Sound, Own, Keeping, Holding, Finding, Sweeping, At, Mints, Sweeps, Ops
<1>10. \A v \in U : Takes(r, v)
  BY <1>3, <1>4, <1>5 DEF Takes
<1>11. Drop(U)
  BY <1>3, <1>4, <1>5
<1> QED BY <1>3, <1>5, <1>7, <1>9, <1>10, <1>11, Dropping

-----------------------------------------------------------------------------
(* deleteSchool and unlinkClassFromSchool.                                 *)
LEMMA SweepLookupStep ==
    ASSUME Inv, NEW r \in Requests, SweepLookup(r), UNCHANGED <<rows, objects, clock>>
    PROVE  Inv'
<1> USE NullIsNothing
<1>1. TypeOK
  BY DEF Inv
<1>2. ASSUME NEW local \in Request, Begin(r, local), local.op \in Sweeps \cup {"unlink"},
             local.pc \in {"list", "leave", "refused"}, local.key = Null, local.who = {},
             local.keys = {}, local.pc = "list" => local.op \in Sweeps,
             local.op = "school" => local.region = {p \in Places : School[p] = local.school},
             local.op \in {"cascade", "unlink"} => local.school = Null
      PROVE  Inv'
  <2>1. req'[r] = local
    BY <1>1, <1>2, BeginEffect
  <2>2. Own(r)'
    BY <1>2, <2>1 DEF Own, Keeping, Holding, Finding, Sweeping, At, Mints, Sweeps, Ops
  <2>3. Known(r)' /\ Counted(r)'
    BY <1>2, <2>1 DEF Known, Counted, At, Sweeps
  <2> QED BY <1>2, <2>2, <2>3, Beginning DEF Mints, Sweeps, Ops
<1>3. ASSUME NEW s \in Schools,
             Begin(r, [NoRequest EXCEPT
                !.op = "school", !.school = s,
                !.region = {p \in Places : School[p] = s},
                !.pc = IF s \in schools THEN "list" ELSE "refused"])
      PROVE  Inv'
  <2>1. PICK op \in Ops : op = "school"
    BY DEF Ops, Sweeps
  <2>2. PICK pc \in Steps \cup Final : pc = IF s \in schools THEN "list" ELSE "refused"
    BY DEF Steps, Final
  <2>3. PICK region \in SUBSET Places : region = {p \in Places : School[p] = s}
    OBVIOUS
  <2>4. PICK local : local = [NoRequest EXCEPT !.op = op, !.school = s, !.region = region,
                                               !.pc = pc]
    OBVIOUS
  <2>5. /\ local \in Request /\ local.op = op /\ local.school = s /\ local.region = region
        /\ local.pc = pc /\ local.key = Null /\ local.who = {} /\ local.keys = {}
    BY <2>4, Blank DEF Request
  <2>6. Begin(r, local)
    BY <1>3, <2>1, <2>2, <2>3, <2>4
  <2>7. /\ local.op = "school" /\ local.pc \in {"list", "refused"}
        /\ local.region = {p \in Places : School[p] = local.school}
    BY <2>1, <2>2, <2>3, <2>5
  <2> QED BY <1>2, <2>5, <2>6, <2>7 DEF Sweeps
<1>4. ASSUME NEW p \in Places, NEW op \in {"cascade", "unlink"},
             Begin(r, [NoRequest EXCEPT
                !.op = op, !.region = {p},
                !.pc = CASE p \notin linked -> "refused"
                         [] p \in linked /\ op = "cascade" -> "list"
                         [] OTHER -> "leave"])
      PROVE  Inv'
  <2>1. op \in Ops
    BY DEF Ops, Sweeps
  <2>2. PICK pc \in Steps \cup Final :
            pc = IF p \notin linked THEN "refused"
                 ELSE IF op = "cascade" THEN "list" ELSE "leave"
    BY DEF Steps, Final
  <2>3. pc = CASE p \notin linked -> "refused"
               [] p \in linked /\ op = "cascade" -> "list"
               [] OTHER -> "leave"
    BY <2>2
  <2>4. PICK local : local = [NoRequest EXCEPT !.op = op, !.region = {p}, !.pc = pc]
    OBVIOUS
  <2>5. /\ local \in Request /\ local.op = op /\ local.school = Null
        /\ local.pc = pc /\ local.key = Null /\ local.who = {} /\ local.keys = {}
    BY <2>1, <2>4, Blank DEF Request
  <2>6. pc \in {"list", "leave", "refused"} /\ (pc = "list" => op = "cascade")
    BY <2>2
  <2>7. Begin(r, local)
    BY <1>4, <2>3, <2>4
  <2> QED BY <1>2, <2>5, <2>6, <2>7 DEF Sweeps
<1> QED BY <1>3, <1>4 DEF SweepLookup

LEMMA SweepListStep ==
    ASSUME Inv, NEW r \in Requests, SweepList(r), UNCHANGED <<rows, objects, clock>>
    PROVE  Inv'
<1> USE NullIsNothing
<1>1. TypeOK /\ Sound(r)
  BY DEF Inv
<1>2. PICK q \in Request : q = req[r]
  BY <1>1 DEF TypeOK
<1>3. q.op \in Sweeps /\ q.pc = "list"
  BY <1>2 DEF SweepList
<1>4. q.key = Null /\ q.who = {} /\ Sweeping(r)
  BY <1>1, <1>2, <1>3 DEF Sound, Own, Keeping, Sweeping, Mints, Sweeps
<1>5. PICK keys \in SUBSET Keys : keys = {k \in bucket : k.folder \in q.region}
  BY <1>1 DEF TypeOK
<1>6. PICK pc \in Steps \cup Final : pc = IF keys = {} THEN "members" ELSE "purge"
  BY DEF Steps
<1>7. PICK local : local = [q EXCEPT !.pc = pc, !.keys = keys]
  OBVIOUS
<1>8. /\ local \in Request /\ local.op = q.op /\ local.pc = pc /\ local.who = q.who
      /\ local.user = q.user /\ local.kind = q.kind /\ local.key = q.key
      /\ local.keys = keys /\ local.region = q.region /\ local.school = q.school
  BY <1>7 DEF Request
<1>9. Become(r, local)
  BY <1>2, <1>5, <1>6, <1>7 DEF SweepList
<1>10. req'[r] = local
  BY <1>1, <1>8, <1>9, BecomeEffect
<1>11. Sweeping(r)'
  BY <1>2, <1>3, <1>4, <1>6, <1>8, <1>10 DEF Sweeping, Sweeps, Steps
<1>12. Own(r)'
  BY <1>3, <1>4, <1>6, <1>8, <1>10, <1>11
     DEF Own, Keeping, Holding, Finding, At, Mints, Sweeps, Ops
<1>13. Known(r)' /\ Displacing(r)'
  BY <1>3, <1>8, <1>10 DEF Known, Displacing, At, Sweeps
<1>14. Linked' /\ clock' # 0 /\ clock' \in 0 .. MaxMs
  BY DEF Inv, Linked, MembershipsNameSchools, rows, TypeOK
<1> QED BY <1>1, <1>2, <1>3, <1>4, <1>8, <1>9, <1>12, <1>13, <1>14, GoingOn
        DEF rows, objects, Steps, TypeOK, Mints, Sweeps

LEMMA SweepPurgeStep ==
    ASSUME Inv, NEW r \in Requests, SweepPurge(r), UNCHANGED <<rows, clock>>
    PROVE  Inv'
<1>1. TypeOK /\ Sound(r)
  BY DEF Inv
<1>2. PICK pc \in Steps \cup Final : pc = "members"
  BY DEF Steps
<1>3. Goto(r, pc) /\ req[r].op \in Sweeps /\ req[r].pc = "purge"
  BY <1>2 DEF SweepPurge
<1>4. /\ erased \subseteq erased' /\ bucket' \subseteq bucket /\ erased' \in SUBSET Keys
      /\ req[r].keys \subseteq erased'
  BY <1>1 DEF SweepPurge, Erase, TypeOK, Request
<1>5. /\ req'[r].pc = pc
      /\ req'[r].op = req[r].op /\ req'[r].user = req[r].user
      /\ req'[r].kind = req[r].kind /\ req'[r].key = req[r].key
      /\ req'[r].keys = req[r].keys /\ req'[r].who = req[r].who
      /\ req'[r].region = req[r].region /\ req'[r].school = req[r].school
  BY <1>3, GotoForward DEF Steps, At
<1>6. Own(r)'
  BY <1>1, <1>2, <1>3, <1>4, <1>5
     DEF Sound, Own, Keeping, Holding, Finding, Sweeping, At, Mints, Sweeps, Ops, Steps
<1>7. Known(r)'
  BY <1>2, <1>5 DEF Known, At
<1>8. Linked'
  BY DEF Inv, Linked, MembershipsNameSchools, rows
<1> QED BY <1>1, <1>2, <1>3, <1>4, <1>6, <1>7, <1>8, GoingTo
        DEF TypeOK, Steps, At, Mints, Sweeps, rows

LEMMA SweepMembersStep ==
    ASSUME Inv, NEW r \in Requests, SweepMembers(r), UNCHANGED <<rows, objects, clock>>
    PROVE  Inv'
<1> USE NullIsNothing
<1>1. TypeOK /\ Sound(r)
  BY DEF Inv
<1>2. PICK q \in Request : q = req[r]
  BY <1>1 DEF TypeOK
<1>3. q.op \in Sweeps /\ q.pc = "members"
  BY <1>2 DEF SweepMembers
<1>4. q.key = Null /\ q.who = {} /\ q.keys \subseteq erased /\ Sweeping(r)
  BY <1>1, <1>2, <1>3 DEF Sound, Own, Keeping, Sweeping, Mints, Sweeps
<1>5. PICK who \in SUBSET Users : who = {u \in Users : place[u] \cap q.region # {}}
  OBVIOUS
<1>6. PICK pc \in Steps \cup Final : pc = IF who = {} THEN "close" ELSE "drop"
  BY DEF Steps
<1>7. PICK local : local = [q EXCEPT !.pc = pc, !.who = who]
  OBVIOUS
<1>8. /\ local \in Request /\ local.op = q.op /\ local.pc = pc /\ local.who = who
      /\ local.user = q.user /\ local.kind = q.kind /\ local.key = q.key
      /\ local.keys = q.keys /\ local.region = q.region /\ local.school = q.school
  BY <1>7 DEF Request
<1>9. Become(r, local)
  BY <1>2, <1>5, <1>6, <1>7 DEF SweepMembers
<1>10. req'[r] = local
  BY <1>1, <1>8, <1>9, BecomeEffect
<1>11. Sweeping(r)'
  BY <1>2, <1>3, <1>4, <1>6, <1>8, <1>10 DEF Sweeping, Sweeps, Steps, objects
<1>12. Own(r)'
  BY <1>3, <1>4, <1>6, <1>8, <1>10, <1>11
     DEF Own, Keeping, Holding, Finding, At, Mints, Sweeps, Ops
<1>13. Known(r)' /\ Displacing(r)'
  BY <1>3, <1>8, <1>10 DEF Known, Displacing, At, Sweeps
<1>14. Linked' /\ clock' # 0 /\ clock' \in 0 .. MaxMs
  BY DEF Inv, Linked, MembershipsNameSchools, rows, TypeOK
<1> QED BY <1>1, <1>2, <1>3, <1>4, <1>8, <1>9, <1>12, <1>13, <1>14, GoingOn
        DEF rows, objects, Steps, TypeOK, Mints, Sweeps

LEMMA SweepDropStep ==
    ASSUME Inv, NEW r \in Requests, SweepDrop(r), UNCHANGED <<clock, objects>>
    PROVE  Inv'
<1> USE NullIsNothing
<1>1. TypeOK /\ Sound(r)
  BY DEF Inv
<1>2. PICK pc \in {"ok", "close"} : pc = "close"
  OBVIOUS
<1>3. Goto(r, pc) /\ req[r].op \in Sweeps /\ req[r].pc = "drop"
  BY <1>2 DEF SweepDrop
<1>4. PICK U \in SUBSET Users : U = req[r].who
  BY <1>1 DEF TypeOK, Request
<1>5. ASSUME NEW k \in Keys, k.user \in U PROVE Excused(k)
  BY <1>3, <1>4, <1>5 DEF Excused
<1>6. /\ req'[r].pc = pc
      /\ req'[r].op = req[r].op /\ req'[r].user = req[r].user
      /\ req'[r].kind = req[r].kind /\ req'[r].key = req[r].key
      /\ req'[r].keys = req[r].keys /\ req'[r].who = req[r].who
      /\ req'[r].region = req[r].region /\ req'[r].school = req[r].school
  BY <1>3, GotoForward DEF Steps, Final, At
<1>7. Own(r)'
  BY <1>1, <1>2, <1>3, <1>6
     DEF Sound, Own, Keeping, Holding, Finding, Sweeping, At, Mints, Sweeps, Ops, objects,
         Steps
<1>8. \A v \in U : Takes(r, v)
  BY <1>3, <1>4 DEF Takes
<1>9. Drop(U)
  BY <1>4 DEF SweepDrop
<1> QED BY <1>3, <1>5, <1>7, <1>8, <1>9, Dropping

LEMMA UnlinkLeaveStep ==
    ASSUME Inv, NEW r \in Requests, UnlinkLeave(r), UNCHANGED <<clock, objects>>
    PROVE  Inv'
<1>1. TypeOK /\ Sound(r)
  BY DEF Inv
<1>2. PICK pc \in Steps \cup Final : pc = "close"
  BY DEF Steps
<1>3. Goto(r, pc) /\ req[r].op = "unlink" /\ req[r].pc = "leave"
  BY <1>2 DEF UnlinkLeave, At
<1>4. /\ req'[r].pc = pc
      /\ req'[r].op = req[r].op /\ req'[r].user = req[r].user
      /\ req'[r].kind = req[r].kind /\ req'[r].key = req[r].key
      /\ req'[r].keys = req[r].keys /\ req'[r].who = req[r].who
      /\ req'[r].region = req[r].region /\ req'[r].school = req[r].school
  BY <1>3, GotoForward DEF Steps, At
<1>5. Own(r)'
  BY <1>1, <1>2, <1>3, <1>4
     DEF Sound, Own, Keeping, Holding, Finding, Sweeping, At, Mints, Sweeps, Ops, Steps,
         objects
<1>6. Known(r)'
  BY <1>2, <1>4 DEF Known, At
<1>7. place' = [u \in Users |-> place[u] \ req[r].region]
      /\ UNCHANGED <<live, schools, linked, photo, gallery>>
  BY DEF UnlinkLeave, Leave
<1>8. place' \in [Users -> SUBSET Places]
  BY <1>1, <1>7 DEF TypeOK
<1>9. Linked'
  BY <1>7 DEF Inv, Linked, MembershipsNameSchools
<1> QED BY <1>1, <1>2, <1>3, <1>5, <1>6, <1>7, <1>8, <1>9, GoingTo
        DEF TypeOK, Steps, At, Mints, Sweeps, objects

(* The school goes, and with it the places it has: no membership and no    *)
(* link of another school is touched.                                      *)
LEMMA SweepCloseStep ==
    ASSUME Inv, NEW r \in Requests, SweepClose(r), UNCHANGED <<clock, objects>>
    PROVE  Inv'
<1>1. TypeOK /\ Sound(r)
  BY DEF Inv
<1>2. PICK pc \in Steps \cup Final : pc = "ok"
  BY DEF Final
<1>3. Goto(r, pc) /\ req[r].op \in Sweeps \cup {"unlink"} /\ req[r].pc = "close"
  BY <1>1, <1>2 DEF SweepClose, Sound, Own, Sweeping
<1>4. /\ req'[r].pc = pc
      /\ req'[r].op = req[r].op /\ req'[r].user = req[r].user
      /\ req'[r].kind = req[r].kind /\ req'[r].key = req[r].key
      /\ req'[r].keys = req[r].keys /\ req'[r].who = req[r].who
      /\ req'[r].region = req[r].region /\ req'[r].school = req[r].school
  BY <1>3, GotoForward DEF Steps, At
<1>5. Own(r)'
  BY <1>1, <1>2, <1>3, <1>4
     DEF Sound, Own, Keeping, Holding, Finding, Sweeping, At, Mints, Sweeps, Ops, Steps,
         objects
<1>6. Known(r)'
  BY <1>2, <1>4 DEF Known, At
<1>7. /\ schools' = schools \ {req[r].school} /\ linked' = linked \ req[r].region
      /\ UNCHANGED <<live, photo, gallery>>
  BY DEF SweepClose
<1>8. CASE req[r].op = "school"
  <2>1. place' = [u \in Users |-> place[u] \ req[r].region]
    BY <1>8 DEF SweepClose, Leave
  <2>2. \A p \in Places : p \notin req[r].region => School[p] # req[r].school
    BY <1>1, <1>3, <1>8 DEF Sound, Own, Sweeping, Steps
  <2>3. place' \in [Users -> SUBSET Places]
    BY <1>1, <2>1 DEF TypeOK
  <2>4. Linked'
    BY <1>1, <1>7, <2>1, <2>2 DEF Inv, Linked, MembershipsNameSchools, TypeOK
  <2> QED BY <1>1, <1>2, <1>3, <1>5, <1>6, <1>7, <1>8, <2>3, <2>4, GoingTo
          DEF TypeOK, Steps, At, Mints, Sweeps, objects
<1>9. CASE req[r].op # "school"
  <2>1. UNCHANGED place
    BY <1>9 DEF SweepClose
  <2>2. req[r].school = Null
    BY <1>1, <1>3, <1>9 DEF Sound, Own, Sweeping, Sweeps
  <2>3. schools' = schools
    BY <1>1, <1>7, <2>2, PhotosAssumption DEF TypeOK
  <2>4. Linked'
    BY <1>7, <2>1, <2>3 DEF Inv, Linked, MembershipsNameSchools
  <2> QED BY <1>1, <1>2, <1>3, <1>5, <1>6, <1>7, <2>1, <2>4, GoingTo
          DEF TypeOK, Steps, At, Mints, Sweeps, objects
<1> QED BY <1>8, <1>9

-----------------------------------------------------------------------------
(* A move, an upload and a failure.                                        *)
LEMMA MoveStep ==
    ASSUME Inv, NEW u \in Users, NEW p \in Places, MoveUserToClass(u, p)
    PROVE  Inv'
<1>1. place' = [place EXCEPT ![u] = {p}] /\ p \in linked
      /\ UNCHANGED <<live, schools, linked, photo, gallery, objects, clock, mix, req, earlier>>
  BY DEF MoveUserToClass
<1>2. place' \in [Users -> SUBSET Places]
      /\ \A v \in Users : place'[v] = IF v = u THEN {p} ELSE place[v]
  BY <1>1 DEF Inv, TypeOK
<1>3. Linked'
  BY <1>1, <1>2 DEF Inv, Linked, MembershipsNameSchools
<1>4. TypeOK'
  BY <1>1, <1>2 DEF Inv, TypeOK, objects
<1>5. \A q \in Requests : Sound(q)'
  <2> SUFFICES ASSUME NEW q \in Requests PROVE Sound(q)'
    OBVIOUS
  <2>1. Sound(q)
    BY DEF Inv
  <2>2. Own(q)' /\ Past(q)'
    BY <1>1, <2>1 DEF Sound, Own, Keeping, Holding, Finding, Sweeping, Past, At, objects
  <2>3. Tables(q)'
    BY <1>1, <2>1 DEF Sound, Tables, Known, RacedWith, Displacing, Old, Recorded, Twice,
                      Orphaned, Counted, Before, Usable, Kept, Excused, Accounted,
                      Displaced, Raced, Names, GalleryOf, Overlap, At, objects
  <2> QED BY <2>2, <2>3 DEF Sound
<1>6. \A v \in Users, kind \in ProfileKinds : PhotoRow(v, kind)'
  BY <1>1 DEF Inv, PhotoRow, Old, Recorded
<1>7. (\A g \in gallery : GalleryRow(g)') /\ IsFiniteSet(gallery)' /\ (clock # 0)'
  BY <1>1 DEF Inv, GalleryRow, At
<1>8. \A k \in bucket : Kept(k)'
  BY <1>1 DEF Inv, Kept, Excused, Accounted, Displaced, Raced, Names, GalleryOf, Overlap,
              objects
<1> QED BY <1>1, <1>3, <1>4, <1>5, <1>6, <1>7, <1>8 DEF Inv, objects

(* A URL is used for the key it was signed for, which is kept already.     *)
LEMMA UploadStep ==
    ASSUME Inv, NEW r \in Requests, Upload(r)
    PROVE  Inv'
<1>1. bucket' = bucket \cup {req[r].key}
      /\ UNCHANGED <<live, place, schools, linked, photo, gallery, clock, mix, req, earlier,
                     erased>>
  BY DEF Upload, rows
<1>2. req[r].key \in Keys /\ Kept(req[r].key)
  BY DEF Upload, Inv, Sound, Tables, Usable, Own, Holding, TypeOK, Request
<1>3. Linked' /\ TypeOK'
  BY <1>1, <1>2 DEF Inv, Linked, MembershipsNameSchools, TypeOK
<1>5. \A q \in Requests : Sound(q)'
  <2> SUFFICES ASSUME NEW q \in Requests PROVE Sound(q)'
    OBVIOUS
  <2>1. Sound(q)
    BY DEF Inv
  <2>2. Own(q)' /\ Past(q)'
    BY <1>1, <2>1 DEF Sound, Own, Keeping, Holding, Finding, Sweeping, Past, At
  <2>3. Tables(q)'
    BY <1>1, <2>1 DEF Sound, Tables, Known, RacedWith, Displacing, Old, Recorded, Twice,
                      Orphaned, Counted, Before, Usable, Kept, Excused, Accounted,
                      Displaced, Raced, Names, GalleryOf, Overlap, At
  <2> QED BY <2>2, <2>3 DEF Sound
<1>6. \A v \in Users, kind \in ProfileKinds : PhotoRow(v, kind)'
  BY <1>1 DEF Inv, PhotoRow, Old, Recorded
<1>7. (\A g \in gallery : GalleryRow(g)') /\ IsFiniteSet(gallery)' /\ (clock # 0)'
  BY <1>1 DEF Inv, GalleryRow, At
<1>8. \A k \in bucket \cup {req[r].key} : Kept(k)'
  BY <1>1, <1>2 DEF Inv, Kept, Excused, Accounted, Displaced, Raced, Names, GalleryOf, Overlap
<1> QED BY <1>1, <1>3, <1>5, <1>6, <1>7, <1>8 DEF Inv

LEMMA FailStep ==
    ASSUME Inv, NEW r \in Requests, Fail(r)
    PROVE  Inv'
<1>1. TypeOK /\ Sound(r)
  BY DEF Inv
<1>2. PICK pc \in Steps \cup Final : pc = "failed"
  BY DEF Final
<1>3. /\ Goto(r, pc) /\ r \in MayFail /\ req[r].pc \in Steps
      /\ UNCHANGED <<live, place, schools, linked, photo, gallery, clock, bucket, erased>>
  BY <1>2 DEF Fail, rows, objects
<1>4. PICK local \in Request :
          /\ Become(r, local) /\ req'[r] = local /\ local.pc = pc
          /\ local.op = req[r].op /\ local.user = req[r].user
          /\ local.kind = req[r].kind /\ local.key = req[r].key
          /\ local.keys = req[r].keys /\ local.who = req[r].who
          /\ local.row = req[r].row /\ local.region = req[r].region
          /\ local.school = req[r].school
  BY <1>1, <1>3, GotoEffect
<1>5. Own(r)'
  BY <1>1, <1>2, <1>3, <1>4
     DEF Sound, Own, Keeping, Holding, Finding, Sweeping, At, Mints, Sweeps, Ops, Steps
<1>6. Known(r)'
  BY <1>2, <1>4 DEF Known, At
<1>7. Linked'
  BY <1>3 DEF Inv, Linked, MembershipsNameSchools
<1> QED BY <1>1, <1>2, <1>3, <1>5, <1>6, <1>7, GoingTo
        DEF TypeOK, Final, At, Mints

-----------------------------------------------------------------------------
LEMMA InitInv == ASSUME Init PROVE Inv
<1> USE NullIsNothing DEF Init
<1>1. mix.places \in SUBSET Places /\ mix \in Mixes
  BY PhotosAssumption
<1>2. req = [r \in Requests |-> NoRequest] /\ NoRequest \in Request
  BY Blank
<1>3. TypeOK
  <2>1. \A u \in Users, k \in ProfileKinds : photo[u][k] \in Keys \cup {Null}
    OBVIOUS
  <2>2. bucket \in SUBSET Keys
    BY <2>1
  <2>3. schools \in SUBSET Schools
    BY <1>1, PhotosAssumption
  <2>4. place \in [Users -> SUBSET Places]
    BY <1>1
  <2>5. clock \in 0 .. MaxMs
    BY PhotosAssumption
  <2> QED BY <1>1, <1>2, <2>2, <2>3, <2>4, <2>5 DEF TypeOK
<1>4. ASSUME NEW r \in Requests PROVE Sound(r)
  <2>1. req[r] = NoRequest /\ earlier[r] = {}
    BY <1>2
  <2>2. Own(r) /\ Past(r)
    BY <2>1, Blank DEF Own, Keeping, Holding, Finding, Sweeping, Past, At, Mints, Sweeps,
                       Ops, Steps
  <2>3. Tables(r)
    BY <2>1, Blank DEF Tables, Known, Displacing, Orphaned, Counted, Usable, At, Mints, Ops
  <2> QED BY <2>2, <2>3 DEF Sound
<1>5. \A u \in Users, kind \in ProfileKinds : PhotoRow(u, kind)
  BY DEF PhotoRow, Old
<1>6. IsFiniteSet(gallery) /\ (\A g \in gallery : GalleryRow(g))
  BY FS_EmptySet
<1>7. \A k \in bucket : Kept(k)
  <2> SUFFICES ASSUME NEW k \in bucket PROVE Kept(k)
    OBVIOUS
  <2>1. PICK u \in Users, kind \in ProfileKinds : k = photo[u][kind] /\ k # Null
    OBVIOUS
  <2>2. k.user = u /\ k.kind = kind
    BY <2>1
  <2>3. k \in Names(k.user)
    BY <2>1, <2>2 DEF Names
  <2> QED BY <2>2, <2>3, PhotosAssumption DEF Kept
<1>8. Linked /\ clock # 0
  BY DEF Linked, MembershipsNameSchools
<1> QED BY <1>3, <1>4, <1>5, <1>6, <1>7, <1>8 DEF Inv

LEMMA RequestStep ==
    ASSUME Inv, NEW r \in Requests,
           \/ CreatePhotoUploadUrl(r) \/ DeletePhoto(r)
           \/ CreateGalleryUploadUrl(r) \/ DeleteGalleryPhoto(r)
           \/ DeleteUser(r) \/ DeleteSchool(r)
           \/ Upload(r) \/ Fail(r)
    PROVE  Inv'
<1>1. CASE CreatePhotoUploadUrl(r)
  BY <1>1, ReplaceLookupStep, ReplaceReadStep, ReplaceRecordStep, ReplaceDisplaceStep
     DEF CreatePhotoUploadUrl, rows
<1>2. CASE DeletePhoto(r)
  BY <1>2, ClearLookupStep, ClearEraseStep, ClearRecordStep DEF DeletePhoto, rows
<1>3. CASE CreateGalleryUploadUrl(r)
  BY <1>3, AddCountStep, AddPlacementStep, AddInsertStep DEF CreateGalleryUploadUrl, rows
<1>4. CASE DeleteGalleryPhoto(r)
  BY <1>4, RemoveLookupStep, RemoveEraseStep, RemoveUnlistStep
     DEF DeleteGalleryPhoto, rows
<1>5. CASE DeleteUser(r)
  BY <1>5, DeleteLookupStep, DeleteCollectStep, DeleteEraseStep, DeleteDropStep
     DEF DeleteUser
<1>6. CASE DeleteSchool(r)
  BY <1>6, SweepLookupStep, SweepListStep, SweepPurgeStep, SweepMembersStep, SweepDropStep,
     UnlinkLeaveStep, SweepCloseStep DEF DeleteSchool
<1>7. CASE Upload(r)
  BY <1>7, UploadStep
<1>8. CASE Fail(r)
  BY <1>8, FailStep
<1> QED BY <1>1, <1>2, <1>3, <1>4, <1>5, <1>6, <1>7, <1>8

LEMMA StutterStep == ASSUME Inv, UNCHANGED vars PROVE Inv'
<1>1. UNCHANGED <<live, place, schools, linked, photo, gallery, bucket, clock, mix, req,
                  earlier, erased>>
  BY DEF vars, rows, objects
<1>2. TypeOK' /\ Linked'
  BY <1>1 DEF Inv, TypeOK, Linked, MembershipsNameSchools
<1>3. \A q \in Requests : Sound(q)'
  <2> SUFFICES ASSUME NEW q \in Requests PROVE Sound(q)'
    OBVIOUS
  <2>1. Sound(q)
    BY DEF Inv
  <2>2. Own(q)' /\ Past(q)'
    BY <1>1, <2>1 DEF Sound, Own, Keeping, Holding, Finding, Sweeping, Past, At
  <2>3. Tables(q)'
    BY <1>1, <2>1 DEF Sound, Tables, Known, RacedWith, Displacing, Old, Recorded, Twice,
                      Orphaned, Counted, Before, Usable, Kept, Excused, Accounted,
                      Displaced, Raced, Names, GalleryOf, Overlap, At
  <2> QED BY <2>2, <2>3 DEF Sound
<1>4. \A v \in Users, kind \in ProfileKinds : PhotoRow(v, kind)'
  BY <1>1 DEF Inv, PhotoRow, Old, Recorded
<1>5. (\A g \in gallery : GalleryRow(g)') /\ IsFiniteSet(gallery)' /\ (clock # 0)'
  BY <1>1 DEF Inv, GalleryRow, At
<1>6. \A k \in bucket : Kept(k)'
  BY <1>1 DEF Inv, Kept, Excused, Accounted, Displaced, Raced, Names, GalleryOf, Overlap
<1> QED BY <1>1, <1>2, <1>3, <1>4, <1>5, <1>6 DEF Inv

(* Whatever requests run, in whatever order and whichever fail, the rows   *)
(* and the objects are kept together as Inv says.                          *)
THEOREM Invariance == Spec => []Inv
<1>1. Init => Inv
  BY InitInv
<1>2. Inv /\ [Next]_vars => Inv'
  BY RequestStep, MoveStep, StutterStep DEF Next
<1> QED BY <1>1, <1>2, PTL DEF Spec

(* Rows, objects and requests hold what their columns and locals may hold. *)
THEOREM TypeCorrect == Spec => []TypeOK
<1>1. Inv => TypeOK
  BY DEF Inv
<1> QED BY <1>1, Invariance, PTL

-----------------------------------------------------------------------------
(* Of the gallery rows of a user, no two of whose mints overlapped, one    *)
(* was counted for when all the others were there.                         *)
LEMMA LastCounted ==
    ASSUME Inv, NEW G, G \subseteq gallery, G # {},
           \A q, r \in G : ~Overlap(q, r)
    PROVE  \E g \in G : G \subseteq earlier[g] \cup {g}
<1>1. IsFiniteSet(G) /\ G \subseteq Requests
  BY FS_Subset DEF Inv, TypeOK
<1> DEFINE R == StrictSubsetOrdering(G)
           T == {G \ earlier[g] : g \in G}
<1>2. IsWellFoundedOn(R, SUBSET G)
  BY <1>1, FS_FiniteSubsetsOfFinite, FS_StrictSubsetOrderingWellFounded
<1>3. T \subseteq SUBSET G /\ T # {}
  OBVIOUS
<1>4. PICK x \in T : \A y \in T : <<y, x>> \notin R
  <2> HIDE DEF R, T
  <2> QED BY <1>2, <1>3, WFMin
<1>5. PICK g \in G : x = G \ earlier[g]
  OBVIOUS
<1>6. ASSUME NEW q \in G, q # g PROVE q \in earlier[g]
  <2> SUFFICES ASSUME q \notin earlier[g] PROVE FALSE
    OBVIOUS
  <2>1. g \in earlier[q]
    BY <1>6 DEF Overlap
  <2>2. earlier[g] \subseteq earlier[q] /\ g \notin earlier[g]
    BY <1>1, <2>1 DEF Inv, Sound, Past
  <2>3. PICK y \in T : y = G \ earlier[q]
    OBVIOUS
  <2>4. y \subseteq x /\ y # x /\ y \in SUBSET G /\ x \in SUBSET G
    BY <1>3, <1>5, <2>1, <2>2, <2>3
  <2>5. <<y, x>> \in R
    BY <2>4 DEF StrictSubsetOrdering
  <2> QED BY <1>4, <2>5
<1> QED BY <1>6

LEMMA RowsSound == ASSUME Inv PROVE RowsAreSound
<1>1. KeyHasOneOwner
  BY NamesAreOwn DEF KeyHasOneOwner
<1>2. LimitHoldsInTurn
  <2> SUFFICES ASSUME NEW u \in Users, Cardinality(GalleryOf(u)) > Limit,
                      \A q, r \in GalleryOf(u) : ~Overlap(q, r)
               PROVE  FALSE
    BY DEF LimitHoldsInTurn
  <2> DEFINE G == GalleryOf(u)
  <2>1. IsFiniteSet(G) /\ G \subseteq gallery
    BY FS_Subset DEF GalleryOf, Inv
  <2>2. G # {}
    BY FS_EmptySet, PhotosAssumption
  <2>3. PICK g \in G : G \subseteq earlier[g] \cup {g}
    BY <2>1, <2>2, LastCounted
  <2>4. g \in Requests /\ At(g, "add", "ok") /\ req[g].user = u
    BY DEF GalleryOf, Inv, TypeOK, GalleryRow
  <2>5. Cardinality(Before(g)) < Limit
    BY <2>4 DEF Inv, Sound, Tables, Counted, At
  <2>6. G \subseteq Before(g) \cup {g}
    BY <2>3, <2>4 DEF GalleryOf, Before
  <2>7. IsFiniteSet(Before(g))
    BY FS_Subset DEF Before, Inv
  <2>8. /\ IsFiniteSet(Before(g) \cup {g})
        /\ Cardinality(Before(g) \cup {g}) <= Cardinality(Before(g)) + 1
    <3>1. g \notin Before(g)
      BY <2>4 DEF Inv, Sound, Past, Before
    <3>2. /\ IsFiniteSet(Before(g) \cup {g})
          /\ Cardinality(Before(g) \cup {g}) = Cardinality(Before(g)) + 1
      BY <2>7, <3>1, FS_AddElement
    <3> QED BY <3>2, <2>7, FS_CardinalityType
  <2>9. Cardinality(G) <= Cardinality(Before(g) \cup {g})
    BY <2>6, <2>8, FS_Subset
  <2>10. /\ Cardinality(G) \in Nat /\ Cardinality(Before(g)) \in Nat
         /\ Cardinality(Before(g) \cup {g}) \in Nat
    BY <2>1, <2>7, <2>8, FS_CardinalityType
  <2> QED BY <2>5, <2>8, <2>9, <2>10, PhotosAssumption
<1> QED BY <1>1, <1>2 DEF RowsAreSound

(* A key answers for one user, and the limit of the gallery can only be    *)
(* passed by mints that overlap.                                           *)
THEOREM RowsStaySound == Spec => []RowsAreSound
<1>1. Inv => RowsAreSound
  BY RowsSound
<1> QED BY <1>1, Invariance, PTL

(* No object is left that nobody can find, no row and no membership names  *)
(* what is gone, but for the exceptions the property lists.                *)
THEOREM NothingStaysBehind == Spec => []NothingIsLeftBehind
<1>1. ASSUME Inv PROVE NothingIsLeftBehind
  <2>1. \A k \in bucket : Kept(k) /\ k \in Keys
    BY <1>1 DEF Inv, TypeOK
  <2>2. GalleryObjectsAreListed
    BY <2>1 DEF GalleryObjectsAreListed, Kept
  <2>3. ReplacedPhotosAreDeleted
    BY <2>1 DEF ReplacedPhotosAreDeleted, Kept, Accounted
  <2>4. DeletedUsersLeaveNothing
    BY <2>1 DEF DeletedUsersLeaveNothing, Kept, Excused, Accounted
  <2>5. ObjectsGoFirst
    BY <1>1 DEF ObjectsGoFirst, Inv, Sound, Own, Sweeping
  <2>6. MembershipsNameSchools
    BY <1>1 DEF Inv, Linked
  <2> QED BY <2>2, <2>3, <2>4, <2>5, <2>6 DEF NothingIsLeftBehind
<1> QED BY <1>1, Invariance, PTL

(* An object goes because a request has told S3 to delete its key.         *)
LEMMA Erasing ==
    ASSUME Inv, NEW r \in Requests, NEW k \in bucket \ bucket',
           \/ CreatePhotoUploadUrl(r) \/ DeletePhoto(r)
           \/ CreateGalleryUploadUrl(r) \/ DeleteGalleryPhoto(r)
           \/ DeleteUser(r) \/ DeleteSchool(r)
           \/ Upload(r) \/ Fail(r)
    PROVE  /\ \A q \in Requests \ {r} : req'[q] = req[q]
           /\ k \in req[r].keys
           /\ \/ At(r, "replace", "displace")
              \/ req[r].op \in {"clear", "remove", "delete"} \cup Sweeps
<1>1. TypeOK
  BY DEF Inv
<1>2. CASE CreatePhotoUploadUrl(r)
  <2>1. ReplaceDisplace(r)
    BY <1>2 DEF CreatePhotoUploadUrl, objects, ReplaceRecord
  <2> QED BY <1>1, <2>1 DEF ReplaceDisplace, Erase, objects, Goto, Become, TypeOK
<1>3. CASE DeletePhoto(r)
  <2>1. ClearErase(r)
    BY <1>3 DEF DeletePhoto, objects
  <2> QED BY <1>1, <2>1 DEF ClearErase, Erase, Goto, Become, At, TypeOK
<1>4. CASE CreateGalleryUploadUrl(r)
  BY <1>4 DEF CreateGalleryUploadUrl, objects
<1>5. CASE DeleteGalleryPhoto(r)
  <2>1. RemoveErase(r)
    BY <1>5 DEF DeleteGalleryPhoto, objects
  <2> QED BY <1>1, <2>1 DEF RemoveErase, Erase, Goto, Become, At, TypeOK
<1>6. CASE DeleteUser(r)
  <2>1. DeleteErase(r)
    BY <1>6 DEF DeleteUser, objects
  <2> QED BY <1>1, <2>1 DEF DeleteErase, Erase, Become, At, objects, TypeOK
<1>7. CASE DeleteSchool(r)
  <2>1. SweepPurge(r)
    BY <1>7 DEF DeleteSchool, objects
  <2> QED BY <1>1, <2>1 DEF SweepPurge, Erase, Goto, Become, TypeOK
<1>8. CASE Upload(r) \/ Fail(r)
  BY <1>8 DEF Upload, Fail, objects
<1> QED BY <1>2, <1>3, <1>4, <1>5, <1>6, <1>7, <1>8

LEMMA ErasedBy ==
    ASSUME Inv, [Next]_vars, NEW r \in Requests, NEW k \in bucket \ bucket',
           req[r] # req'[r]
    PROVE  /\ k \in req[r].keys
           /\ \/ At(r, "replace", "displace")
              \/ req[r].op \in {"clear", "remove", "delete"} \cup Sweeps
<1>1. CASE \E u \in Users, p \in Places : MoveUserToClass(u, p)
  BY <1>1 DEF MoveUserToClass, objects
<1>2. CASE UNCHANGED vars
  BY <1>2 DEF vars, objects
<1>3. ASSUME NEW q \in Requests,
             \/ CreatePhotoUploadUrl(q) \/ DeletePhoto(q)
             \/ CreateGalleryUploadUrl(q) \/ DeleteGalleryPhoto(q)
             \/ DeleteUser(q) \/ DeleteSchool(q)
             \/ Upload(q) \/ Fail(q)
      PROVE  /\ k \in req[r].keys
             /\ \/ At(r, "replace", "displace")
                \/ req[r].op \in {"clear", "remove", "delete"} \cup Sweeps
  <2>1. /\ \A s \in Requests \ {q} : req'[s] = req[s]
        /\ k \in req[q].keys
        /\ \/ At(q, "replace", "displace")
           \/ req[q].op \in {"clear", "remove", "delete"} \cup Sweeps
    BY <1>3, Erasing
  <2>2. q = r
    BY <2>1
  <2> QED BY <2>1, <2>2
<1> QED BY <1>1, <1>2, <1>3 DEF Next

(* A key that something knows: a request, a profile, the bucket, or S3 from *)
(* having deleted it.                                                       *)
Around(k) ==
    \/ \E q \in Requests : k = req[q].key \/ k \in req[q].keys
    \/ \E u \in Users, kind \in ProfileKinds : k = photo[u][kind]
    \/ k \in bucket \cup erased

(* No key is of a later millisecond than the last that was built.           *)
Young == \A k \in Keys : Around(k) => k.ms <= clock

LEMMA NamesAreAround ==
    ASSUME Inv, NEW u \in Users, NEW k \in Names(u)
    PROVE  Around(k)
BY DEF Inv, TypeOK, Names, GalleryOf, Around

(* What a step of r may leave around: what was, and the key it has built.   *)
LEMMA StaysAround ==
    ASSUME Inv, NEW r \in Requests, \A q \in Requests \ {r} : req'[q] = req[q],
           NEW new, req'[r].key \in {req[r].key, Null, new},
           \A k \in req'[r].keys : Around(k),
           \A u \in Users, kind \in ProfileKinds :
               photo'[u][kind] = Null \/ Around(photo'[u][kind]),
           \A k \in bucket' \cup erased' : Around(k)
    PROVE  \A k \in Keys : Around(k)' => Around(k) \/ k = new
<1> SUFFICES ASSUME NEW k \in Keys, Around(k)' PROVE Around(k) \/ k = new
  OBVIOUS
<1>1. k # Null
  BY NullIsNothing
<1>2. ASSUME NEW q \in Requests, k = req'[q].key \/ k \in req'[q].keys
      PROVE  Around(k) \/ k = new
  <2>1. CASE q = r
    <3>1. CASE k \in req'[q].keys
      BY <2>1, <3>1
    <3>2. CASE k = req'[q].key
      BY <1>1, <2>1, <3>2 DEF Around
    <3> QED BY <1>2, <3>1, <3>2
  <2>2. CASE q # r
    BY <1>2, <2>2 DEF Around
  <2> QED BY <2>1, <2>2
<1>3. ASSUME NEW u \in Users, NEW kind \in ProfileKinds, k = photo'[u][kind]
      PROVE  Around(k)
  BY <1>1, <1>3
<1>4. ASSUME k \in bucket' \cup erased' PROVE Around(k)
  BY <1>4
<1> QED BY <1>2, <1>3, <1>4 DEF Around

(* A step that only moves r on, and what r was about to delete goes, or a   *)
(* key it holds is stored.                                                  *)
LEMMA MovedOn ==
    ASSUME Inv, NEW r \in Requests, NEW pc, Goto(r, pc)
    PROVE  /\ \A q \in Requests \ {r} : req'[q] = req[q]
           /\ req'[r].key = req[r].key /\ req'[r].keys = req[r].keys
BY DEF Inv, TypeOK, Request, Goto, Become

LEMMA BegunOn ==
    ASSUME Inv, NEW r \in Requests, NEW local, Begin(r, local)
    PROVE  (\A q \in Requests \ {r} : req'[q] = req[q]) /\ req'[r] = local
BY DEF Inv, TypeOK, Begin

LEMMA BecomeOn ==
    ASSUME Inv, NEW r \in Requests, NEW local, Become(r, local)
    PROVE  (\A q \in Requests \ {r} : req'[q] = req[q]) /\ req'[r] = local
BY DEF Inv, TypeOK, Become

LEMMA HeldIsAround ==
    ASSUME Inv, NEW r \in Requests
    PROVE  /\ req[r].key # Null => Around(req[r].key)
           /\ \A k \in req[r].keys : Around(k)
           /\ \A k \in bucket \cup erased : Around(k)
           /\ \A u \in Users, kind \in ProfileKinds :
                 photo[u][kind] = Null \/ Around(photo[u][kind])
BY DEF Around

LEMMA NothingElseAround ==
    ASSUME Inv, NEW r \in Requests, NEW key, NEW K,
           \A q \in Requests \ {r} : req'[q] = req[q],
           req'[r].key = key, key \in {req[r].key, Null},
           req'[r].keys = K, \A k \in K : Around(k),
           \A u \in Users, kind \in ProfileKinds :
               photo'[u][kind] \in {photo[u][kind], Null, req[r].key},
           bucket' \subseteq bucket \cup {req[r].key},
           erased' \subseteq erased \cup req[r].keys,
           req[r].key = Null => bucket' \subseteq bucket
    PROVE  \A k \in Keys : Around(k)' => Around(k)
<1>1. \A u \in Users, kind \in ProfileKinds :
          photo'[u][kind] = Null \/ Around(photo'[u][kind])
  BY HeldIsAround
<1>2. \A k \in bucket' \cup erased' : Around(k)
  BY HeldIsAround
<1>3. \A k \in Keys : Around(k)' => Around(k) \/ k = Null
  BY <1>1, <1>2, StaysAround
<1> QED BY <1>3, NullIsNothing

(* The other requests that look a row up hold no key either.               *)
LEMMA AddBegins ==
    ASSUME NEW r \in Requests, AddCount(r)
    PROVE  \E local : Begin(r, local) /\ local.key = Null /\ local.keys = {}
<1>1. PICK u \in Users :
        Begin(r, [NoRequest EXCEPT
            !.op = "add", !.user = u, !.kind = Gallery,
            !.pc = IF Cardinality(GalleryOf(u)) >= Limit
                     THEN "refused" ELSE "placement"])
  BY DEF AddCount
<1>2. PICK pc \in Steps \cup Final :
          pc = IF Cardinality(GalleryOf(u)) >= Limit THEN "refused" ELSE "placement"
  BY DEF Steps, Final
<1>3. PICK op \in Ops : op = "add"
  BY DEF Ops, Mints
<1>4. PICK local : local = [NoRequest EXCEPT !.op = op, !.user = u, !.kind = Gallery,
                                             !.pc = pc]
  OBVIOUS
<1>5. local.keys = {} /\ local.key = Null
  BY <1>4, Blank DEF Request
<1>6. Begin(r, local)
  BY <1>1, <1>2, <1>3, <1>4
<1> QED BY <1>5, <1>6

LEMMA DeleteBegins ==
    ASSUME NEW r \in Requests, DeleteLookup(r)
    PROVE  \E local : Begin(r, local) /\ local.key = Null /\ local.keys = {}
<1>1. PICK u \in Users :
        Begin(r, [NoRequest EXCEPT
            !.op = "delete", !.user = u,
            !.pc = IF u \in live THEN "collect" ELSE "refused"])
  BY DEF DeleteLookup
<1>2. PICK op \in Ops : op = "delete"
  BY DEF Ops
<1>3. PICK pc \in Steps \cup Final : pc = IF u \in live THEN "collect" ELSE "refused"
  BY DEF Steps, Final
<1>4. PICK local : local = [NoRequest EXCEPT !.op = op, !.user = u, !.pc = pc]
  OBVIOUS
<1>5. local.keys = {} /\ local.key = Null
  BY <1>4, Blank DEF Request
<1>6. Begin(r, local)
  BY <1>1, <1>2, <1>3, <1>4
<1> QED BY <1>5, <1>6

LEMMA SweepBegins ==
    ASSUME NEW r \in Requests, SweepLookup(r)
    PROVE  \E local : Begin(r, local) /\ local.key = Null /\ local.keys = {}
<1>1. ASSUME NEW s \in Schools,
             Begin(r, [NoRequest EXCEPT
                !.op = "school", !.school = s,
                !.region = {p \in Places : School[p] = s},
                !.pc = IF s \in schools THEN "list" ELSE "refused"])
      PROVE  \E local : Begin(r, local) /\ local.key = Null /\ local.keys = {}
  <2>1. PICK op \in Ops : op = "school"
    BY DEF Ops, Sweeps
  <2>2. PICK pc \in Steps \cup Final : pc = IF s \in schools THEN "list" ELSE "refused"
    BY DEF Steps, Final
  <2>3. PICK region \in SUBSET Places : region = {p \in Places : School[p] = s}
    OBVIOUS
  <2>4. PICK local : local = [NoRequest EXCEPT !.op = op, !.school = s, !.region = region,
                                               !.pc = pc]
    OBVIOUS
  <2>5. local.key = Null /\ local.keys = {}
    BY <2>4, Blank DEF Request
  <2>6. Begin(r, local)
    BY <1>1, <2>1, <2>2, <2>3, <2>4
  <2> QED BY <2>5, <2>6
<1>2. ASSUME NEW p \in Places, NEW op \in {"cascade", "unlink"},
             Begin(r, [NoRequest EXCEPT
                !.op = op, !.region = {p},
                !.pc = CASE p \notin linked -> "refused"
                         [] p \in linked /\ op = "cascade" -> "list"
                         [] OTHER -> "leave"])
      PROVE  \E local : Begin(r, local) /\ local.key = Null /\ local.keys = {}
  <2>1. PICK pc \in Steps \cup Final :
            pc = IF p \notin linked THEN "refused"
                 ELSE IF op = "cascade" THEN "list" ELSE "leave"
    BY DEF Steps, Final
  <2>2. pc = CASE p \notin linked -> "refused"
               [] p \in linked /\ op = "cascade" -> "list"
               [] OTHER -> "leave"
    BY <2>1
  <2>3. PICK local : local = [NoRequest EXCEPT !.op = op, !.region = {p}, !.pc = pc]
    OBVIOUS
  <2>4. local.key = Null /\ local.keys = {}
    BY <2>3, Blank DEF Request
  <2>5. Begin(r, local)
    BY <1>2, <2>2, <2>3
  <2> QED BY <2>4, <2>5
<1> QED BY <1>1, <1>2 DEF SweepLookup

(* The key to delete is the row's.                                         *)
LEMMA RemoveBegins ==
    ASSUME Inv, NEW r \in Requests, RemoveLookup(r)
    PROVE  \E local : /\ Begin(r, local) /\ local.key = Null
                      /\ \A k \in local.keys : Around(k)
<1>1. PICK op \in Ops : op = "remove"
  BY DEF Ops
<1>2. PICK u \in Users :
        LET local == [NoRequest EXCEPT !.op = "remove", !.user = u, !.kind = Gallery]
        IN  \/ \E g \in GalleryOf(u) :
                  Begin(r, [local EXCEPT !.pc = "erase", !.row = g, !.keys = {req[g].key}])
            \/ Begin(r, [local EXCEPT !.pc = "refused"])
  BY DEF RemoveLookup
<1>3. PICK l : l = [NoRequest EXCEPT !.op = op, !.user = u, !.kind = Gallery]
  OBVIOUS
<1>4. l \in Request /\ l.key = Null /\ l.keys = {}
  <2>1. Gallery \in Kinds
    BY DEF Kinds
  <2> QED BY <1>3, <2>1, Blank DEF Request
<1>5. CASE \E g \in GalleryOf(u) :
              Begin(r, [l EXCEPT !.pc = "erase", !.row = g, !.keys = {req[g].key}])
  <2>1. PICK g \in GalleryOf(u) :
              Begin(r, [l EXCEPT !.pc = "erase", !.row = g, !.keys = {req[g].key}])
    BY <1>5
  <2>2. PICK K : K = {req[g].key}
    OBVIOUS
  <2>3. PICK pc \in Steps \cup Final : pc = "erase"
    BY DEF Steps
  <2>4. PICK m : m = [l EXCEPT !.pc = pc, !.row = g, !.keys = K]
    OBVIOUS
  <2>5. m.key = Null /\ m.keys = K
    BY <1>4, <2>4 DEF Request
  <2>6. Begin(r, m)
    BY <2>1, <2>2, <2>3, <2>4
  <2>7. \A k \in K : Around(k)
    BY <2>2 DEF Around, GalleryOf, Inv, TypeOK
  <2> QED BY <2>5, <2>6, <2>7
<1>6. CASE Begin(r, [l EXCEPT !.pc = "refused"])
  <2>1. PICK pc \in Steps \cup Final : pc = "refused"
    BY DEF Final
  <2>2. PICK m : m = [l EXCEPT !.pc = pc]
    OBVIOUS
  <2>3. m.key = Null /\ m.keys = {}
    BY <1>4, <2>2 DEF Request
  <2>4. Begin(r, m)
    BY <1>6, <2>1, <2>2
  <2> QED BY <2>3, <2>4
<1> QED BY <1>1, <1>2, <1>3, <1>5, <1>6

LEMMA ProfileAround ==
    ASSUME Inv, NEW r \in Requests,
           \/ ReplaceLookup(r) /\ UNCHANGED <<photo, objects>>
           \/ ReplaceRecord(r)
           \/ ReplaceDisplace(r)
           \/ DeletePhoto(r)
    PROVE  \A k \in Keys : Around(k)' => Around(k)
<1>1. CASE ReplaceLookup(r) /\ UNCHANGED <<photo, objects>>
  <2>1. PICK local : Begin(r, local) /\ local.key = Null /\ local.keys = {}
    BY <1>1, ReplaceBegins DEF Inv
  <2>2. /\ \A q \in Requests \ {r} : req'[q] = req[q]
        /\ req'[r].key = Null /\ req'[r].keys = {}
    BY <2>1, BegunOn
  <2> QED BY <1>1, <2>2, NothingElseAround DEF objects
<1>2. CASE ReplaceRecord(r)
  <2>1. PICK pc : Goto(r, pc) /\ UNCHANGED objects
    BY <1>2 DEF ReplaceRecord
  <2>2. \A u \in Users, kind \in ProfileKinds :
            photo'[u][kind] \in {photo[u][kind], Null, req[r].key}
    BY <1>2 DEF ReplaceRecord, Inv, TypeOK
  <2> QED BY <2>1, <2>2, MovedOn, HeldIsAround, NothingElseAround DEF objects
<1>3. CASE ReplaceDisplace(r)
  <2>1. /\ Goto(r, "ok") /\ UNCHANGED photo
        /\ bucket' \subseteq bucket /\ erased' \subseteq erased \cup req[r].keys
    BY <1>3 DEF ReplaceDisplace, Erase, objects
  <2> QED BY <2>1, MovedOn, HeldIsAround, NothingElseAround
<1>4. CASE ClearLookup(r) /\ UNCHANGED <<photo, objects>>
  <2>1. PICK u \in Users, kind \in ProfileKinds :
            /\ \A q \in Requests \ {r} : req'[q] = req[q]
            /\ req'[r].key = Null /\ req'[r].keys = {photo[u][kind]} \ {Null}
    BY <1>4 DEF ClearLookup, Begin, NoRequest, Inv, TypeOK
  <2>2. \A k \in req'[r].keys : Around(k)
    BY <2>1, HeldIsAround
  <2> QED BY <1>4, <2>1, <2>2, NothingElseAround DEF objects
<1>5. CASE ClearErase(r) /\ UNCHANGED photo
  <2>1. /\ Goto(r, "record") /\ bucket' \subseteq bucket
        /\ erased' \subseteq erased \cup req[r].keys
    BY <1>5 DEF ClearErase, Erase
  <2> QED BY <1>5, <2>1, MovedOn, HeldIsAround, NothingElseAround
<1>6. CASE ClearRecord(r) /\ UNCHANGED objects
  <2>1. \A u \in Users, kind \in ProfileKinds :
            photo'[u][kind] \in {photo[u][kind], Null, req[r].key}
    BY <1>6 DEF ClearRecord, Inv, TypeOK
  <2>2. Goto(r, "ok")
    BY <1>6 DEF ClearRecord
  <2> QED BY <1>6, <2>1, <2>2, MovedOn, HeldIsAround, NothingElseAround DEF objects
<1> QED BY <1>1, <1>2, <1>3, <1>4, <1>5, <1>6 DEF DeletePhoto

LEMMA GalleryAround ==
    ASSUME Inv, NEW r \in Requests,
           \/ AddCount(r) /\ UNCHANGED <<photo, objects>>
           \/ AddInsert(r) /\ UNCHANGED <<photo, objects>>
           \/ DeleteGalleryPhoto(r)
           \/ Upload(r) \/ Fail(r)
    PROVE  \A k \in Keys : Around(k)' => Around(k)
<1>1. CASE AddCount(r) /\ UNCHANGED <<photo, objects>>
  <2>1. PICK local : Begin(r, local) /\ local.key = Null /\ local.keys = {}
    BY <1>1, AddBegins
  <2>2. /\ \A q \in Requests \ {r} : req'[q] = req[q]
        /\ req'[r].key = Null /\ req'[r].keys = {}
    BY <2>1, BegunOn
  <2> QED BY <1>1, <2>2, NothingElseAround DEF objects
<1>2. CASE AddInsert(r) /\ UNCHANGED <<photo, objects>>
  <2>1. PICK pc : Goto(r, pc)
    BY <1>2 DEF AddInsert
  <2> QED BY <1>2, <2>1, MovedOn, HeldIsAround, NothingElseAround DEF objects
<1>3. CASE RemoveLookup(r) /\ UNCHANGED <<photo, objects>>
  <2>1. PICK local : /\ Begin(r, local) /\ local.key = Null
                     /\ \A k \in local.keys : Around(k)
    BY <1>3, RemoveBegins
  <2>2. (\A q \in Requests \ {r} : req'[q] = req[q]) /\ req'[r] = local
    BY <2>1, BegunOn
  <2> QED BY <1>3, <2>1, <2>2, NothingElseAround DEF objects
<1>4. CASE RemoveErase(r) /\ UNCHANGED photo
  <2>1. /\ Goto(r, "unlist") /\ bucket' \subseteq bucket
        /\ erased' \subseteq erased \cup req[r].keys
    BY <1>4 DEF RemoveErase, Erase
  <2> QED BY <1>4, <2>1, MovedOn, HeldIsAround, NothingElseAround
<1>5. CASE RemoveUnlist(r) /\ UNCHANGED <<photo, objects>>
  <2>1. Goto(r, "ok")
    BY <1>5 DEF RemoveUnlist
  <2> QED BY <1>5, <2>1, MovedOn, HeldIsAround, NothingElseAround DEF objects
<1>6. CASE Upload(r)
  <2>1. /\ req' = req /\ photo' = photo /\ erased' = erased
        /\ bucket' = bucket \cup {req[r].key} /\ req[r].key # Null
    BY <1>6 DEF Upload, rows, Inv, Sound, Own, Holding
  <2> QED BY <2>1, HeldIsAround, NothingElseAround
<1>7. CASE Fail(r)
  <2>1. Goto(r, "failed") /\ UNCHANGED <<photo, bucket, erased>>
    BY <1>7 DEF Fail, rows, objects
  <2> QED BY <2>1, MovedOn, HeldIsAround, NothingElseAround
<1> QED BY <1>1, <1>2, <1>3, <1>4, <1>5, <1>6, <1>7 DEF DeleteGalleryPhoto

LEMMA UsersAround ==
    ASSUME Inv, NEW r \in Requests, DeleteUser(r)
    PROVE  \A k \in Keys : Around(k)' => Around(k)
<1>1. CASE DeleteLookup(r) /\ UNCHANGED <<rows, objects>>
  <2>1. PICK local : Begin(r, local) /\ local.key = Null /\ local.keys = {}
    BY <1>1, DeleteBegins
  <2>2. /\ \A q \in Requests \ {r} : req'[q] = req[q]
        /\ req'[r].key = Null /\ req'[r].keys = {}
    BY <2>1, BegunOn
  <2> QED BY <1>1, <2>2, NothingElseAround DEF rows, objects
<1>2. CASE DeleteCollect(r) /\ UNCHANGED <<rows, objects>>
  <2>1. /\ \A q \in Requests \ {r} : req'[q] = req[q]
        /\ req'[r].key = req[r].key /\ req'[r].keys = Names(req[r].user)
    BY <1>2 DEF DeleteCollect, Become, Inv, TypeOK, Request
  <2>2. req[r].user \in Users
    BY <1>2 DEF DeleteCollect, At, Inv, Sound, Own, Keeping
  <2>3. \A k \in req'[r].keys : Around(k)
    BY <2>1, <2>2, NamesAreAround
  <2> QED BY <1>2, <2>1, <2>3, NothingElseAround DEF rows, objects
<1>3. CASE DeleteErase(r) /\ UNCHANGED rows
  <2>1. PICK k \in req[r].keys :
            /\ \A q \in Requests \ {r} : req'[q] = req[q]
            /\ req'[r].key = req[r].key /\ req'[r].keys = req[r].keys \ {k}
            /\ bucket' \subseteq bucket /\ erased' \subseteq erased \cup {k}
    BY <1>3 DEF DeleteErase, Become, Erase, objects, Inv, TypeOK, Request
  <2>2. \A l \in req'[r].keys : Around(l)
    BY <2>1, HeldIsAround
  <2> QED BY <1>3, <2>1, <2>2, NothingElseAround DEF rows
<1>4. CASE DeleteDrop(r) /\ UNCHANGED objects
  <2>1. Goto(r, "ok")
    BY <1>4 DEF DeleteDrop
  <2>2. \A u \in Users, kind \in ProfileKinds :
            photo'[u][kind] \in {photo[u][kind], Null, req[r].key}
    BY <1>4 DEF DeleteDrop, Drop
  <2> QED BY <1>4, <2>1, <2>2, MovedOn, HeldIsAround, NothingElseAround DEF objects
<1> QED BY <1>1, <1>2, <1>3, <1>4 DEF DeleteUser

LEMMA SweepsAround ==
    ASSUME Inv, NEW r \in Requests, DeleteSchool(r)
    PROVE  \A k \in Keys : Around(k)' => Around(k)
<1>1. CASE SweepLookup(r) /\ UNCHANGED <<rows, objects>>
  <2>1. PICK local : Begin(r, local) /\ local.key = Null /\ local.keys = {}
    BY <1>1, SweepBegins
  <2>2. /\ \A q \in Requests \ {r} : req'[q] = req[q]
        /\ req'[r].key = Null /\ req'[r].keys = {}
    BY <2>1, BegunOn
  <2> QED BY <1>1, <2>2, NothingElseAround DEF rows, objects
<1>2. CASE SweepList(r) /\ UNCHANGED <<rows, objects>>
  <2>1. /\ \A q \in Requests \ {r} : req'[q] = req[q]
        /\ req'[r].key = req[r].key /\ req'[r].keys \subseteq bucket
    BY <1>2 DEF SweepList, Become, Inv, TypeOK, Request
  <2>2. \A k \in req'[r].keys : Around(k)
    BY <2>1, HeldIsAround
  <2> QED BY <1>2, <2>1, <2>2, NothingElseAround DEF rows, objects
<1>3. CASE SweepPurge(r) /\ UNCHANGED rows
  <2>1. /\ Goto(r, "members") /\ bucket' \subseteq bucket
        /\ erased' \subseteq erased \cup req[r].keys
    BY <1>3 DEF SweepPurge, Erase
  <2> QED BY <1>3, <2>1, MovedOn, HeldIsAround, NothingElseAround DEF rows
<1>4. CASE SweepMembers(r) /\ UNCHANGED <<rows, objects>>
  <2>1. /\ \A q \in Requests \ {r} : req'[q] = req[q]
        /\ req'[r].key = req[r].key /\ req'[r].keys = req[r].keys
    BY <1>4 DEF SweepMembers, Become, Inv, TypeOK, Request
  <2> QED BY <1>4, <2>1, HeldIsAround, NothingElseAround DEF rows, objects
<1>5. CASE SweepDrop(r) /\ UNCHANGED objects
  <2>1. Goto(r, "close")
    BY <1>5 DEF SweepDrop
  <2>2. \A u \in Users, kind \in ProfileKinds :
            photo'[u][kind] \in {photo[u][kind], Null, req[r].key}
    BY <1>5 DEF SweepDrop, Drop
  <2> QED BY <1>5, <2>1, <2>2, MovedOn, HeldIsAround, NothingElseAround DEF objects
<1>6. CASE (UnlinkLeave(r) \/ SweepClose(r)) /\ UNCHANGED objects
  <2>1. PICK pc : Goto(r, pc) /\ UNCHANGED photo
    BY <1>6 DEF UnlinkLeave, SweepClose
  <2> QED BY <1>6, <2>1, MovedOn, HeldIsAround, NothingElseAround DEF objects
<1> QED BY <1>1, <1>2, <1>3, <1>4, <1>5, <1>6 DEF DeleteSchool

(* Of any step: the clock stands still and nothing new is around, or one    *)
(* request has built a key of the time now.                                 *)
Building(r) ==
    /\ clock \in Nat /\ clock' \in Nat /\ clock <= clock'
    /\ \A q \in Requests \ {r} : req'[q] = req[q]
    /\ \/ clock' = clock /\ req'[r].key = req[r].key
       \/ req'[r].key # Null /\ req'[r].key.ms = clock'
    /\ \A k \in Keys : Around(k)' => Around(k) \/ k = req'[r].key

(* A key is built of the time now, which is no earlier than any before.     *)
LEMMA ReplaceBuilds ==
    ASSUME Inv, NEW r \in Requests, ReplaceRead(r), UNCHANGED <<photo, objects>>
    PROVE  Building(r)
<1> USE NullIsNothing
<1>1. TypeOK /\ Sound(r)
  BY DEF Inv
<1>2. PICK q : q = req[r]
  OBVIOUS
<1>3. /\ q.folder \in Folders /\ q.user \in Users /\ q.kind \in ProfileKinds
      /\ q \in Request
  BY <1>1, <1>2 DEF ReplaceRead, At, Sound, Own, Keeping, Holding, Sweeping, Mints, Sweeps,
                    TypeOK
<1>4. PICK old : old = photo[q.user][q.kind]
  OBVIOUS
<1>5. PICK t \in clock .. MaxMs, key \in {BuildKey(q.user, q.kind, q.folder, clock')} :
        /\ clock' = t
        /\ Become(r, [q EXCEPT !.pc = "record", !.key = key, !.keys = {old} \ {Null, key}])
  BY <1>2, <1>4 DEF ReplaceRead
<1>6. clock \in Nat /\ clock' \in 0 .. MaxMs /\ clock' \in Nat /\ clock <= clock'
  BY <1>1, <1>5, PhotosAssumption DEF TypeOK
<1>7. key \in Keys /\ key.ms = clock'
  BY <1>3, <1>5, <1>6 DEF BuildKey, Keys, Kinds
<1>8. PICK keys : keys = {old} \ {Null, key}
  OBVIOUS
<1>9. PICK local : local = [q EXCEPT !.pc = "record", !.key = key, !.keys = keys]
  OBVIOUS
<1>10. local.key = key /\ local.keys = keys
  <2>1. PICK pc \in Steps : pc = "record"
    BY DEF Steps
  <2> QED BY <1>3, <1>9, <2>1 DEF Request
<1>11. (\A s \in Requests \ {r} : req'[s] = req[s]) /\ req'[r] = local
  BY <1>5, <1>8, <1>9, BecomeOn
<1>12. \A k \in local.keys : Around(k)
  BY <1>3, <1>4, <1>8, <1>10, HeldIsAround
<1>13. \A k \in Keys : Around(k)' => Around(k) \/ k = key
  BY <1>10, <1>11, <1>12, HeldIsAround, StaysAround DEF objects
<1> QED BY <1>6, <1>7, <1>10, <1>11, <1>13 DEF Building

LEMMA PlacementBuilds ==
    ASSUME Inv, NEW r \in Requests, AddPlacement(r), UNCHANGED <<photo, objects>>
    PROVE  Building(r)
<1> USE NullIsNothing
<1>1. TypeOK /\ Sound(r)
  BY DEF Inv
<1>2. PICK q \in Request : q = req[r]
  BY <1>1 DEF TypeOK
<1>3. q.user \in Users /\ q.kind = Gallery
  BY <1>1, <1>2 DEF AddPlacement, At, Sound, Own, Keeping, Mints
<1>4. clock \in Nat
  BY <1>1, PhotosAssumption DEF TypeOK
<1>5. CASE q.user \in live
  <2>1. PICK f \in Placements(q.user), t \in clock .. MaxMs :
            /\ clock' = t
            /\ Become(r, [q EXCEPT !.pc = "insert", !.folder = f,
                                   !.key = BuildKey(q.user, q.kind, f, t)])
    BY <1>2, <1>5 DEF AddPlacement
  <2>2. f \in Folders
    BY <1>1, <1>3, <2>1 DEF Placements, Folders, TypeOK
  <2>3. clock' \in 0 .. MaxMs /\ clock' \in Nat /\ clock <= clock'
    BY <1>1, <2>1, PhotosAssumption DEF TypeOK
  <2>4. PICK key : key = BuildKey(q.user, q.kind, f, t)
    OBVIOUS
  <2>5. key \in Keys /\ key.ms = clock'
    BY <1>3, <2>1, <2>2, <2>3, <2>4 DEF BuildKey, Keys, Kinds
  <2>6. PICK pc \in Steps : pc = "insert"
    BY DEF Steps
  <2>7. PICK local : local = [q EXCEPT !.pc = pc, !.folder = f, !.key = key]
    OBVIOUS
  <2>8. local.key = key /\ local.keys = q.keys
    BY <2>7 DEF Request
  <2>9. (\A s \in Requests \ {r} : req'[s] = req[s]) /\ req'[r] = local
    BY <2>1, <2>4, <2>6, <2>7, BecomeOn
  <2>10. \A k \in Keys : Around(k)' => Around(k) \/ k = key
    BY <1>2, <2>8, <2>9, HeldIsAround, StaysAround DEF objects
  <2> QED BY <1>4, <2>3, <2>5, <2>8, <2>9, <2>10 DEF Building
<1>6. CASE q.user \notin live
  <2>1. Goto(r, "refused") /\ clock' = clock
    BY <1>2, <1>6 DEF AddPlacement
  <2>2. /\ \A s \in Requests \ {r} : req'[s] = req[s]
        /\ req'[r].key = req[r].key /\ req'[r].keys = req[r].keys
    BY <2>1, MovedOn
  <2>3. \A k \in Keys : Around(k)' => Around(k)
    BY <2>2, HeldIsAround, NothingElseAround DEF objects
  <2> QED BY <1>4, <2>1, <2>2, <2>3 DEF Building
<1> QED BY <1>5, <1>6

LEMMA BuildingOrNot ==
    ASSUME Inv, [Next]_vars
    PROVE  \/ clock' = clock /\ \A k \in Keys : Around(k)' => Around(k)
           \/ \E r \in Requests : Building(r)
<1>1. CASE UNCHANGED vars
  BY <1>1 DEF vars, rows, objects, Around
<1>2. CASE \E u \in Users, p \in Places : MoveUserToClass(u, p)
  BY <1>2 DEF MoveUserToClass, objects, Around
<1>3. ASSUME NEW r \in Requests, CreatePhotoUploadUrl(r)
      PROVE  \/ clock' = clock /\ \A k \in Keys : Around(k)' => Around(k)
             \/ Building(r)
  BY <1>3, ProfileAround, ReplaceBuilds DEF CreatePhotoUploadUrl
<1>4. ASSUME NEW r \in Requests, CreateGalleryUploadUrl(r)
      PROVE  \/ clock' = clock /\ \A k \in Keys : Around(k)' => Around(k)
             \/ Building(r)
  BY <1>4, GalleryAround, PlacementBuilds DEF CreateGalleryUploadUrl, objects
<1>5. ASSUME NEW r \in Requests,
             \/ DeletePhoto(r) \/ DeleteGalleryPhoto(r)
             \/ DeleteUser(r) \/ DeleteSchool(r) \/ Upload(r) \/ Fail(r)
      PROVE  clock' = clock /\ \A k \in Keys : Around(k)' => Around(k)
  <2>1. clock' = clock
    BY <1>5 DEF DeletePhoto, DeleteGalleryPhoto, DeleteUser, DeleteSchool, Upload, Fail
  <2> QED BY <1>5, <2>1, ProfileAround, GalleryAround, UsersAround, SweepsAround
<1> QED BY <1>1, <1>2, <1>3, <1>4, <1>5 DEF Next

LEMMA YoungInit == ASSUME Init PROVE Young
<1> SUFFICES ASSUME NEW k \in Keys, Around(k) PROVE k.ms <= clock
  BY DEF Young
<1>1. \A q \in Requests : req[q].key = Null /\ req[q].keys = {}
  BY DEF Init, NoRequest
<1>2. PICK u \in Users, kind \in ProfileKinds : k = photo[u][kind]
  BY <1>1, NullIsNothing DEF Init, Around
<1>3. k # Null /\ clock = 1
  BY NullIsNothing DEF Init
<1>4. k.ms = 0
  BY <1>2, <1>3 DEF Init
<1> QED BY <1>3, <1>4

LEMMA YoungStep == ASSUME Inv, Young, [Next]_vars PROVE Young'
<1> SUFFICES ASSUME NEW k \in Keys, Around(k)' PROVE k.ms <= clock'
  BY DEF Young
<1>1. k.ms \in Nat /\ clock \in Nat
  BY PhotosAssumption DEF Keys, Inv, TypeOK
<1>2. CASE clock' = clock /\ Around(k)
  BY <1>2 DEF Young
<1>3. ASSUME NEW r \in Requests, Building(r) PROVE k.ms <= clock'
  <2>1. CASE Around(k)
    <3>1. k.ms <= clock /\ clock <= clock' /\ clock' \in Nat
      BY <1>3, <2>1 DEF Building, Young
    <3> QED BY <1>1, <3>1
  <2>2. CASE k = req'[r].key
    <3>1. \/ clock' = clock /\ k = req[r].key
          \/ k.ms = clock' /\ clock' \in Nat
      BY <1>3, <2>2 DEF Building
    <3>2. CASE clock' = clock /\ k = req[r].key
      BY <3>2 DEF Young, Around
    <3> QED BY <3>1, <3>2
  <2> QED BY <1>3, <2>1, <2>2 DEF Building
<1> QED BY <1>2, <1>3, BuildingOrNot

THEOREM YoungInvariance == Spec => []Young
<1>1. Init => Young
  BY YoungInit
<1>2. Inv /\ Young /\ [Next]_vars => Young'
  BY YoungStep
<1> QED BY <1>1, <1>2, Invariance, PTL DEF Spec

LEMMA BuiltIsFresh ==
    ASSUME Inv, Young, [Next]_vars, NEW r \in Requests,
           req'[r].key # req[r].key, req'[r].key # Null, clock' # clock
    PROVE  ~Around(req'[r].key)
<1>1. PICK s \in Requests : Building(s)
  BY BuildingOrNot
<1>2. s = r
  BY <1>1 DEF Building
<1>3. /\ req'[r].key.ms = clock' /\ clock \in Nat /\ clock' \in Nat /\ clock <= clock'
  BY <1>1, <1>2 DEF Building
<1>4. req'[r].key \in Keys
  BY RequestStep, MoveStep, StutterStep DEF Next, Inv, TypeOK, Request
<1> QED BY <1>3, <1>4 DEF Young

(* S3 is told to delete nobody else's objects, a replaced photo only once   *)
(* the profile names another, and a key that was built in a later           *)
(* millisecond than the one before is nobody's yet.                         *)
THEOREM DeletesStayOwn == Spec => DeletesAreOwn
<1>1. ASSUME Inv, [Next]_vars, NEW r \in Requests, NEW k \in bucket \ bucket',
             req[r] # req'[r], req[r].op = "replace"
      PROVE  \/ k \notin Names(k.user)
             \/ \E q, s \in Requests : q # s /\ req[q].key = k /\ req[s].key = k
  <2>1. At(r, "replace", "displace") /\ k \in req[r].keys
    BY <1>1, ErasedBy DEF Sweeps
  <2>2. /\ req[r].user \in Users /\ req[r].kind \in ProfileKinds
        /\ k.user = req[r].user /\ k.kind = req[r].kind
    BY <1>1, <2>1 DEF Inv, Sound, Own, Keeping, Holding, Mints, Sweeps, Ops
  <2>3. CASE k = photo[req[r].user][req[r].kind]
    BY <1>1, <2>1, <2>3 DEF Inv, Sound, Tables, Displacing, Twice
  <2>4. CASE k # photo[req[r].user][req[r].kind]
    <3>1. ASSUME NEW j \in ProfileKinds, k = photo[k.user][j], k # Null PROVE FALSE
      BY <1>1, <2>2, <2>4, <3>1 DEF Inv, PhotoRow
    <3>2. ASSUME NEW g \in gallery, k = req[g].key, k # Null PROVE FALSE
      <4>1. g \in Requests /\ req[g].op = "add"
        BY <1>1 DEF Inv, TypeOK, GalleryRow, At
      <4> QED BY <1>1, <2>2, <3>2, <4>1, PhotosAssumption DEF Inv, Sound, Own, Keeping
    <3> QED BY <3>1, <3>2 DEF Names, GalleryOf
  <2> QED BY <2>3, <2>4
<1>2. ASSUME Inv, [Next]_vars, NEW r \in Requests, NEW k \in bucket \ bucket',
             req[r] # req'[r], req[r].op \notin Sweeps
      PROVE  k.user = req[r].user
  <2>1. k \in req[r].keys /\ req[r].op \in {"replace", "clear", "remove", "delete"}
    BY <1>2, ErasedBy DEF At
  <2> QED BY <1>2, <2>1 DEF Inv, Sound, Own, Holding, Ops, Mints
<1>3. Inv /\ [Next]_vars =>
        [\A r \in Requests : \A k \in bucket \ bucket' :
            req[r] # req'[r] /\ req[r].op = "replace" =>
                \/ k \notin Names(k.user)
                \/ \E q, s \in Requests : q # s /\ req[q].key = k /\ req[s].key = k]_vars
  BY <1>1
<1>4. Inv /\ [Next]_vars =>
        [\A r \in Requests : \A k \in bucket \ bucket' :
            req[r] # req'[r] /\ req[r].op \notin Sweeps => k.user = req[r].user]_vars
  BY <1>2
<1>5. Spec => ReplaceNamesFirst
  BY <1>3, Invariance, PTL DEF Spec, ReplaceNamesFirst
<1>6. Spec => OnlyOwnObjects
  BY <1>4, Invariance, PTL DEF Spec, OnlyOwnObjects
<1>7. ASSUME Inv, Young, [Next]_vars, NEW r \in Requests, NEW key, key = req'[r].key,
             key \notin {req[r].key, Null}, clock' # clock
      PROVE  /\ key \notin bucket \cup erased
             /\ \A u \in Users : key \notin Names(u)
             /\ \A q \in Requests : key # req[q].key /\ key \notin req[q].keys
  <2>1. ~Around(key)
    BY <1>7, BuiltIsFresh
  <2> QED BY <1>7, <2>1, NamesAreAround DEF Around
<1>8. Inv /\ Young /\ [Next]_vars =>
        [\A r \in Requests :
            LET key == req'[r].key
            IN  key \notin {req[r].key, Null} /\ clock' # clock =>
                   /\ key \notin bucket \cup erased
                   /\ \A u \in Users : key \notin Names(u)
                   /\ \A q \in Requests : key # req[q].key /\ key \notin req[q].keys]_vars
  BY <1>7
<1>9. Spec => LaterMintsAreFresh
  BY <1>8, Invariance, YoungInvariance, PTL DEF Spec, LaterMintsAreFresh
<1> QED BY <1>5, <1>6, <1>9 DEF DeletesAreOwn
=============================================================================
