------------------------------- MODULE Photos -------------------------------
(***************************************************************************)
(* Photos: rows that name S3 objects, and the objects.  A profile names    *)
(* one object per kind (then, now), a gallery row names one each.  The API *)
(* never sees the bytes: it records a key, signs a URL, and the browser    *)
(* PUTs the object whenever it likes.  Nothing keeps the two stores        *)
(* together but the order of the statements in each handler (apps/api/src, *)
(* photos, admin, schools and classes), between which any other request    *)
(* may run.                                                                *)
(*                                                                         *)
(* A request is one element of Requests, used once; the gallery row it may *)
(* insert is named by it.  User ids are never reused.                      *)
(***************************************************************************)
EXTENDS Naturals, FiniteSets

CONSTANTS
    Users,         \* the users that may exist
    Requests,      \* the requests of one behaviour
    Mixes,         \* the workloads: what at most how many requests ask for, and where
    MayFail,       \* those whose Lambda, database or S3 calls may fail
    ProfileKinds,  \* the photo columns of profiles: then, now
    Gallery,       \* the kind of a gallery photo
    Places,        \* a class at a school; its folder photos/{school}/{class}/
    Schools,
    School,        \* [Places -> Schools]
    Other,         \* the folder of users in no class
    Limit,         \* GALLERY_LIMIT
    MaxMs,         \* bound on the clock
    Null

ASSUME PhotosAssumption ==
    /\ MayFail \subseteq Requests
    /\ Mixes \subseteq [ops    : SUBSET {"replace", "clear", "add", "remove", "delete",
                                         "school", "cascade", "unlink"},
                         most   : 0 .. Cardinality(Requests),
                         places : SUBSET Places]
    /\ Gallery \notin ProfileKinds
    /\ Other \notin Places
    /\ School \in [Places -> Schools]
    /\ Limit \in Nat /\ MaxMs \in Nat \ {0}
    /\ Null \notin Users \cup Requests \cup Schools \cup ProfileKinds \cup {Gallery}

Kinds   == ProfileKinds \cup {Gallery}
Folders == Places \cup {Other}
Keys    == [user : Users, kind : Kinds, folder : Folders, ms : 0 .. MaxMs]

VARIABLES
    live,      \* users with a row (and a profiles row)
    place,     \* class_user: the classes at schools each user is in
    schools,   \* the schools that exist
    linked,    \* class_school: the places that exist
    photo,     \* profiles.then_photo_url, now_photo_url
    gallery,   \* gallery_photos, each row named by the request that inserted it
    bucket,    \* the objects in S3
    clock,     \* Date.now(), when a key was last built
    mix,       \* the workload of this behaviour
    req,       \* the requests in flight and their local variables
    earlier,   \* history: the requests that had finished when this one began
    erased     \* history: the keys S3 was ever told to delete

rows    == <<live, place, schools, linked, photo, gallery>>
objects == <<bucket, erased>>
vars    == <<rows, objects, clock, mix, req, earlier>>

-----------------------------------------------------------------------------
Mints  == {"replace", "add"}
Sweeps == {"school", "cascade"}
Ops    == Mints \cup Sweeps \cup {"clear", "remove", "delete", "unlink"}
Steps  == {"previous", "record", "displace", "placement", "insert", "erase",
           "unlist", "collect", "drop", "list", "purge", "members", "leave",
           "close"}
Final  == {"ok", "refused", "failed"}

ASSUME NullIsNothing == Null \notin Keys /\ Null \notin Ops

Request == [op     : Ops \cup {Null},
            pc     : {"idle"} \cup Steps \cup Final,
            user   : Users \cup {Null},
            kind   : Kinds \cup {Null},
            folder : Folders \cup {Null},
            school : Schools \cup {Null},   \* the school to delete
            region : SUBSET Places,         \* the places to sweep
            row    : Requests \cup {Null},  \* the gallery row to remove
            key    : Keys \cup {Null},      \* the key a mint built
            keys   : SUBSET Keys,           \* the keys to delete from S3
            who    : SUBSET Users]          \* the users to delete

NoRequest == [op |-> Null, pc |-> "idle", user |-> Null, kind |-> Null,
              folder |-> Null, school |-> Null, region |-> {}, row |-> Null,
              key |-> Null, keys |-> {}, who |-> {}]

At(r, op, pc) == req[r].op = op /\ req[r].pc = pc

(* Request r becomes local, a change of its local variables.               *)
Become(r, local) == /\ req' = [req EXCEPT ![r] = local]
                    /\ UNCHANGED <<earlier, mix>>

Goto(r, pc) == Become(r, [req[r] EXCEPT !.pc = pc])

Begin(r, local) ==
    /\ req[r].pc = "idle" /\ local.op \in mix.ops
    /\ Cardinality({q \in Requests : req[q].pc # "idle"}) < mix.most
    /\ req' = [req EXCEPT ![r] = local]
    /\ earlier' = [earlier EXCEPT ![r] = {q \in Requests : req[q].pc \in Final}]
    /\ UNCHANGED mix

Erase(K) == bucket' = bucket \ K /\ erased' = erased \cup K

GalleryOf(u) == {g \in gallery : req[g].user = u}

(* The keys the rows of a user name.                                       *)
Names(u) == ({photo[u][k] : k \in ProfileKinds}
                \cup {req[g].key : g \in GalleryOf(u)}) \ {Null}

(* LIMIT 1 over a join that may match several memberships, or none.        *)
Placements(u) == IF place[u] = {} THEN {Other} ELSE place[u]

(* Mutant: the key does not carry the user's id.                           *)
BuildAnyonesKey(u, kind, folder, t) ==
    [user |-> CHOOSE v \in Users : TRUE, kind |-> kind, folder |-> folder,
     ms |-> t]

(* Mutant: the suffix rounds the time up.                                  *)
BuildLaterKey(u, kind, folder, t) ==
    [user |-> u, kind |-> kind, folder |-> folder, ms |-> t + 1]

(* Mutant: the suffix is left out.                                         *)
BuildTimelessKey(u, kind, folder, t) ==
    [user |-> u, kind |-> kind, folder |-> folder, ms |-> 0]

BuildKey(u, kind, folder, t) ==
    [user |-> u, kind |-> kind, folder |-> folder, ms |-> t]

-----------------------------------------------------------------------------
(* createPhotoUploadUrl: look the user's class up, read the key about to   *)
(* be displaced and build the new one, record it, delete the displaced     *)
(* object.                                                                 *)

ReplaceLookup(r) ==
    \E u \in Users, k \in ProfileKinds :
        LET local == [NoRequest EXCEPT !.op = "replace", !.user = u, !.kind = k]
        IN  \/ /\ u \in live
               /\ \E f \in Placements(u) :
                     Begin(r, [local EXCEPT !.pc = "previous", !.folder = f])
            \/ /\ u \notin live
               /\ Begin(r, [local EXCEPT !.pc = "refused"])

ReplaceRead(r) ==
    LET q == req[r] IN
    /\ At(r, "replace", "previous")
    /\ \E t \in clock .. MaxMs :
          LET key == BuildKey(q.user, q.kind, q.folder, t)
          IN  /\ clock' = t
              /\ Become(r, [q EXCEPT
                    !.pc = "record", !.key = key,
                    !.keys = {photo[q.user][q.kind]} \ {Null, key}])

ReplaceRecord(r) ==
    LET q == req[r] IN
    /\ At(r, "replace", "record")
    /\ photo' = IF q.user \in live
                  THEN [photo EXCEPT ![q.user][q.kind] = q.key]
                  ELSE photo
    /\ Goto(r, IF q.keys = {} THEN "ok" ELSE "displace")
    /\ UNCHANGED objects

(* Mutant: the UPDATE is not awaited, the DELETE may overtake it.          *)
ReplaceDisplaceEarly(r) ==
    /\ At(r, "replace", "displace") \/ At(r, "replace", "record")
    /\ Erase(req[r].keys)
    /\ Become(r, [req[r] EXCEPT !.keys = {},
                               !.pc = IF @ = "record" THEN @ ELSE "ok"])
    /\ UNCHANGED photo

(* Mutant: as the source did, the displaced object is left where it is.    *)
ReplaceDisplaceNothing(r) ==
    /\ At(r, "replace", "displace")
    /\ Goto(r, "ok")
    /\ UNCHANGED <<photo, objects>>

(* A failed delete is swallowed.                                           *)
ReplaceDisplace(r) ==
    /\ At(r, "replace", "displace")
    /\ \/ Erase(req[r].keys)
       \/ r \in MayFail /\ UNCHANGED objects
    /\ Goto(r, "ok")
    /\ UNCHANGED photo

CreatePhotoUploadUrl(r) ==
    /\ \/ ReplaceLookup(r) /\ UNCHANGED <<photo, objects, clock>>
       \/ ReplaceRead(r) /\ UNCHANGED <<photo, objects>>
       \/ ReplaceRecord(r) /\ UNCHANGED clock
       \/ ReplaceDisplace(r) /\ UNCHANGED clock
    /\ UNCHANGED <<live, place, schools, linked, gallery>>

(* deletePhoto: read the key, delete the object, then set the column NULL. *)
ClearLookup(r) ==
    \E u \in Users, k \in ProfileKinds :
        LET keys == {photo[u][k]} \ {Null}
        IN  Begin(r, [NoRequest EXCEPT
                !.op = "clear", !.user = u, !.kind = k, !.keys = keys,
                !.pc = IF u \notin live THEN "refused"
                       ELSE IF keys = {} THEN "record" ELSE "erase"])

ClearErase(r) ==
    /\ At(r, "clear", "erase")
    /\ Erase(req[r].keys)
    /\ Goto(r, "record")

ClearRecord(r) ==
    /\ At(r, "clear", "record")
    /\ photo' = [photo EXCEPT ![req[r].user][req[r].kind] = Null]
    /\ Goto(r, "ok")

DeletePhoto(r) ==
    /\ \/ ClearLookup(r) /\ UNCHANGED <<photo, objects>>
       \/ ClearErase(r) /\ UNCHANGED photo
       \/ ClearRecord(r) /\ UNCHANGED objects
    /\ UNCHANGED <<live, place, schools, linked, gallery, clock>>

-----------------------------------------------------------------------------
(* createGalleryUploadUrl: count, look the user's class up and build the   *)
(* key, insert.                                                            *)

(* Mutant: one photo too many.                                             *)
AddCountPast(r) ==
    \E u \in Users :
        Begin(r, [NoRequest EXCEPT
            !.op = "add", !.user = u, !.kind = Gallery,
            !.pc = IF Cardinality(GalleryOf(u)) > Limit
                     THEN "refused" ELSE "placement"])

AddCount(r) ==
    \E u \in Users :
        Begin(r, [NoRequest EXCEPT
            !.op = "add", !.user = u, !.kind = Gallery,
            !.pc = IF Cardinality(GalleryOf(u)) >= Limit
                     THEN "refused" ELSE "placement"])

AddPlacement(r) ==
    LET q == req[r] IN
    /\ At(r, "add", "placement")
    /\ \/ /\ q.user \in live
          /\ \E f \in Placements(q.user), t \in clock .. MaxMs :
                /\ clock' = t
                /\ Become(r, [q EXCEPT !.pc = "insert", !.folder = f,
                                       !.key = BuildKey(q.user, q.kind, f, t)])
       \/ q.user \notin live /\ Goto(r, "refused") /\ UNCHANGED clock

(* The foreign key refuses a row of a user who is gone.                    *)
AddInsert(r) ==
    /\ At(r, "add", "insert")
    /\ IF req[r].user \in live
         THEN gallery' = gallery \cup {r} /\ Goto(r, "ok")
         ELSE Goto(r, "failed") /\ UNCHANGED gallery

CreateGalleryUploadUrl(r) ==
    /\ \/ AddCount(r) /\ UNCHANGED <<gallery, clock>>
       \/ AddPlacement(r) /\ UNCHANGED gallery
       \/ AddInsert(r) /\ UNCHANGED clock
    /\ UNCHANGED <<live, place, schools, linked, photo, objects>>

(* deleteGalleryPhoto: find the row, delete the object, delete the row.    *)

(* Mutant: the row is found by id alone.                                   *)
RemoveLookupAnyones(r) ==
    \E u \in Users, g \in gallery :
        Begin(r, [NoRequest EXCEPT !.op = "remove", !.user = u,
                                   !.kind = Gallery, !.pc = "erase",
                                   !.row = g, !.keys = {req[g].key}])

RemoveLookup(r) ==
    \E u \in Users :
        LET local == [NoRequest EXCEPT !.op = "remove", !.user = u,
                                       !.kind = Gallery]
        IN  \/ \E g \in GalleryOf(u) :
                  Begin(r, [local EXCEPT !.pc = "erase", !.row = g,
                                         !.keys = {req[g].key}])
            \/ Begin(r, [local EXCEPT !.pc = "refused"])

RemoveErase(r) ==
    /\ At(r, "remove", "erase")
    /\ Erase(req[r].keys)
    /\ Goto(r, "unlist")

(* Mutant: the row does not wait for the object to be gone.                *)
RemoveUnlistEarly(r) ==
    /\ At(r, "remove", "unlist") \/ At(r, "remove", "erase")
    /\ gallery' = gallery \ {req[r].row}
    /\ Goto(r, IF req[r].pc = "erase" THEN "erase" ELSE "ok")

RemoveUnlist(r) ==
    /\ At(r, "remove", "unlist")
    /\ gallery' = gallery \ {req[r].row}
    /\ Goto(r, "ok")

DeleteGalleryPhoto(r) ==
    /\ \/ RemoveLookup(r) /\ UNCHANGED <<gallery, objects>>
       \/ RemoveErase(r) /\ UNCHANGED gallery
       \/ RemoveUnlist(r) /\ UNCHANGED objects
    /\ UNCHANGED <<live, place, schools, linked, photo, clock>>

-----------------------------------------------------------------------------
(* Deleting users: their rows go by cascade, their objects do not.         *)

Drop(U) ==
    /\ live' = live \ U
    /\ place' = [u \in Users |-> IF u \in U THEN {} ELSE place[u]]
    /\ photo' = [u \in Users |-> IF u \in U THEN [k \in ProfileKinds |-> Null]
                                            ELSE photo[u]]
    /\ gallery' = {g \in gallery : req[g].user \notin U}
    /\ UNCHANGED <<schools, linked>>

DeleteLookup(r) ==
    \E u \in Users :
        Begin(r, [NoRequest EXCEPT
            !.op = "delete", !.user = u,
            !.pc = IF u \in live THEN "collect" ELSE "refused"])

(* Mutant: as the source did, the two profile photos and no gallery.       *)
DeleteCollectProfile(r) ==
    LET keys == {photo[req[r].user][k] : k \in ProfileKinds} \ {Null}
    IN  /\ At(r, "delete", "collect")
        /\ Become(r, [req[r] EXCEPT !.pc = IF keys = {} THEN "drop" ELSE "erase",
                                    !.keys = keys])

DeleteCollect(r) ==
    LET keys == Names(req[r].user)
    IN  /\ At(r, "delete", "collect")
        /\ Become(r, [req[r] EXCEPT !.pc = IF keys = {} THEN "drop" ELSE "erase",
                                    !.keys = keys])

(* One key after another; a failed delete is swallowed.                    *)
DeleteErase(r) ==
    /\ At(r, "delete", "erase")
    /\ \E k \in req[r].keys :
          /\ \/ Erase({k})
             \/ r \in MayFail /\ UNCHANGED objects
          /\ Become(r, [req[r] EXCEPT
                !.pc = IF req[r].keys = {k} THEN "drop" ELSE "erase",
                !.keys = @ \ {k}])

DeleteDrop(r) ==
    /\ At(r, "delete", "drop")
    /\ Drop({req[r].user})
    /\ Goto(r, "ok")

DeleteUser(r) ==
    /\ \/ DeleteLookup(r) /\ UNCHANGED <<rows, objects>>
       \/ DeleteCollect(r) /\ UNCHANGED <<rows, objects>>
       \/ DeleteErase(r) /\ UNCHANGED rows
       \/ DeleteDrop(r) /\ UNCHANGED objects
    /\ UNCHANGED clock

-----------------------------------------------------------------------------
(* deleteSchool, and unlinkClassFromSchool with and without cascadeUsers:  *)
(* list the folder, delete what was listed, find the members, delete them, *)
(* delete the school or the link.  A folder is one page here.              *)

SweepLookup(r) ==
    \/ \E s \in Schools :
          Begin(r, [NoRequest EXCEPT
              !.op = "school", !.school = s,
              !.region = {p \in Places : School[p] = s},
              !.pc = IF s \in schools THEN "list" ELSE "refused"])
    \/ \E p \in Places, op \in {"cascade", "unlink"} :
          Begin(r, [NoRequest EXCEPT
              !.op = op, !.region = {p},
              !.pc = CASE p \notin linked -> "refused"
                       [] p \in linked /\ op = "cascade" -> "list"
                       [] OTHER -> "leave"])

SweepList(r) ==
    LET keys == {k \in bucket : k.folder \in req[r].region}
    IN  /\ req[r].op \in Sweeps /\ req[r].pc = "list"
        /\ Become(r, [req[r] EXCEPT
              !.pc = IF keys = {} THEN "members" ELSE "purge", !.keys = keys])

(* Mutant: a failed delete is swallowed, as it is for one user.            *)
SweepPurgeSwallowing(r) ==
    /\ req[r].op \in Sweeps /\ req[r].pc = "purge"
    /\ \/ Erase(req[r].keys)
       \/ r \in MayFail /\ UNCHANGED objects
    /\ Goto(r, "members")

SweepPurge(r) ==
    /\ req[r].op \in Sweeps /\ req[r].pc = "purge"
    /\ Erase(req[r].keys)
    /\ Goto(r, "members")

SweepMembers(r) ==
    LET who == {u \in Users : place[u] \cap req[r].region # {}}
    IN  /\ req[r].op \in Sweeps /\ req[r].pc = "members"
        /\ Become(r, [req[r] EXCEPT
              !.pc = IF who = {} THEN "close" ELSE "drop", !.who = who])

SweepDrop(r) ==
    /\ req[r].op \in Sweeps /\ req[r].pc = "drop"
    /\ Drop(req[r].who)
    /\ Goto(r, "close")

Leave(R) == place' = [u \in Users |-> place[u] \ R]

UnlinkLeave(r) ==
    /\ At(r, "unlink", "leave")
    /\ Leave(req[r].region)
    /\ Goto(r, "close")
    /\ UNCHANGED <<live, schools, linked, photo, gallery>>

(* Mutant: class_user.school_id has no ON DELETE.                          *)
SweepCloseOnly(r) ==
    /\ req[r].pc = "close"
    /\ schools' = schools \ {req[r].school}
    /\ linked' = linked \ req[r].region
    /\ Goto(r, "ok")
    /\ UNCHANGED <<live, place, photo, gallery>>

(* Deleting the school sets the school of memberships that came in the     *)
(* meantime to NULL; deleting the link leaves them alone.                  *)
SweepClose(r) ==
    /\ req[r].pc = "close"
    /\ schools' = schools \ {req[r].school}
    /\ linked' = linked \ req[r].region
    /\ IF req[r].op = "school" THEN Leave(req[r].region) ELSE UNCHANGED place
    /\ Goto(r, "ok")
    /\ UNCHANGED <<live, photo, gallery>>

DeleteSchool(r) ==
    /\ \/ SweepLookup(r) /\ UNCHANGED <<rows, objects>>
       \/ SweepList(r) /\ UNCHANGED <<rows, objects>>
       \/ SweepPurge(r) /\ UNCHANGED rows
       \/ SweepMembers(r) /\ UNCHANGED <<rows, objects>>
       \/ SweepDrop(r) /\ UNCHANGED objects
       \/ UnlinkLeave(r) /\ UNCHANGED objects
       \/ SweepClose(r) /\ UNCHANGED objects
    /\ UNCHANGED clock

-----------------------------------------------------------------------------
(* An administrator moves a user; keys already recorded stay as they are.  *)
MoveUserToClass(u, p) ==
    /\ u \in live /\ p \in linked
    /\ place' = [place EXCEPT ![u] = {p}]
    /\ UNCHANGED <<live, schools, linked, photo, gallery, objects, clock, mix, req,
                   earlier>>

(* The browser PUTs to a URL it was handed, at any later time and as often *)
(* as it likes: the signature is good for an hour.                         *)
Upload(r) ==
    /\ req[r].op \in Mints /\ req[r].pc = "ok"
    /\ bucket' = bucket \cup {req[r].key}
    /\ UNCHANGED <<rows, clock, mix, req, earlier, erased>>

Fail(r) ==
    /\ r \in MayFail /\ req[r].pc \in Steps
    /\ Goto(r, "failed")
    /\ UNCHANGED <<rows, objects, clock>>

(* Users of any classes, with photos uploaded before or none.              *)
Init ==
    /\ mix \in Mixes
    /\ live = Users
    /\ place \in [Users -> SUBSET mix.places]
    /\ linked = mix.places
    /\ schools = {School[p] : p \in linked}
    /\ photo \in [Users -> [ProfileKinds -> Keys \cup {Null}]]
    /\ \A u \in Users, k \in ProfileKinds :
          photo[u][k] # Null => /\ photo[u][k].user = u /\ photo[u][k].kind = k
                                /\ photo[u][k].ms = 0
                                /\ photo[u][k].folder \in linked \cup {Other}
    /\ gallery = {}
    /\ bucket = {photo[u][k] : u \in Users, k \in ProfileKinds} \ {Null}
    /\ clock = 1
    /\ req = [r \in Requests |-> NoRequest]
    /\ earlier = [r \in Requests |-> {}]
    /\ erased = {}

Next ==
    \/ \E r \in Requests :
          \/ CreatePhotoUploadUrl(r) \/ DeletePhoto(r)
          \/ CreateGalleryUploadUrl(r) \/ DeleteGalleryPhoto(r)
          \/ DeleteUser(r) \/ DeleteSchool(r)
          \/ Upload(r) \/ Fail(r)
    \/ \E u \in Users, p \in Places : MoveUserToClass(u, p)

Spec == Init /\ [][Next]_vars

-----------------------------------------------------------------------------
(* Every variable holds the kind of value its column or local has.         *)
TypeOK ==
    /\ live \in SUBSET Users
    /\ place \in [Users -> SUBSET Places]
    /\ schools \in SUBSET Schools
    /\ linked \in SUBSET Places
    /\ photo \in [Users -> [ProfileKinds -> Keys \cup {Null}]]
    /\ gallery \in SUBSET Requests
    /\ bucket \in SUBSET Keys
    /\ clock \in 0 .. MaxMs
    /\ mix \in Mixes
    /\ req \in [Requests -> Request]
    /\ earlier \in [Requests -> SUBSET Requests]
    /\ erased \in SUBSET Keys

(* A key is named by the rows of one user at most, so that findKeyOwner,   *)
(* which answers with the first row it finds, answers who may see it.      *)
KeyHasOneOwner ==
    \A u, v \in Users : u # v => Names(u) \cap Names(v) = {}

(* Neither of the two had finished when the other began.                   *)
Overlap(q, r) == q # r /\ q \notin earlier[r] /\ r \notin earlier[q]

(* The limit can only be passed by mints that overlap: two that count      *)
(* before either inserts.                                                  *)
LimitHoldsInTurn ==
    \A u \in Users :
        Cardinality(GalleryOf(u)) > Limit
            => \E q, r \in GalleryOf(u) : Overlap(q, r)

(* A gallery object of a user who exists is listed, or S3 was told to      *)
(* delete it and its URL was used again: no failure and no order of        *)
(* requests leaves an object nobody can find.                              *)
GalleryObjectsAreListed ==
    \A k \in bucket :
        k.kind = Gallery /\ k.user \in live => k \in Names(k.user) \cup erased

(* Someone displaced k and has not deleted it: not yet, or it failed.      *)
Displaced(k) ==
    \E r \in Requests : /\ req[r].op = "replace" /\ k \in req[r].keys
                        /\ req[r].pc = "displace" \/ r \in MayFail

(* The mint of k overlapped a request that rewrites or removes its row.    *)
Raced(k) ==
    \E q, r \in Requests :
        /\ req[q].op \in Mints /\ req[q].key = k
        /\ Overlap(q, r) /\ req[r].user = k.user
        /\ \/ req[r].op \in {"replace", "clear"} /\ req[r].kind = k.kind
           \/ req[r].op = "delete"

(* Replacing or removing a profile photo leaves no object behind, unless   *)
(* the delete failed, the mint overlapped another request on the same      *)
(* photo, or the URL was used after the object had been deleted.           *)
ReplacedPhotosAreDeleted ==
    \A k \in bucket :
        k.kind \in ProfileKinds /\ k.user \in live
            => k \in Names(k.user) \cup erased \/ Displaced(k) \/ Raced(k)

(* A deleted user leaves no object behind, with the same exceptions, and   *)
(* that of users deleted along with a school or a class, whose photos may  *)
(* lie in another folder.                                                  *)
DeletedUsersLeaveNothing ==
    \A k \in bucket :
        k.user \notin live =>
            \/ k \in erased \/ Displaced(k) \/ Raced(k)
            \/ \E r \in Requests :
                  \/ req[r].op \in Sweeps /\ k.user \in req[r].who
                  \/ req[r].op = "delete" /\ req[r].user = k.user /\ r \in MayFail

(* The users of a school or class that is swept go after their objects     *)
(* have gone: whatever fails before leaves the rows, and the deletion can  *)
(* be asked for again.                                                     *)
ObjectsGoFirst ==
    \A r \in Requests : \A u \in req[r].who :
        u \notin live => req[r].keys \subseteq erased

(* A membership never names a school that is gone, although users are      *)
(* moved into its classes while it is being deleted.                       *)
MembershipsNameSchools ==
    \A u \in Users : \A p \in place[u] : School[p] \in schools

(* A key answers for one user, and the limit holds but for overlapping      *)
(* requests.                                                               *)
RowsAreSound == KeyHasOneOwner /\ LimitHoldsInTurn

(* No object is left that nobody can find, and no row or membership that    *)
(* names what is gone, but for the exceptions of the parts: uploads that    *)
(* come late, deletes that failed, requests that overlapped.                *)
NothingIsLeftBehind ==
    /\ GalleryObjectsAreListed /\ ReplacedPhotosAreDeleted /\ DeletedUsersLeaveNothing
    /\ ObjectsGoFirst /\ MembershipsNameSchools

(* Replacing a photo never deletes the object the profile names: the row   *)
(* is repointed first.  Two mints in the same millisecond share a key and  *)
(* are the exception.                                                      *)
ReplaceNamesFirst ==
    [][\A r \in Requests : \A k \in bucket \ bucket' :
          req[r] # req'[r] /\ req[r].op = "replace" =>
              \/ k \notin Names(k.user)
              \/ \E q, s \in Requests : q # s /\ req[q].key = k /\ req[s].key = k
      ]_vars

(* What is asked for one user deletes no object of another.                *)
OnlyOwnObjects ==
    [][\A r \in Requests : \A k \in bucket \ bucket' :
          req[r] # req'[r] /\ req[r].op \notin Sweeps => k.user = req[r].user
      ]_vars

(* "which makes every mint a fresh key" (photos.service.ts:70), as far as   *)
(* that goes: a key built in a later millisecond than the one before it is  *)
(* named by no row and held by no request, has no object and never had one  *)
(* deleted.  So no late upload, and no delete of a key read earlier, meets  *)
(* the new photo.                                                           *)
LaterMintsAreFresh ==
    [][\A r \in Requests :
          LET key == req'[r].key
          IN  key \notin {req[r].key, Null} /\ clock' # clock =>
                 /\ key \notin bucket \cup erased
                 /\ \A u \in Users : key \notin Names(u)
                 /\ \A q \in Requests : key # req[q].key /\ key \notin req[q].keys
      ]_vars

(* S3 is told to delete nobody else's objects, a photo only once another    *)
(* has taken its place, and no photo under the key of an earlier one, but   *)
(* for mints of one user in one millisecond (GalleryRowsNameTheirOwn).      *)
DeletesAreOwn == ReplaceNamesFirst /\ OnlyOwnObjects /\ LaterMintsAreFresh

-----------------------------------------------------------------------------
(* What the documentation says, and the code does not do.                  *)

(* The suffix of a key "makes every mint a fresh key"                      *)
(* (photos.service.ts:70): no two photos of a gallery are kept in one      *)
(* object, which deleting the first of them would take from the other.     *)
(* (Refuted by two mints of one user in one millisecond.)                  *)
GalleryRowsNameTheirOwn ==
    \A g, h \in gallery : g # h => req[g].key # req[h].key

AtRest == \A r \in Requests : req[r].pc \in Final \cup {"idle"}

(* "The key is stored, never recomputed, so a photo stays findable         *)
(* wherever it was put": once every request is answered, no row names an   *)
(* object that was deleted.  (Refuted by a user who is moved out of a class *)
(* whose photos are then swept; see the README.)                           *)
PhotosStayFindable ==
    AtRest => \A u \in live : Names(u) \cap erased = {}
=============================================================================
