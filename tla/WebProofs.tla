------------------------------- MODULE WebProofs -------------------------------
(***************************************************************************)
(* The safety of the web client: Session, for any tabs, users, requests    *)
(* and sessions; Slideshow, for any photos, images, runs and faults; and   *)
(* the pages of WebPages, for any rows, schools, classes, forms and hours. *)
(*                                                                         *)
(* In all of them an answer comes to a page that has changed since the     *)
(* question.  What makes that sound is what a request or a run in flight   *)
(* still knows: each invariant says it of every request that is out.       *)
(***************************************************************************)
EXTENDS Session, Slideshow, WebPages, FiniteSetTheorems, SequenceTheorems, TLAPS

-----------------------------------------------------------------------------
(* SESSION.  A request knows that its session is the one its tab shows, or *)
(* an earlier one; and that its token has expired where it is stored, if   *)
(* it has expired on its way.                                              *)

(* The kinds of values.                                                    *)
Stored  == [token : 0..MaxSessions, whose : Users \cup {NoUser},
            expired : BOOLEAN, user : UserRecords \cup {NoUser}]
TabState == [cur : Adopted \cup {NoUser}, path : Paths, leaving : BOOLEAN]
SignIns == [kind : {"sign_in"}, tab : Tabs, whose : Users,
            form : {"login", "claim"}]
Asks    == [kind : {"ask"}, tab : Tabs, as : 0..MaxSessions, good : BOOLEAN,
            expired : BOOLEAN, photo : BOOLEAN, patch : Users \cup {NoUser},
            asked : 0..MaxSessions]

SessionTyped == /\ sessions \in 0..MaxSessions
                /\ stored \in Stored
                /\ tab \in [Tabs -> TabState]
                /\ slot \in [Slots -> {FreeSlot} \cup SignIns \cup Asks]
                /\ showed \subseteq Tabs

(* No two tabs have shown anybody.                                         *)
Single == \A t, u \in showed : t = u

(* Somebody who bears the name of another got it late.                     *)
Own(user) == user.name # user.id => user.late

(* What is stored is of one user, as far as one tab can tell.              *)
StoredSound ==
    /\ stored.token <= sessions
    /\ stored.user # NoUser =>
          /\ Own(stored.user)
          /\ Single /\ stored.token # 0 => stored.user.id = stored.whose

(* A tab shows the user whose token is stored, or leaves as there is none. *)
Followed(t) ==
    /\ stored.token = 0 => tab[t].leaving
    /\ stored.token # 0 => stored.whose = tab[t].cur.id

TabSound(t) ==
    /\ tab[t].path = "app" <=> tab[t].cur # NoUser
    /\ tab[t].cur # NoUser => /\ t \in showed
                              /\ tab[t].cur.since <= sessions
                              /\ Own(tab[t].cur)
                              /\ Single => Followed(t)

(* A request in flight knows an earlier session of its tab, or this one    *)
(* and whose it is; and expired with the token that is stored.             *)
Knows(q) ==
    LET cur == tab[q.tab].cur IN
    q.patch # NoUser /\ cur # NoUser =>
        \/ q.asked < cur.since
        \/ q.asked = cur.since /\ q.patch = cur.id

AskSound(q) ==
    /\ q.tab \in showed /\ q.as <= sessions /\ q.asked <= sessions
    /\ q.as # 0 /\ q.as = stored.token /\ q.expired => stored.expired
    /\ Knows(q)

SessionInv == /\ SessionTyped /\ StoredSound
              /\ \A t \in Tabs : TabSound(t)
              /\ \A c \in Slots : AsksApi(c) => AskSound(slot[c])

-----------------------------------------------------------------------------
(* The records that the handlers make are of their kinds.                  *)
LEMMA Kinds ==
    /\ FreeSlot.kind = "idle"
    /\ \A q \in SignIns : q.kind = "sign_in" /\ q.tab \in Tabs /\ q.whose \in Users
    /\ \A q \in Asks : /\ q.kind = "ask" /\ q.tab \in Tabs
                       /\ q.as \in Nat /\ q.asked \in Nat
                       /\ q.patch \in Users \cup {NoUser}
  BY SessionAssumption DEF FreeSlot, SignIns, Asks

LEMMA Calling ==
    ASSUME SessionTyped, NEW c \in Slots
    PROVE  /\ AsksApi(c) => slot[c] \in Asks
           /\ slot[c].kind = "sign_in" => slot[c] \in SignIns
  BY Kinds DEF SessionTyped, AsksApi

LEMMA NobodyIsApart == NoUser \notin Users /\ NoUser \notin Adopted
  BY SessionAssumption, NoUserIsNobody

LEMMA Copies ==
    /\ \A user \in UserRecords, n \in 1..MaxSessions :
          /\ Adopt(user, n) \in Adopted /\ Adopt(user, n) # NoUser
          /\ Adopt(user, n).id = user.id /\ Adopt(user, n).since = n
          /\ Own(user) => Own(Adopt(user, n))
    /\ \A cur \in Adopted :
          /\ Bare(cur) \in UserRecords /\ Bare(cur).id = cur.id
          /\ Own(cur) => Own(Bare(cur))
<1>1. ASSUME NEW user \in UserRecords, NEW n \in 1..MaxSessions
      PROVE  /\ Adopt(user, n) \in Adopted
             /\ Adopt(user, n).id = user.id /\ Adopt(user, n).since = n
             /\ Own(user) => Own(Adopt(user, n))
  BY <1>1 DEF UserRecords, Adopted, Adopt, Own
<1>2. ASSUME NEW cur \in Adopted
      PROVE  /\ Bare(cur) \in UserRecords /\ Bare(cur).id = cur.id
             /\ Own(cur) => Own(Bare(cur))
  BY <1>2 DEF UserRecords, Adopted, Bare, Own
<1> QED BY <1>1, <1>2, NobodyIsApart

LEMMA PatchKeeps ==
    ASSUME NEW cur \in Adopted, NEW whose \in Users, NEW since \in Nat,
           since < cur.since \/ (since = cur.since /\ whose = cur.id)
    PROVE  /\ PatchedUser(cur, whose, since) \in Adopted
           /\ PatchedUser(cur, whose, since) # NoUser
           /\ PatchedUser(cur, whose, since).id = cur.id
           /\ PatchedUser(cur, whose, since).since = cur.since
           /\ Own(PatchedUser(cur, whose, since))
<1>1. /\ PatchedUser(cur, whose, since) \in Adopted
      /\ PatchedUser(cur, whose, since).id = cur.id
      /\ PatchedUser(cur, whose, since).since = cur.since
  BY DEF PatchedUser, Adopted
<1>2. Own(PatchedUser(cur, whose, since))
  BY DEF PatchedUser, Adopted, Own
<1> QED BY <1>1, <1>2, NobodyIsApart

(* One tab that ever showed somebody.                                      *)
LEMMA OneTab ==
    ASSUME SessionTyped, Cardinality(showed) <= 1
    PROVE  Single
<1>1. IsFiniteSet(showed)
  <2>1. IsFiniteSet(Tabs) /\ showed \subseteq Tabs
    BY SessionAssumption, FS_Interval DEF SessionTyped, Tabs
  <2> QED BY <2>1, FS_Subset
<1>2. ASSUME NEW t \in showed, NEW u \in showed, t # u PROVE FALSE
  <2>1. Cardinality({t}) = 1 /\ IsFiniteSet({t})
    BY FS_Singleton
  <2>2. {t} \cup {u} \subseteq showed /\ u \notin {t}
    BY <1>2
  <2>3. Cardinality({t} \cup {u}) = 2
    BY <2>1, <2>2, FS_AddElement
  <2>4. /\ Cardinality({t} \cup {u}) <= Cardinality(showed)
        /\ Cardinality(showed) \in Nat
    BY <1>1, <2>2, FS_Subset, FS_CardinalityType
  <2> QED BY <2>3, <2>4
<1> QED BY <1>2 DEF Single

-----------------------------------------------------------------------------
(* The requests whose part a step does not take.                           *)

(* The user a tab shows is the same, another since, or nobody.             *)
Succeeds(t) ==
    \/ tab'[t].cur = NoUser
    \/ /\ tab[t].cur # NoUser /\ tab'[t].cur.id = tab[t].cur.id
       /\ tab'[t].cur.since = tab[t].cur.since
    \/ /\ tab'[t].cur.since > sessions /\ tab'[t].cur.since \in Nat

TokenSucceeds ==
    \/ stored'.token = 0
    \/ stored'.token = stored.token /\ (stored.expired => stored'.expired)
    \/ stored'.token > sessions /\ stored'.token \in Nat

LEMMA CallsLast ==
    ASSUME SessionInv, sessions' \in Nat, sessions <= sessions', showed \subseteq showed',
           TokenSucceeds,
           \A d \in Slots : AsksApi(d)' => /\ slot'[d] = slot[d]
                                           /\ Succeeds(slot[d].tab)
    PROVE  (\A d \in Slots : AsksApi(d) => AskSound(slot[d]))'
<1>1. ASSUME NEW d \in Slots, AsksApi(d)' PROVE AskSound(slot[d])'
  <2>1. slot'[d] = slot[d] /\ Succeeds(slot[d].tab)
    BY <1>1
  <2>2. AsksApi(d) /\ AskSound(slot[d])
    BY <1>1, <2>1 DEF SessionInv, AsksApi
  <2>3. PICK q \in Asks : q = slot[d] /\ q = slot'[d] /\ AskSound(q)
    BY <2>1, <2>2, Calling DEF SessionInv
  <2>4. q.as \in Nat /\ q.asked \in Nat /\ sessions \in Nat
    BY Kinds, SessionAssumption DEF SessionInv, SessionTyped
  <2>5. q.tab \in showed' /\ q.as <= sessions' /\ q.asked <= sessions'
    BY <2>3, <2>4 DEF AskSound
  <2>6. q.as # 0 /\ q.as = stored'.token /\ q.expired => stored'.expired
    BY <2>3, <2>4 DEF AskSound, TokenSucceeds
  <2>7. Knows(q)'
    BY <2>1, <2>3, <2>4 DEF AskSound, Knows, Succeeds
  <2> QED BY <2>3, <2>5, <2>6, <2>7 DEF AskSound, Knows
<1> QED BY <1>1

(* A step that only sends a request, or is done with one.                  *)
LEMMA CallsOnly ==
    ASSUME SessionInv, UNCHANGED <<sessions, stored, tab, showed>>, NEW c \in Slots,
           NEW r \in {FreeSlot} \cup SignIns \cup Asks, r.kind = "ask" => AskSound(r),
           slot' = [slot EXCEPT ![c] = r]
    PROVE  SessionInv'
<1>1. SessionTyped'
  BY DEF SessionInv, SessionTyped
<1>2. StoredSound' /\ \A t \in Tabs : TabSound(t)'
  BY DEF SessionInv, StoredSound, TabSound, Followed, Single
<1>3. ASSUME NEW d \in Slots, AsksApi(d)' PROVE AskSound(slot[d])'
  <2>1. CASE d = c
    <3>1. slot'[d] = r /\ r.kind = "ask"
      BY <1>3, <2>1 DEF SessionInv, SessionTyped, AsksApi
    <3> QED BY <3>1 DEF AskSound, Knows
  <2>2. CASE d # c
    <3>1. slot'[d] = slot[d] /\ AsksApi(d)
      BY <1>3, <2>2 DEF SessionInv, SessionTyped, AsksApi
    <3> QED BY <3>1 DEF SessionInv, AskSound, Knows
  <2> QED BY <2>1, <2>2
<1> QED BY <1>1, <1>2, <1>3 DEF SessionInv

-----------------------------------------------------------------------------
(* The operations, each with the tab it is about.                          *)
LEMMA LoadStep ==
    ASSUME SessionInv, NEW t \in Tabs, Load(t)
    PROVE  SessionInv'
<1>1. /\ tab' = [tab EXCEPT ![t] = [cur |-> RestoredUser,
                                    path |-> Route(RestoredUser, "login"),
                                    leaving |-> FALSE]]
      /\ showed' = IF RestoredUser = NoUser THEN showed ELSE showed \cup {t}
      /\ slot' = [c \in Slots |->
                    IF ~IsFree(c) /\ slot[c].tab = t THEN FreeSlot ELSE slot[c]]
      /\ sessions' = sessions /\ stored' = stored
  BY DEF Load
<1>2. /\ sessions \in Nat /\ stored \in Stored /\ stored.token <= sessions
      /\ stored.token \in 0..MaxSessions /\ stored.user \in UserRecords \cup {NoUser}
  BY SessionAssumption DEF SessionInv, SessionTyped, StoredSound, Stored
<1>3. PICK cur : cur = RestoredUser
  OBVIOUS
<1>4. /\ cur \in Adopted \cup {NoUser}
      /\ cur # NoUser => /\ stored.token # 0 /\ stored.user # NoUser
                         /\ cur.id = stored.user.id /\ cur.since = stored.token
                         /\ Own(cur)
  BY <1>2, <1>3, Copies, SessionAssumption DEF RestoredUser, SessionInv, StoredSound
<1>5. /\ Route(cur, "login") \in Paths
      /\ Route(cur, "login") = "app" <=> cur # NoUser
  BY DEF Route, Paths
<1>6. /\ tab'[t].cur = cur /\ tab'[t].path = Route(cur, "login")
      /\ \A u \in Tabs \ {t} : tab'[u] = tab[u]
      /\ tab' \in [Tabs -> TabState]
  BY <1>1, <1>3, <1>4, <1>5 DEF SessionInv, SessionTyped, TabState
<1>7. SessionTyped'
  BY <1>1, <1>6 DEF SessionInv, SessionTyped
<1>8. showed \subseteq showed' /\ (cur # NoUser => t \in showed') /\ (Single' => Single)
  BY <1>1, <1>3 DEF Single
<1>9. StoredSound'
  BY <1>1, <1>8 DEF SessionInv, StoredSound
<1>10. ASSUME NEW u \in Tabs PROVE TabSound(u)'
  <2>1. CASE u = t
    <3>1. Single' /\ cur # NoUser => stored.whose = cur.id
      BY <1>4, <1>8 DEF SessionInv, StoredSound
    <3> QED BY <1>1, <1>2, <1>4, <1>5, <1>6, <1>8, <2>1, <3>1 DEF TabSound, Followed
  <2>2. CASE u # t
    BY <1>1, <1>6, <1>8, <2>2 DEF SessionInv, TabSound, Followed
  <2> QED BY <2>1, <2>2
<1>11. ASSUME NEW d \in Slots, AsksApi(d)'
       PROVE  slot'[d] = slot[d] /\ Succeeds(slot[d].tab)
  <2>1. slot'[d] = slot[d] /\ slot[d].tab # t /\ AsksApi(d)
    BY <1>1, <1>11, Kinds DEF AsksApi, IsFree
  <2>2. slot[d].tab \in Tabs
    BY <2>1, Calling, Kinds DEF SessionInv
  <2> QED BY <1>6, <2>1, <2>2 DEF Succeeds
<1>12. TokenSucceeds
  BY <1>1 DEF TokenSucceeds
<1> QED BY <1>1, <1>2, <1>7, <1>8, <1>9, <1>10, <1>11, <1>12, CallsLast DEF SessionInv

LEMMA WanderStep ==
    ASSUME SessionInv, NEW t \in Tabs, Wander(t)
    PROVE  SessionInv'
<1>1. PICK p \in {"login", "public"} : tab' = [tab EXCEPT ![t].path = p]
  BY DEF Wander
<1>2. /\ sessions' = sessions /\ stored' = stored /\ slot' = slot /\ showed' = showed
      /\ tab[t].path # "app"
  BY DEF Wander
<1>3. /\ tab' \in [Tabs -> TabState] /\ tab'[t].path = p
      /\ \A u \in Tabs : /\ tab'[u].cur = tab[u].cur
                         /\ tab'[u].leaving = tab[u].leaving
                         /\ u # t => tab'[u].path = tab[u].path
  BY <1>1 DEF SessionInv, SessionTyped, TabState, Paths
<1>4. SessionTyped' /\ StoredSound'
  BY <1>2, <1>3 DEF SessionInv, SessionTyped, StoredSound, Single
<1>5. ASSUME NEW u \in Tabs PROVE TabSound(u)'
  BY <1>2, <1>3 DEF SessionInv, TabSound, Followed, Single
<1>6. ASSUME NEW d \in Slots, AsksApi(d)' PROVE Succeeds(slot[d].tab)
  <2>1. slot[d].tab \in Tabs
    BY <1>2, <1>6, Calling, Kinds DEF SessionInv, AsksApi
  <2> QED BY <1>3, <2>1 DEF Succeeds
<1>7. sessions \in Nat /\ TokenSucceeds
  BY <1>2, SessionAssumption DEF TokenSucceeds, SessionInv, SessionTyped
<1> QED BY <1>2, <1>4, <1>5, <1>6, <1>7, CallsLast DEF SessionInv

LEMMA ClearedIsStored == Cleared \in Stored /\ Cleared.token = 0 /\ Cleared.user = NoUser
  BY SessionAssumption DEF Cleared, Stored

LEMMA LogoutStep ==
    ASSUME SessionInv, NEW t \in Tabs, Logout(t)
    PROVE  SessionInv'
<1>1. /\ tab' = [tab EXCEPT ![t].cur = NoUser, ![t].path = "login"]
      /\ stored' = Cleared /\ tab[t].cur # NoUser
      /\ sessions' = sessions /\ slot' = slot /\ showed' = showed
  BY DEF Logout, Show, Route
<1>2. /\ tab' \in [Tabs -> TabState]
      /\ tab'[t].cur = NoUser /\ tab'[t].path = "login"
      /\ \A u \in Tabs \ {t} : tab'[u] = tab[u]
  BY <1>1 DEF SessionInv, SessionTyped, TabState, Paths
<1>3. sessions \in Nat
  BY SessionAssumption DEF SessionInv, SessionTyped
<1>4. SessionTyped' /\ StoredSound'
  BY <1>1, <1>2, <1>3, ClearedIsStored DEF SessionInv, SessionTyped, StoredSound
<1>5. ASSUME NEW u \in Tabs PROVE TabSound(u)'
  <2>1. CASE u = t
    BY <1>2, <2>1 DEF TabSound
  <2>2. CASE u # t
    <3>1. tab[u].cur # NoUser => ~Single
      BY <1>1, <2>2 DEF SessionInv, TabSound, Single
    <3> QED BY <1>1, <1>2, <2>2, <3>1 DEF SessionInv, TabSound, Single
  <2> QED BY <2>1, <2>2
<1>6. ASSUME NEW d \in Slots, AsksApi(d)' PROVE Succeeds(slot[d].tab)
  <2>1. slot[d].tab \in Tabs
    BY <1>1, <1>6, Calling, Kinds DEF SessionInv, AsksApi
  <2> QED BY <1>2, <2>1 DEF Succeeds
<1>7. TokenSucceeds
  BY <1>1, ClearedIsStored DEF TokenSucceeds
<1> QED BY <1>1, <1>3, <1>4, <1>5, <1>6, <1>7, CallsLast DEF SessionInv

LEMMA SubmitLoginStep ==
    ASSUME SessionInv, NEW t \in Tabs, NEW c \in Slots, NEW u \in Users, SubmitLogin(t, c, u)
    PROVE  SessionInv'
<1>1. PICK r : r = [kind |-> "sign_in", tab |-> t, whose |-> u, form |-> "login"]
  OBVIOUS
<1>2. r \in SignIns /\ r.kind = "sign_in" /\ slot' = [slot EXCEPT ![c] = r]
  BY <1>1 DEF SubmitLogin, SendRequest, SignIns
<1> QED BY <1>2, CallsOnly DEF SubmitLogin

LEMMA SubmitClaimStep ==
    ASSUME SessionInv, NEW t \in Tabs, NEW c \in Slots, NEW u \in Users, SubmitClaim(t, c, u)
    PROVE  SessionInv'
<1>1. PICK r : r = [kind |-> "sign_in", tab |-> t, whose |-> u, form |-> "claim"]
  OBVIOUS
<1>2. r \in SignIns /\ r.kind = "sign_in" /\ slot' = [slot EXCEPT ![c] = r]
  BY <1>1 DEF SubmitClaim, SendRequest, SignIns
<1> QED BY <1>2, CallsOnly DEF SubmitClaim

LEMMA SignedInStep ==
    ASSUME SessionInv, NEW c \in Slots, SignedIn(c)
    PROVE  SessionInv'
<1> DEFINE n    == sessions + 1
           user == [id |-> slot[c].whose, name |-> slot[c].whose, late |-> FALSE]
<1>1. PICK t \in Tabs : t = slot[c].tab
  BY Calling, Kinds DEF SignedIn, SessionInv
<1>2. /\ sessions \in Nat /\ n \in 1..MaxSessions /\ sessions' = n
      /\ stored' = [token |-> n, whose |-> slot[c].whose, expired |-> FALSE,
                    user |-> user]
      /\ slot' = [slot EXCEPT ![c] = FreeSlot]
  BY SessionAssumption DEF SignedIn, SessionInv, SessionTyped
<1>3. user \in UserRecords /\ user.id = slot[c].whose /\ Own(user)
  BY Calling, Kinds DEF SignedIn, SessionInv, UserRecords, Own
<1>4. PICK cur \in Adopted : cur = Adopt(user, n)
  BY <1>2, <1>3, Copies
<1>5. cur # NoUser /\ cur.id = slot[c].whose /\ cur.since = n /\ Own(cur)
  BY <1>2, <1>3, <1>4, Copies
<1>6. /\ tab' = [tab EXCEPT ![t].cur = cur, ![t].path = "app"]
      /\ showed' = showed \cup {t}
  <2>1. Show(slot[c].tab, Adopt(user, n), "app")
    BY DEF SignedIn
  <2>2. Route(cur, "app") = "app"
    BY <1>5 DEF Route
  <2>3. /\ tab' = [tab EXCEPT ![t].cur = cur, ![t].path = Route(cur, "app")]
        /\ showed' = IF cur = NoUser THEN showed ELSE showed \cup {t}
    BY <1>1, <1>4, <2>1 DEF Show
  <2> QED BY <1>5, <2>2, <2>3
<1> HIDE DEF n, user
<1>7. /\ tab' \in [Tabs -> TabState]
      /\ tab'[t].cur = cur /\ tab'[t].path = "app"
      /\ \A u \in Tabs \ {t} : tab'[u] = tab[u]
  BY <1>6 DEF SessionInv, SessionTyped, TabState, Paths
<1>8. SessionTyped'
  <2>1. stored' \in Stored
    <3>1. slot[c].whose \in Users
      BY Calling, Kinds DEF SessionInv, SignedIn
    <3>2. stored' = [token |-> n, whose |-> slot[c].whose, expired |-> FALSE, user |-> user]
          /\ n \in 0..MaxSessions
      BY <1>2
    <3> QED BY <1>3, <3>1, <3>2 DEF Stored
  <2>2. slot' \in [Slots -> {FreeSlot} \cup SignIns \cup Asks]
    BY <1>2 DEF SessionInv, SessionTyped
  <2>3. sessions' \in 0..MaxSessions /\ showed' \subseteq Tabs
    BY <1>2, <1>6 DEF SessionInv, SessionTyped
  <2> QED BY <1>7, <2>1, <2>2, <2>3 DEF SessionTyped
<1>9. StoredSound'
  BY <1>2, <1>3, SessionAssumption DEF StoredSound
<1>10. ASSUME NEW u \in Tabs PROVE TabSound(u)'
  <2>1. CASE u = t
    BY <1>2, <1>5, <1>6, <1>7, <2>1, SessionAssumption DEF TabSound, Followed
  <2>2. CASE u # t
    <3>1. tab[u].cur # NoUser => /\ u \in showed /\ ~Single'
                                 /\ tab[u].cur \in Adopted /\ tab[u].cur.since <= n
      <4>1. tab[u].cur # NoUser => u \in showed /\ tab[u].cur.since <= sessions
        BY DEF SessionInv, TabSound
      <4>2. tab[u].cur # NoUser => tab[u].cur \in Adopted /\ tab[u].cur.since \in 1..MaxSessions
        BY DEF SessionInv, SessionTyped, TabState, Adopted
      <4>3. u \in showed => ~Single'
        BY <1>6, <2>2 DEF Single
      <4> QED BY <1>2, <4>1, <4>2, <4>3, SessionAssumption DEF n
    <3> QED BY <1>2, <1>6, <1>7, <2>2, <3>1 DEF SessionInv, TabSound
  <2> QED BY <2>1, <2>2
<1>11. ASSUME NEW d \in Slots, AsksApi(d)'
       PROVE  slot'[d] = slot[d] /\ Succeeds(slot[d].tab)
  <2>1. slot'[d] = slot[d] /\ AsksApi(d)
    BY <1>2, <1>11, Kinds DEF AsksApi, SessionInv, SessionTyped
  <2>2. slot[d].tab \in Tabs
    BY <2>1, Calling, Kinds DEF SessionInv
  <2>3. n > sessions /\ n \in Nat
    BY <1>2, SessionAssumption DEF n
  <2> QED BY <1>5, <1>7, <2>1, <2>2, <2>3 DEF Succeeds
<1>12. TokenSucceeds /\ n \in Nat /\ sessions <= n /\ showed \subseteq showed'
  BY <1>2, <1>6, SessionAssumption DEF TokenSucceeds, n
<1> QED BY <1>2, <1>8, <1>9, <1>10, <1>11, <1>12, CallsLast DEF SessionInv

(* What leaves with the token of now, for a page of this session or of one  *)
(* before.                                                                  *)
LEMMA ApiRequestSound ==
    ASSUME SessionInv, NEW t \in Tabs, t \in showed, NEW patch \in Users \cup {NoUser},
           NEW since \in 0..MaxSessions, since <= sessions, NEW again \in BOOLEAN,
           patch # NoUser /\ tab[t].cur # NoUser =>
               \/ since < tab[t].cur.since
               \/ since = tab[t].cur.since /\ patch = tab[t].cur.id
    PROVE  /\ ApiRequest(t, patch, since, again) \in Asks
           /\ AskSound(ApiRequest(t, patch, since, again))
<1>1. PICK g \in BOOLEAN : g = (Attach # 0 /\ ~stored.expired)
  OBVIOUS
<1>2. PICK p \in Users \cup {NoUser} : p = IF g THEN patch ELSE NoUser
  OBVIOUS
<1>3. PICK f \in BOOLEAN : f = (g /\ again)
  OBVIOUS
<1>4. PICK k \in 0..MaxSessions : k = IF g /\ patch = NoUser THEN 0 ELSE since
  BY SessionAssumption
<1>5. /\ stored.token \in 0..MaxSessions /\ stored.token <= sessions
      /\ stored.expired \in BOOLEAN /\ sessions \in Nat
  BY SessionAssumption DEF SessionInv, SessionTyped, Stored, StoredSound
<1>6. PICK r : r = [kind |-> "ask", tab |-> t, as |-> stored.token, good |-> g,
                    expired |-> stored.expired, photo |-> f, patch |-> p, asked |-> k]
  OBVIOUS
<1>7. r = ApiRequest(t, patch, since, again)
  BY <1>1, <1>2, <1>3, <1>4, <1>6 DEF ApiRequest, Attach
<1>8. r \in Asks
  BY <1>5, <1>6 DEF Asks
<1>9. /\ r.tab = t /\ r.as = stored.token /\ r.expired = stored.expired
      /\ r.patch = p /\ r.asked = k
  BY <1>6
<1>10. Knows(r)
  BY <1>2, <1>4, <1>9 DEF Knows
<1>11. k <= sessions
  BY <1>4, <1>5
<1>12. AskSound(r)
  BY <1>5, <1>9, <1>10, <1>11 DEF AskSound
<1> QED BY <1>7, <1>8, <1>12

LEMMA AskStep ==
    ASSUME SessionInv, NEW t \in Tabs, NEW c \in Slots, NEW patch \in Users \cup {NoUser},
           NEW again \in BOOLEAN,
           tab[t].cur # NoUser, patch # NoUser => patch = tab[t].cur.id,
           AskApi(t, c, patch, again)
    PROVE  SessionInv'
<1>1. PICK since : since = tab[t].cur.since
  OBVIOUS
<1>2. since \in 0..MaxSessions /\ since <= sessions /\ t \in showed
  BY <1>1, SessionAssumption DEF SessionInv, SessionTyped, TabState, TabSound, Adopted
<1>3. PICK r : r = ApiRequest(t, patch, since, again)
  OBVIOUS
<1>4. r \in Asks /\ AskSound(r)
  BY <1>1, <1>2, <1>3, ApiRequestSound
<1>5. slot' = [slot EXCEPT ![c] = r] /\ UNCHANGED <<sessions, stored, tab, showed>>
  BY <1>1, <1>3 DEF AskApi, SendRequest
<1> QED BY <1>4, <1>5, CallsOnly

LEMMA AskDataStep ==
    ASSUME SessionInv, NEW t \in Tabs, NEW c \in Slots, AskData(t, c)
    PROVE  SessionInv'
<1>1. tab[t].cur # NoUser /\ AskApi(t, c, NoUser, FALSE)
  BY DEF AskData, AskApi
<1> QED BY <1>1, AskStep

LEMMA FetchProfileStep ==
    ASSUME SessionInv, NEW t \in Tabs, NEW c \in Slots, NEW u \in Users, FetchProfile(t, c, u)
    PROVE  SessionInv'
<1>1. PICK p \in Users \cup {NoUser} : p = IF OwnProfile(tab[t].cur, u) THEN u ELSE NoUser
  OBVIOUS
<1>2. tab[t].cur # NoUser /\ AskApi(t, c, p, FALSE) /\ (p # NoUser => p = tab[t].cur.id)
  BY <1>1 DEF FetchProfile, OwnProfile
<1> QED BY <1>2, AskStep

LEMMA ChangePhotoStep ==
    ASSUME SessionInv, NEW t \in Tabs, NEW c \in Slots, ChangePhoto(t, c)
    PROVE  SessionInv'
<1>1. tab[t].cur # NoUser /\ AskApi(t, c, tab[t].cur.id, TRUE)
  BY DEF ChangePhoto
<1>2. PICK u \in Users : u = tab[t].cur.id
  BY <1>1 DEF SessionInv, SessionTyped, TabState, Adopted
<1> QED BY <1>1, <1>2, AskStep

(* The profile is fetched for the page the photo was changed on.           *)
LEMMA FetchAgainStep ==
    ASSUME SessionInv, NEW c \in Slots, FetchAgain(c)
    PROVE  SessionInv'
<1>1. PICK q \in Asks : q = slot[c] /\ AskSound(q)
  BY Calling DEF FetchAgain, SessionInv
<1>2. /\ q.tab \in Tabs /\ q.patch \in Users \cup {NoUser} /\ q.asked \in 0..MaxSessions
      /\ q.tab \in showed /\ q.asked <= sessions /\ Knows(q)
  BY <1>1 DEF Asks, AskSound
<1>3. PICK t \in Tabs, p \in Users \cup {NoUser}, since \in 0..MaxSessions :
          t = q.tab /\ p = q.patch /\ since = q.asked
  BY <1>2
<1>4. p # NoUser /\ tab[t].cur # NoUser =>
          \/ since < tab[t].cur.since
          \/ since = tab[t].cur.since /\ p = tab[t].cur.id
  BY <1>2, <1>3 DEF Knows
<1>5. PICK r : r = ApiRequest(t, p, since, FALSE)
  OBVIOUS
<1>6. r \in Asks /\ AskSound(r)
  BY <1>2, <1>3, <1>4, <1>5, ApiRequestSound
<1>7. slot' = [slot EXCEPT ![c] = r] /\ UNCHANGED <<sessions, stored, tab, showed>>
  BY <1>1, <1>3, <1>5 DEF FetchAgain
<1> QED BY <1>6, <1>7, CallsOnly

LEMMA FailedStep ==
    ASSUME SessionInv, NEW c \in Slots, RequestFailed(c)
    PROVE  SessionInv'
  BY Kinds, CallsOnly DEF RequestFailed

(* The profile a tab asked for renames whoever it shows now: the same user *)
(* in the same session, or somebody who came later.                        *)
LEMMA AnsweredStep ==
    ASSUME SessionInv, NEW c \in Slots, Answered(c)
    PROVE  SessionInv'
<1>1. PICK t \in Tabs : t = slot[c].tab
  BY Calling, Kinds DEF Answered, SessionInv
<1>2. /\ sessions \in Nat /\ sessions' = sessions /\ showed' = showed
      /\ slot' = [slot EXCEPT ![c] = FreeSlot]
  BY SessionAssumption DEF Answered, SessionInv, SessionTyped
<1>3. CASE slot[c].patch = NoUser \/ tab[t].cur = NoUser
  <2>1. stored' = stored /\ tab' = tab
    BY <1>1, <1>3 DEF Answered, UpdateCurrentUser
  <2> QED BY <1>2, <2>1, Kinds, CallsOnly
<1>4. CASE slot[c].patch # NoUser /\ tab[t].cur # NoUser
  <2>1. PICK p \in Users : p = slot[c].patch
    BY <1>4, Calling, Kinds DEF Answered, SessionInv
  <2>2. tab[t].cur \in Adopted
    BY <1>4 DEF SessionInv, SessionTyped, TabState
  <2>3. /\ slot[c].asked \in Nat
        /\ \/ slot[c].asked < tab[t].cur.since
           \/ slot[c].asked = tab[t].cur.since /\ p = tab[t].cur.id
    BY <1>1, <1>4, <2>1, Calling, Kinds DEF Answered, SessionInv, AskSound, Knows
  <2>4. PICK cur \in Adopted : cur = PatchedUser(tab[t].cur, p, slot[c].asked)
    BY <2>1, <2>2, <2>3, PatchKeeps
  <2>5. /\ cur # NoUser /\ cur.id = tab[t].cur.id
        /\ cur.since = tab[t].cur.since /\ Own(cur)
    BY <2>1, <2>2, <2>3, <2>4, PatchKeeps
  <2>6. /\ tab' = [tab EXCEPT ![t].cur = cur]
        /\ stored' = [stored EXCEPT !.user = Bare(cur)]
    BY <1>1, <1>4, <2>1, <2>4 DEF Answered, UpdateCurrentUser
  <2>7. Bare(cur) \in UserRecords /\ Bare(cur).id = cur.id /\ Own(Bare(cur))
    BY <2>5, Copies
  <2>8. /\ tab' \in [Tabs -> TabState]
        /\ tab'[t].cur = cur /\ tab'[t].path = tab[t].path
        /\ tab'[t].leaving = tab[t].leaving
        /\ \A u \in Tabs \ {t} : tab'[u] = tab[u]
    BY <2>6 DEF SessionInv, SessionTyped, TabState
  <2>9. /\ stored' \in Stored /\ stored'.token = stored.token
        /\ stored'.whose = stored.whose /\ stored'.expired = stored.expired
        /\ stored'.user = Bare(cur)
    BY <2>6, <2>7 DEF SessionInv, SessionTyped, Stored
  <2>10. SessionTyped'
    BY <1>2, <2>8, <2>9 DEF SessionInv, SessionTyped
  <2>11. StoredSound'
    <3>1. Single /\ stored.token # 0 => stored.whose = cur.id
      BY <1>4, <2>5 DEF SessionInv, TabSound, Followed
    <3> QED BY <1>2, <2>7, <2>9, <3>1 DEF SessionInv, StoredSound, Single
  <2>12. ASSUME NEW u \in Tabs PROVE TabSound(u)'
    <3>1. CASE u = t
      BY <1>2, <1>4, <2>5, <2>8, <2>9, <3>1 DEF SessionInv, TabSound, Followed, Single
    <3>2. CASE u # t
      BY <1>2, <2>8, <2>9, <3>2 DEF SessionInv, TabSound, Followed, Single
    <3> QED BY <3>1, <3>2
  <2>13. ASSUME NEW d \in Slots, AsksApi(d)'
         PROVE  slot'[d] = slot[d] /\ Succeeds(slot[d].tab)
    <3>1. slot'[d] = slot[d] /\ AsksApi(d)
      BY <1>2, <2>13, Kinds DEF AsksApi, SessionInv, SessionTyped
    <3>2. slot[d].tab \in Tabs
      BY <3>1, Calling, Kinds DEF SessionInv
    <3> QED BY <1>4, <2>5, <2>8, <3>1, <3>2 DEF Succeeds
  <2>14. TokenSucceeds
    BY <2>9 DEF TokenSucceeds
  <2> QED BY <1>2, <2>10, <2>11, <2>12, <2>13, <2>14, CallsLast DEF SessionInv
<1> QED BY <1>3, <1>4

LEMMA RefusedStep ==
    ASSUME SessionInv, NEW c \in Slots, RequestRefused(c)
    PROVE  SessionInv'
<1>1. PICK t \in Tabs : t = slot[c].tab /\ t \in showed
  BY Calling, Kinds DEF RequestRefused, SessionInv, AskSound
<1>2. /\ sessions \in Nat /\ sessions' = sessions /\ showed' = showed
      /\ slot' = [slot EXCEPT ![c] = FreeSlot] /\ stored' = Cleared
      /\ tab' = [tab EXCEPT ![t].leaving = tab[t].path # "login"]
  BY <1>1, SessionAssumption DEF RequestRefused, LeaveForLogin, SessionInv, SessionTyped
<1>3. PICK leaves \in BOOLEAN : leaves = (tab[t].path # "login")
  OBVIOUS
<1>4. tab' = [tab EXCEPT ![t].leaving = leaves]
  BY <1>2, <1>3
<1>5. /\ tab' \in [Tabs -> TabState] /\ tab'[t].leaving = leaves
      /\ \A u \in Tabs : /\ tab'[u].cur = tab[u].cur /\ tab'[u].path = tab[u].path
                         /\ u # t => tab'[u].leaving = tab[u].leaving
  BY <1>4 DEF SessionInv, SessionTyped, TabState
<1>6. SessionTyped'
  BY <1>2, <1>5, ClearedIsStored DEF SessionInv, SessionTyped
<1>7. StoredSound'
  BY <1>2, ClearedIsStored DEF StoredSound
<1>8. ASSUME NEW u \in Tabs PROVE TabSound(u)'
  <2>1. tab[u].cur # NoUser /\ Single => u = t /\ leaves
    BY <1>1, <1>3 DEF SessionInv, TabSound, Single
  <2> QED BY <1>2, <1>5, <2>1, ClearedIsStored DEF SessionInv, TabSound, Followed, Single
<1>9. ASSUME NEW d \in Slots, AsksApi(d)'
      PROVE  slot'[d] = slot[d] /\ Succeeds(slot[d].tab)
  <2>1. slot'[d] = slot[d] /\ AsksApi(d)
    BY <1>2, <1>9, Kinds DEF AsksApi, SessionInv, SessionTyped
  <2>2. slot[d].tab \in Tabs
    BY <2>1, Calling, Kinds DEF SessionInv
  <2> QED BY <1>5, <2>1, <2>2 DEF Succeeds
<1>10. TokenSucceeds
  BY <1>2, ClearedIsStored DEF TokenSucceeds
<1> QED BY <1>2, <1>6, <1>7, <1>8, <1>9, <1>10, CallsLast DEF SessionInv

(* A token expires everywhere at once.                                     *)
LEMMA ExpireStep ==
    ASSUME SessionInv, NEW n \in 1..MaxSessions, Expire(n)
    PROVE  SessionInv'
<1>1. /\ stored' = [stored EXCEPT !.expired = @ \/ stored.token = n]
      /\ slot' = [d \in Slots |->
                    IF Carries(d, n) THEN [slot[d] EXCEPT !.expired = TRUE]
                    ELSE slot[d]]
      /\ sessions' = sessions /\ tab' = tab /\ showed' = showed
  BY DEF Expire
<1>2. PICK e \in BOOLEAN : e = (stored.expired \/ stored.token = n)
  OBVIOUS
<1>3. stored' = [stored EXCEPT !.expired = e]
  BY <1>1, <1>2
<1>4. /\ stored' \in Stored /\ stored'.token = stored.token
      /\ stored'.whose = stored.whose /\ stored'.user = stored.user
      /\ stored'.expired = e
  BY <1>3 DEF SessionInv, SessionTyped, Stored
<1>5. ASSUME NEW d \in Slots, Carries(d, n)
      PROVE  /\ slot'[d] \in Asks /\ slot'[d].tab = slot[d].tab
             /\ slot'[d].as = slot[d].as /\ slot'[d].patch = slot[d].patch
             /\ slot'[d].asked = slot[d].asked
             /\ slot[d].as = n /\ AsksApi(d)
  <2>1. slot[d] \in Asks /\ slot[d].as = n /\ AsksApi(d)
    BY <1>5, Calling DEF Carries, SessionInv
  <2>2. slot'[d] = [slot[d] EXCEPT !.expired = TRUE]
    BY <1>1, <1>5
  <2> QED BY <2>1, <2>2 DEF Asks
<1>6. ASSUME NEW d \in Slots, ~Carries(d, n)
      PROVE  slot'[d] = slot[d] /\ slot'[d] \in {FreeSlot} \cup SignIns \cup Asks
  BY <1>1, <1>6 DEF SessionInv, SessionTyped
<1>7. slot' \in [Slots -> {FreeSlot} \cup SignIns \cup Asks]
  BY <1>1, <1>5, <1>6
<1>8. SessionTyped' /\ StoredSound'
  BY <1>1, <1>4, <1>7 DEF SessionInv, SessionTyped, StoredSound, Single
<1>9. ASSUME NEW t \in Tabs PROVE TabSound(t)'
  BY <1>1, <1>4 DEF SessionInv, TabSound, Followed, Single
<1>10. ASSUME NEW d \in Slots, AsksApi(d)' PROVE AskSound(slot[d])'
  <2>1. CASE Carries(d, n)
    <3>1. AskSound(slot[d]) /\ slot'[d].as = n
      BY <1>5, <2>1 DEF SessionInv
    <3>2. n = stored.token => stored'.expired
      BY <1>2, <1>4
    <3>3. PICK q : q = slot'[d]
      OBVIOUS
    <3>4. /\ q.tab = slot[d].tab /\ q.as = slot[d].as /\ q.patch = slot[d].patch
          /\ q.asked = slot[d].asked /\ q.as = n
      BY <1>5, <2>1, <3>1, <3>3
    <3>5. Knows(q)'
      BY <1>1, <3>1, <3>4 DEF AskSound, Knows
    <3> QED BY <1>1, <1>4, <3>1, <3>2, <3>3, <3>4, <3>5 DEF AskSound, Knows
  <2>2. CASE ~Carries(d, n)
    <3>1. slot'[d] = slot[d] /\ AsksApi(d)
      BY <1>6, <1>10, <2>2 DEF AsksApi
    <3>2. AskSound(slot[d])
      BY <3>1 DEF SessionInv
    <3>3. stored.expired => stored'.expired
      BY <1>2, <1>4
    <3>4. PICK q : q = slot[d] /\ q = slot'[d] /\ AskSound(q)
      BY <3>1, <3>2
    <3>5. Knows(q)' /\ q.tab \in showed' /\ q.as <= sessions' /\ q.asked <= sessions'
      BY <1>1, <3>4 DEF AskSound, Knows
    <3>6. q.as # 0 /\ q.as = stored'.token /\ q.expired => stored'.expired
      BY <1>4, <3>3, <3>4 DEF AskSound
    <3> QED BY <3>4, <3>5, <3>6 DEF AskSound, Knows
  <2> QED BY <2>1, <2>2
<1> QED BY <1>8, <1>9, <1>10 DEF SessionInv

-----------------------------------------------------------------------------
LEMMA SessionInitInv == SessionInit => SessionInv
<1> SUFFICES ASSUME SessionInit PROVE SessionInv
  OBVIOUS
<1>1. sessions = 0 /\ stored = Cleared /\ showed = {}
  BY DEF SessionInit
<1>2. tab = [t \in Tabs |-> [cur |-> NoUser, path |-> "unopened", leaving |-> FALSE]]
  BY DEF SessionInit
<1>3. slot = [c \in Slots |-> FreeSlot]
  BY DEF SessionInit
<1>4. SessionTyped
  BY <1>1, <1>2, <1>3, ClearedIsStored, SessionAssumption DEF SessionTyped, TabState, Paths
<1>5. StoredSound
  BY <1>1, ClearedIsStored DEF StoredSound
<1>6. \A t \in Tabs : TabSound(t)
  BY <1>2 DEF TabSound
<1>7. \A c \in Slots : ~AsksApi(c)
  BY <1>3, Kinds DEF AsksApi
<1> QED BY <1>4, <1>5, <1>6, <1>7 DEF SessionInv

LEMMA SessionStutter == SessionInv /\ UNCHANGED sessionVars => SessionInv'
<1> SUFFICES ASSUME SessionInv, UNCHANGED sessionVars PROVE SessionInv'
  OBVIOUS
<1>1. UNCHANGED <<sessions, stored, tab, slot, showed>>
  BY DEF sessionVars
<1>2. SessionTyped' /\ StoredSound' /\ \A t \in Tabs : TabSound(t)'
  BY <1>1 DEF SessionInv, SessionTyped, StoredSound, TabSound, Followed, Single
<1>3. \A c \in Slots : AsksApi(c)' => AskSound(slot[c])'
  BY <1>1 DEF SessionInv, AsksApi, AskSound, Knows
<1> QED BY <1>2, <1>3 DEF SessionInv

LEMMA SessionNextInv == SessionInv /\ [SessionNext]_sessionVars => SessionInv'
<1> SUFFICES ASSUME SessionInv, [SessionNext]_sessionVars PROVE SessionInv'
  OBVIOUS
<1>1. CASE UNCHANGED sessionVars
  BY <1>1, SessionStutter
<1>2. CASE SessionNext
  <2>1. CASE \E t \in Tabs : Load(t) \/ Wander(t) \/ Logout(t)
    BY <2>1, LoadStep, WanderStep, LogoutStep
  <2>2. CASE \E t \in Tabs, c \in Slots :
                \/ AskData(t, c)
                \/ ChangePhoto(t, c)
                \/ \E u \in Users : SubmitLogin(t, c, u) \/ SubmitClaim(t, c, u)
                                    \/ FetchProfile(t, c, u)
    BY <2>2, AskDataStep, ChangePhotoStep, SubmitLoginStep, SubmitClaimStep, FetchProfileStep
  <2>3. CASE \E c \in Slots : \/ SignedIn(c) \/ Answered(c) \/ FetchAgain(c)
                              \/ RequestRefused(c) \/ RequestFailed(c)
    BY <2>3, SignedInStep, AnsweredStep, FetchAgainStep, RefusedStep, FailedStep
  <2>4. CASE \E n \in 1..MaxSessions : Expire(n)
    BY <2>4, ExpireStep
  <2> QED BY <1>2, <2>1, <2>2, <2>3, <2>4 DEF SessionNext
<1> QED BY <1>1, <1>2

(* Inv holds in every state: each tab shows the user whose token is stored *)
(* or leaves, as far as one tab can tell, and each request knows which     *)
(* session of its tab it belongs to.                                       *)
THEOREM SessionInvariance == SessionSpec => []SessionInv
  BY SessionInitInv, SessionNextInv, PTL DEF SessionSpec

-----------------------------------------------------------------------------
(* What Inv implies.                                                       *)

(* The storage, the tabs and the requests are of their kinds, and a page of *)
(* the application is open just when somebody is signed in (AppRouter).    *)
THEOREM SessionTypes == SessionSpec => []SessionTypeOK
<1>1. ASSUME SessionInv PROVE SessionTypeOK
  <2>1. /\ sessions \in 0..MaxSessions /\ sessions \in Nat /\ showed \subseteq Tabs
        /\ stored.token \in Nat /\ stored.token <= sessions
        /\ stored.expired \in BOOLEAN
        /\ stored.whose \in Users \cup {NoUser}
        /\ stored.user \in UserRecords \cup {NoUser}
    BY <1>1, SessionAssumption DEF SessionInv, SessionTyped, Stored, StoredSound
  <2>2. ASSUME NEW t \in Tabs
        PROVE  /\ tab[t].cur = NoUser \/ /\ Bare(tab[t].cur) \in UserRecords
                                         /\ tab[t].cur.since \in 1..sessions
               /\ tab[t].path \in Paths
               /\ tab[t].leaving \in BOOLEAN
               /\ tab[t].path = "app" <=> tab[t].cur # NoUser
    <3>1. tab[t] \in TabState /\ TabSound(t)
      BY <1>1 DEF SessionInv, SessionTyped
    <3>2. tab[t].cur \in Adopted \cup {NoUser}
      BY <3>1 DEF TabState
    <3>3. tab[t].cur # NoUser => tab[t].cur.since \in 1..MaxSessions
                                 /\ tab[t].cur.since <= sessions
      BY <3>1, <3>2 DEF Adopted, TabSound
    <3>4. tab[t].cur # NoUser => tab[t].cur.since \in 1..sessions
      BY <2>1, <3>3, SessionAssumption
    <3>5. tab[t].cur # NoUser => Bare(tab[t].cur) \in UserRecords
      BY <3>2, Copies
    <3>6. tab[t].path \in Paths /\ tab[t].leaving \in BOOLEAN
      BY <3>1 DEF TabState
    <3>7. tab[t].path = "app" <=> tab[t].cur # NoUser
      BY <3>1 DEF TabSound
    <3> QED BY <3>4, <3>5, <3>6, <3>7
  <2>3. \A c \in Slots : slot[c].kind \in {"idle", "sign_in", "ask"}
    BY <1>1, Kinds DEF SessionInv, SessionTyped
  <2>4. stored.token \in 0..sessions
    BY <2>1
  <2> QED BY <2>1, <2>2, <2>3, <2>4 DEF SessionTypeOK
<1> QED BY <1>1, SessionInvariance, PTL

(* One tab shows the user whose token it sends, and a name that is not the *)
(* user's own was asked for in an earlier session.                         *)
THEOREM TabsStay == SessionSpec => []TabsMatch
<1>1. ASSUME SessionInv PROVE TabsMatch
  <2>1. ASSUME NEW t \in Tabs, tab[t].cur # NoUser PROVE Own(tab[t].cur)
    BY <1>1, <2>1 DEF SessionInv, TabSound
  <2>2. NamesAreOwn
    BY <2>1 DEF NamesAreOwn, Own
  <2>3. ASSUME Cardinality(showed) <= 1, NEW t \in Tabs,
               tab[t].cur # NoUser, ~tab[t].leaving
        PROVE  stored.token # 0 /\ stored.whose = tab[t].cur.id
    <3>1. Single
      BY <1>1, <2>3, OneTab DEF SessionInv
    <3>2. Followed(t)
      BY <1>1, <2>3, <3>1 DEF SessionInv, TabSound
    <3> QED BY <2>3, <3>2 DEF Followed
  <2> QED BY <2>2, <2>3 DEF TabsMatch, OneTabMatches
<1> QED BY <1>1, SessionInvariance, PTL

(* A refusal takes away a good token only if the request carried another.  *)
LEMMA RefusesAnother ==
    ASSUME SessionInv, NEW c \in Slots, RequestRefused(c),
           stored.token # 0, ~stored.expired
    PROVE  AsksApi(c) /\ slot'[c] = FreeSlot /\ slot[c].as # stored.token
<1>1. AsksApi(c) /\ AskSound(slot[c]) /\ Unauthorized(c)
  BY DEF RequestRefused, SessionInv
<1>2. slot'[c] = FreeSlot
  BY DEF RequestRefused, SessionInv, SessionTyped
<1>3. slot[c].as # stored.token
  BY <1>1 DEF Unauthorized, AskSound
<1> QED BY <1>1, <1>2, <1>3

(* A good session that is stored ends by a sign-out, by a sign-in, or by   *)
(* the refusal of a request that carried another token or none.            *)
THEOREM SessionsLast == SessionSpec => LiveSessionsLast
<1> DEFINE Caused == \/ \E t \in Tabs : tab[t].cur # NoUser /\ tab'[t].cur = NoUser
                     \/ sessions' # sessions
                     \/ \E c \in Slots : /\ AsksApi(c) /\ slot'[c] = FreeSlot
                                         /\ slot[c].as # stored.token
           SignsOut == stored.token # 0 /\ ~stored.expired /\ stored'.token # stored.token
<1>1. ASSUME SessionInv, SessionNext, SignsOut PROVE Caused
  <2>1. ASSUME NEW t \in Tabs, Logout(t) PROVE Caused
    <3>1. tab'[t].cur = NoUser /\ tab[t].cur # NoUser
      BY <1>1, <2>1 DEF Logout, Show, SessionInv, SessionTyped, TabState
    <3> QED BY <3>1
  <2>2. ASSUME NEW c \in Slots, SignedIn(c) PROVE Caused
    <3>1. sessions' = sessions + 1 /\ sessions \in Nat
      BY <1>1, <2>2, SessionAssumption DEF SignedIn, SessionInv, SessionTyped
    <3> QED BY <3>1
  <2>3. ASSUME NEW c \in Slots, RequestRefused(c) PROVE Caused
    BY <1>1, <2>3, RefusesAnother
  <2>4. ASSUME NEW c \in Slots, Answered(c) PROVE FALSE
    <3>1. stored'.token = stored.token
      BY <1>1, <2>4 DEF Answered, UpdateCurrentUser, SessionInv, SessionTyped, Stored
    <3> QED BY <1>1, <3>1
  <2>5. ASSUME NEW n \in 1..MaxSessions, Expire(n) PROVE FALSE
    <3>1. stored'.token = stored.token
      BY <1>1, <2>5 DEF Expire, SessionInv, SessionTyped, Stored
    <3> QED BY <1>1, <3>1
  <2>6. ASSUME stored' = stored PROVE FALSE
    BY <1>1, <2>6
  <2>7. CASE \E t \in Tabs : Load(t) \/ Wander(t) \/ Logout(t)
    BY <2>1, <2>6, <2>7 DEF Load, Wander
  <2>8. CASE \E t \in Tabs, c \in Slots :
                \/ AskData(t, c)
                \/ ChangePhoto(t, c)
                \/ \E u \in Users : SubmitLogin(t, c, u) \/ SubmitClaim(t, c, u)
                                    \/ FetchProfile(t, c, u)
    BY <2>6, <2>8 DEF AskData, AskApi, ChangePhoto, FetchProfile,
                         SubmitLogin, SubmitClaim
  <2>9. CASE \E c \in Slots : \/ SignedIn(c) \/ Answered(c) \/ FetchAgain(c)
                              \/ RequestRefused(c) \/ RequestFailed(c)
    BY <2>2, <2>3, <2>4, <2>6, <2>9 DEF RequestFailed, FetchAgain
  <2> QED BY <1>1, <2>5, <2>7, <2>8, <2>9 DEF SessionNext
<1>2. SessionInv /\ [SessionNext]_sessionVars => [SignsOut => Caused]_sessionVars
  BY <1>1
<1>3. SessionSpec => [][SignsOut => Caused]_sessionVars
  BY <1>2, SessionInvariance, PTL DEF SessionSpec
<1> QED BY <1>3 DEF LiveSessionsLast

-----------------------------------------------------------------------------
(* SLIDESHOW.  The live run knows the page; a run that is over knows that  *)
(* it is over.                                                             *)

(* The runs that will resume or go on: at a fetch, an image or a timer.    *)
Working == {"fetching", "refetching", "preloading", "waiting"}

(* What a run keeps for itself: photos to show, and how many it has tried. *)
Fine(s) ==
    /\ s \in RunStates
    /\ s.pc \in Working \ {"fetching"} => Len(s.queue) > 0 /\ s.index <= Len(s.queue)
    /\ s.pc = "fetching" => s.index = 0
    /\ s.pc = "preloading" => s.index > 0
    /\ s.pc \in {"refetching", "preloading"} => s.attempts < Cardinality(Photos)

(* What the live run knows of the page: the photo it is about to exchange  *)
(* for the visible one had loaded, and it writes the other layer.          *)
Drawn(s) ==
    /\ s.paint # None => layer[s.paint] \in loads
    /\ s.pc \in Working =>
          IF s.first THEN s.paint = None /\ s.active = 0
          ELSE /\ s.active = activeLayer /\ status = "ready"
               /\ s.paint # None => s.paint = 1 - s.active

SlideshowInv ==
    /\ uploaded \subseteq Photos /\ loads \subseteq Photos
    /\ status \in {"loading", "ready", "empty", "error"}
    /\ layer \in [Layers -> Photos \cup {None}]
    /\ activeLayer \in Layers
    /\ live \in 0..MaxRuns
    /\ run \in [Runs -> RunStates]
    /\ SomethingIsShown
    /\ \A r \in Runs : Fine(run[r])
    /\ live # 0 => Drawn(run[live])

-----------------------------------------------------------------------------
(* The queues of photos.                                                   *)
Queues == UNION {[1..n -> Photos] : n \in 0..Cardinality(Photos)}

LEMMA QueuesAreShort ==
    /\ Cardinality(Photos) \in Nat
    /\ <<>> \in Queues /\ Len(<<>>) = 0
    /\ \A q \in Queues : /\ Len(q) \in Nat /\ Len(q) <= Cardinality(Photos)
                         /\ DOMAIN q = 1..Len(q)
                         /\ \A i \in 1..Len(q) : q[i] \in Photos
<1>1. Cardinality(Photos) \in Nat
  BY SlideshowAssumption, FS_CardinalityType
<1>2. <<>> \in Queues /\ Len(<<>>) = 0
  <2>1. <<>> \in Seq(Photos) /\ Len(<<>>) = 0
    BY EmptySeq
  <2>2. <<>> \in [1..0 -> Photos]
    BY <2>1, LenProperties
  <2> QED BY <1>1, <2>1, <2>2 DEF Queues
<1>3. ASSUME NEW q \in Queues
      PROVE  /\ Len(q) \in Nat /\ Len(q) <= Cardinality(Photos)
             /\ DOMAIN q = 1..Len(q)
             /\ \A i \in 1..Len(q) : q[i] \in Photos
  <2>1. PICK n \in 0..Cardinality(Photos) : q \in [1..n -> Photos]
    BY DEF Queues
  <2>2. n \in Nat /\ n <= Cardinality(Photos)
    BY <1>1, <2>1
  <2>3. q \in Seq(Photos)
    BY <2>1, <2>2, SeqDef
  <2>4. Len(q) \in Nat /\ DOMAIN q = 1..Len(q) /\ q \in [1..Len(q) -> Photos]
    BY <2>3, LenProperties
  <2>5. Len(q) = n
    BY <2>1, <2>2, <2>4
  <2> QED BY <2>2, <2>4, <2>5
<1> QED BY <1>1, <1>2, <1>3

LEMMA Shuffled ==
    ASSUME NEW S \in SUBSET Photos, S # {}, NEW q \in Shuffle(S)
    PROVE  q \in Queues /\ Len(q) > 0
<1>1. IsFiniteSet(S) /\ Cardinality(S) <= Cardinality(Photos)
  BY SlideshowAssumption, FS_Subset
<1>2. Cardinality(S) \in Nat \ {0}
  BY <1>1, FS_CardinalityType, FS_EmptySet
<1>3. q \in [1..Cardinality(S) -> S]
  BY DEF Shuffle
<1>4. Cardinality(S) \in 0..Cardinality(Photos) /\ q \in [1..Cardinality(S) -> Photos]
  BY <1>1, <1>2, <1>3, QueuesAreShort
<1>5. q \in Queues
  BY <1>4 DEF Queues
<1>6. DOMAIN q = 1..Len(q) /\ Len(q) \in Nat /\ DOMAIN q = 1..Cardinality(S)
  BY <1>3, <1>5, QueuesAreShort
<1>7. 1 \in 1..Len(q)
  BY <1>2, <1>6
<1> QED BY <1>5, <1>6, <1>7

LEMMA RunState ==
    ASSUME NEW s \in RunStates
    PROVE  /\ s.queue \in Queues /\ s.index \in Nat /\ s.attempts \in Nat
           /\ s.attempts <= Cardinality(Photos)
           /\ s.active \in Layers /\ s.paint \in Layers \cup {None}
           /\ s.first \in BOOLEAN /\ s.missed \in BOOLEAN
           /\ Len(s.queue) \in Nat /\ Len(s.queue) <= Cardinality(Photos)
           /\ DOMAIN s.queue = 1..Len(s.queue)
           /\ \A i \in 1..Len(s.queue) : s.queue[i] \in Photos
<1>1. /\ s.queue \in Queues /\ s.index \in 0..Cardinality(Photos)
      /\ s.attempts \in 0..Cardinality(Photos)
      /\ s.active \in Layers /\ s.paint \in Layers \cup {None}
  BY DEF RunStates, Queues
<1>2. s.first \in BOOLEAN /\ s.missed \in BOOLEAN
  BY DEF RunStates
<1> QED BY <1>1, <1>2, QueuesAreShort

(* A run that is not at work has nothing to keep.                          *)
LEMMA OffIsFine ==
    /\ Off \in RunStates /\ Fine(Off) /\ Fine(Begun) /\ Begun.pc = "fetching"
    /\ Begun.first /\ Begun.paint = None /\ Begun.active = 0
    /\ \A m \in BOOLEAN : /\ Fine(Ended(m)) /\ Ended(m).pc = "stopped"
                          /\ Ended(m).paint = None /\ Ended(m).missed = m
<1>1. Off \in RunStates /\ Off.pc = "off"
  BY QueuesAreShort DEF Off, RunStates, Layers, Queues
<1>2. /\ Begun \in RunStates /\ Begun.pc = "fetching" /\ Begun.paint = None
      /\ Begun.active = 0 /\ Begun.index = 0
  BY <1>1 DEF Begun, RunStates, Off
<1>3. Begun.first
  BY DEF Begun, Off
<1>4. ASSUME NEW m \in BOOLEAN
      PROVE  /\ Ended(m) \in RunStates /\ Ended(m).pc = "stopped"
             /\ Ended(m).paint = None /\ Ended(m).missed = m
  BY <1>1, <1>4 DEF Ended, RunStates, Off
<1> QED BY <1>1, <1>2, <1>3, <1>4 DEF Fine, Working

-----------------------------------------------------------------------------
(* What a step may do to the page, and the invariant after it.             *)
Holds ==
    /\ status = "ready" /\ layer'[activeLayer] # layer[activeLayer] =>
          live # 0 /\ run[live].first
    /\ page' # page => live # 0 /\ run'[live] # run[live]
    /\ status # "empty" /\ status' = "empty" => uploaded = {} \/ run'[live].missed

Good == SlideshowInv' /\ Holds

(* The rest of the class, the images and the order of the runs stay.       *)
Around == UNCHANGED <<uploaded, loads, live>>

(* A run in the middle of a step holds the same photo and the same layers. *)
Alike(s, q) == s.first = q.first /\ s.active = q.active /\ s.paint = q.paint

LEMMA DrawnAlike ==
    ASSUME NEW s, NEW q, Drawn(q), q.pc \in Working, Alike(s, q)
    PROVE  Drawn(s)
  BY DEF Drawn, Alike

LEMMA OneRun ==
    ASSUME SlideshowInv, NEW r \in Runs, NEW s, Fine(s), Become(r, s)
    PROVE  /\ run' \in [Runs -> RunStates] /\ run'[r] = s
           /\ \A q \in Runs : /\ Fine(run'[q])
                              /\ q # r => run'[q] = run[q]
  BY DEF SlideshowInv, Become, Fine

(* A step of a run that leaves the page as it is.                          *)
LEMMA QuietStep ==
    ASSUME SlideshowInv, NEW r \in Runs, NEW s, Fine(s), Become(r, s),
           Around, UNCHANGED page, r = live => Drawn(s)
    PROVE  Good
<1>1. /\ status' = status /\ layer' = layer /\ activeLayer' = activeLayer
      /\ uploaded' = uploaded /\ loads' = loads /\ live' = live
  BY DEF Around, page
<1>2. /\ run' \in [Runs -> RunStates] /\ run'[r] = s
      /\ \A q \in Runs : /\ Fine(run'[q])
                         /\ q # r => run'[q] = run[q]
  BY OneRun
<1>3. SomethingIsShown'
  BY <1>1 DEF SlideshowInv, SomethingIsShown
<1>4. live # 0 => live \in Runs
  BY SlideshowAssumption DEF SlideshowInv, Runs
<1>5. live # 0 => Drawn(run'[live])
  BY <1>2, <1>4 DEF SlideshowInv
<1>6. live' # 0 => Drawn(run[live])'
  BY <1>1, <1>5 DEF Drawn
<1>7. Holds
  BY <1>1 DEF Holds, page
<1> QED BY <1>1, <1>2, <1>3, <1>6, <1>7 DEF SlideshowInv, Good, Runs

LEMMA SilentStep ==
    ASSUME SlideshowInv, NEW r \in Runs, Cancelled(r), Silent(r), Around
    PROVE  Good
<1>1. Fine(Ended(FALSE)) /\ r # live
  BY OffIsFine DEF Cancelled
<1> QED BY <1>1, QuietStep DEF Silent

(* The live run ends, and says why.                                        *)
LEMMA EndsStep ==
    ASSUME SlideshowInv, NEW r \in Runs, ~Cancelled(r), run[r].pc \in Working,
           NEW s, s.missed \in BOOLEAN, NEW says \in {"empty", "error"},
           says = "empty" => uploaded = {} \/ s.missed,
           Ends(r, s, says), Around
    PROVE  Good
<1>1. PICK m \in BOOLEAN : m = s.missed
  OBVIOUS
<1>2. /\ status' = says /\ layer' = layer /\ activeLayer' = activeLayer
      /\ uploaded' = uploaded /\ loads' = loads /\ live' = live /\ r = live
      /\ Become(r, Ended(m))
  BY <1>1 DEF Ends, Around, Cancelled
<1>3. Fine(Ended(m)) /\ Ended(m).pc = "stopped" /\ Ended(m).paint = None /\ Ended(m).missed = m
  BY OffIsFine
<1>4. /\ run' \in [Runs -> RunStates] /\ run'[r] = Ended(m)
      /\ \A q \in Runs : Fine(run'[q])
  BY <1>2, <1>3, OneRun
<1>5. Drawn(run[live])'
  BY <1>2, <1>3, <1>4 DEF Drawn, Working
<1>6. run'[live] # run[live] /\ live # 0
  BY <1>2, <1>3, <1>4, SlideshowAssumption DEF Working, Runs
<1>7. Holds
  <2>1. status' = "empty" => uploaded = {} \/ run'[live].missed
    BY <1>1, <1>2, <1>3, <1>4
  <2> QED BY <1>2, <1>6, <2>1 DEF Holds
<1>8. SomethingIsShown'
  BY <1>2 DEF SomethingIsShown
<1> QED BY <1>2, <1>4, <1>5, <1>7, <1>8 DEF SlideshowInv, Good, Runs

(* A run that has photos to go through.                                    *)
Stocked(s) == s \in RunStates /\ Len(s.queue) > 0 /\ s.index <= Len(s.queue)

LEMMA WaitingIsFine ==
    ASSUME NEW s, Stocked(s), NEW p \in Layers \cup {None}
    PROVE  /\ Fine(Waiting(s)) /\ Fine([Waiting(s) EXCEPT !.paint = p])
           /\ Waiting(s).pc = "waiting" /\ ~Waiting(s).first
           /\ Waiting(s).active = s.active /\ Waiting(s).paint = s.paint
           /\ [Waiting(s) EXCEPT !.paint = p].pc = "waiting"
           /\ ~[Waiting(s) EXCEPT !.paint = p].first
           /\ [Waiting(s) EXCEPT !.paint = p].active = s.active
           /\ [Waiting(s) EXCEPT !.paint = p].paint = p
<1>1. PICK w : w = Waiting(s)
  OBVIOUS
<1>2. /\ w \in RunStates /\ w.pc = "waiting" /\ w.first = FALSE /\ w.active = s.active
      /\ w.paint = s.paint /\ w.queue = s.queue /\ w.index = s.index
  <2>1. 0 \in 0..Cardinality(Photos) /\ s \in RunStates
    BY QueuesAreShort DEF Stocked
  <2> QED BY <1>1, <2>1 DEF Waiting, RunStates
<1>3. PICK v : v = [w EXCEPT !.paint = p]
  OBVIOUS
<1>4. /\ v \in RunStates /\ v.pc = "waiting" /\ v.first = FALSE /\ v.active = s.active
      /\ v.paint = p /\ v.queue = s.queue /\ v.index = s.index
  BY <1>2, <1>3 DEF RunStates
<1>5. Fine(w) /\ Fine(v)
  BY <1>2, <1>4 DEF Fine, Stocked
<1> QED BY <1>1, <1>2, <1>3, <1>4, <1>5

(* A run that has awaited a photo, or found none: the hidden layer is      *)
(* written, the first time both, unless the run is over.                   *)
LEMMA ResumeStep ==
    ASSUME SlideshowInv, NEW r \in Runs, run[r].pc \in Working,
           NEW s \in RunStates, Alike(s, run[r]), NEW shot \in (Photos \cap loads) \cup {None},
           shot # None => Stocked(s) /\ run[r].pc # "waiting",
           shot = None => uploaded = {} \/ s.missed,
           Resume(r, s, shot), Around
    PROVE  Good
<1>1. CASE Cancelled(r)
  <2>1. Silent(r)
    BY <1>1 DEF Resume
  <2> QED BY <1>1, <2>1, SilentStep
<1>2. CASE ~Cancelled(r) /\ shot = None
  <2>1. Ends(r, s, "empty")
    BY <1>2 DEF Resume
  <2>2. s.missed \in BOOLEAN
    BY RunState
  <2> QED BY <1>2, <2>1, <2>2, EndsStep
<1>3. CASE ~Cancelled(r) /\ shot # None /\ s.first
  <2>1. /\ layer' = [l \in Layers |-> IF l = 0 THEN shot ELSE None]
        /\ activeLayer' = 0 /\ status' = "ready" /\ Become(r, Waiting(s))
    BY <1>3 DEF Resume
  <2>2. r = live /\ uploaded' = uploaded /\ loads' = loads /\ live' = live
    BY <1>3 DEF Cancelled, Around
  <2>3. s.active = 0 /\ s.paint = None /\ run[r].first
    <3>1. Drawn(run[r])
      BY <2>2, SlideshowAssumption DEF SlideshowInv, Runs
    <3>2. s.first = run[r].first /\ s.active = run[r].active /\ s.paint = run[r].paint
      BY DEF Alike
    <3>3. run[r].first
      BY <1>3, <3>2
    <3>4. run[r].paint = None /\ run[r].active = 0
      BY <3>1, <3>3 DEF Drawn
    <3> QED BY <3>2, <3>3, <3>4
  <2>4. /\ Fine(Waiting(s)) /\ Waiting(s).pc = "waiting" /\ ~Waiting(s).first
        /\ Waiting(s).active = 0 /\ Waiting(s).paint = None
    BY <1>3, <2>3, WaitingIsFine
  <2>5. /\ run' \in [Runs -> RunStates] /\ run'[r] = Waiting(s)
        /\ \A q \in Runs : Fine(run'[q])
    BY <2>1, <2>4, OneRun
  <2>6. /\ layer' \in [Layers -> Photos \cup {None}]
        /\ layer'[0] = shot /\ shot \in loads
    BY <1>3, <2>1 DEF Layers
  <2>7. Drawn(run[live])' /\ SomethingIsShown'
    BY <2>1, <2>2, <2>4, <2>5, <2>6 DEF Drawn, SomethingIsShown
  <2>8. Holds
    <3>1. run'[live] # run[live] /\ live # 0
      BY <1>3, <2>2, <2>4, <2>5, SlideshowAssumption DEF Runs
    <3> QED BY <2>1, <2>2, <2>3, <3>1 DEF Holds
  <2> QED BY <2>1, <2>2, <2>5, <2>6, <2>7, <2>8 DEF SlideshowInv, Good, Layers, Runs
<1>4. CASE ~Cancelled(r) /\ shot # None /\ ~s.first
  <2>1. PICK l : l = IdleLayer(s)
    OBVIOUS
  <2>2. /\ layer' = [layer EXCEPT ![l] = shot]
        /\ Become(r, [Waiting(s) EXCEPT !.paint = l])
        /\ status' = status /\ activeLayer' = activeLayer
    BY <1>4, <2>1 DEF Resume
  <2>3. r = live /\ uploaded' = uploaded /\ loads' = loads /\ live' = live /\ live # 0
    BY <1>4, SlideshowAssumption DEF Cancelled, Around, Runs
  <2>4. s.active = activeLayer /\ status = "ready" /\ activeLayer \in Layers
    BY <1>4, <2>3 DEF SlideshowInv, Drawn, Alike
  <2>5. l \in Layers /\ l # activeLayer /\ l = 1 - activeLayer
    BY <2>1, <2>4 DEF IdleLayer, Layers
  <2>6. PICK w : w = [Waiting(s) EXCEPT !.paint = l]
    OBVIOUS
  <2>7. Fine(w) /\ w.pc = "waiting" /\ ~w.first /\ w.active = s.active /\ w.paint = l
    BY <1>4, <2>5, <2>6, WaitingIsFine
  <2>8. /\ run' \in [Runs -> RunStates] /\ run'[r] = w
        /\ \A q \in Runs : Fine(run'[q])
    BY <2>2, <2>6, <2>7, OneRun
  <2>9. /\ layer' \in [Layers -> Photos \cup {None}]
        /\ layer'[l] = shot /\ shot \in loads
        /\ layer'[activeLayer] = layer[activeLayer]
    BY <1>4, <2>2, <2>4, <2>5 DEF SlideshowInv
  <2>10. Drawn(run[live])' /\ SomethingIsShown'
    BY <2>2, <2>3, <2>4, <2>5, <2>7, <2>8, <2>9
       DEF Drawn, SlideshowInv, SomethingIsShown
  <2>11. Holds
    <3>1. run'[live] # run[live]
      BY <1>4, <2>3, <2>7, <2>8
    <3> QED BY <2>2, <2>3, <2>4, <2>9, <3>1 DEF Holds
  <2> QED BY <2>2, <2>3, <2>8, <2>9, <2>10, <2>11 DEF SlideshowInv, Good, Runs
<1> QED BY <1>1, <1>2, <1>3, <1>4

(* The head of advance()'s loop.                                           *)
LEMMA AttemptStep ==
    ASSUME SlideshowInv, NEW r \in Runs, run[r].pc \in Working,
           NEW s, Stocked(s), Alike(s, run[r]), s.attempts > 0 => s.missed,
           Attempt(r, s), Around
    PROVE  Good
<1>1. /\ s \in RunStates /\ s.attempts \in Nat /\ s.index \in Nat
      /\ Len(s.queue) \in Nat /\ Len(s.queue) > 0 /\ s.index <= Len(s.queue)
      /\ Len(s.queue) <= Cardinality(Photos) /\ Cardinality(Photos) \in Nat
  BY RunState, QueuesAreShort DEF Stocked
<1>2. CASE Exhausted(s)
  <2>1. s.missed
    BY <1>1, <1>2 DEF Exhausted
  <2> QED BY <1>1, <1>2, <2>1, ResumeStep DEF Attempt
<1>3. CASE ~Exhausted(s) /\ s.index = Len(s.queue)
  <2>1. PICK t : t = [s EXCEPT !.pc = "refetching"]
    OBVIOUS
  <2>2. Become(r, t) /\ UNCHANGED page /\ s.attempts < Cardinality(Photos)
    BY <1>1, <1>3, <2>1 DEF Attempt, Exhausted
  <2>3. /\ t \in RunStates /\ t.pc = "refetching" /\ Alike(t, s)
        /\ t.queue = s.queue /\ t.index = s.index /\ t.attempts = s.attempts
    BY <1>1, <2>1 DEF RunStates, Alike
  <2>4. Fine(t)
    BY <1>1, <2>2, <2>3 DEF Fine
  <2>5. r = live => Drawn(t)
    <3>1. r = live => Drawn(run[r])
      BY SlideshowAssumption DEF SlideshowInv, Runs
    <3>2. Alike(t, run[r])
      BY <2>3 DEF Alike
    <3> QED BY <3>1, <3>2, DrawnAlike
  <2> QED BY <2>2, <2>4, <2>5, QuietStep
<1>4. CASE ~Exhausted(s) /\ s.index # Len(s.queue)
  <2>1. PICK t : t = [s EXCEPT !.pc = "preloading", !.index = @ + 1]
    OBVIOUS
  <2>2. Become(r, t) /\ UNCHANGED page /\ s.attempts < Cardinality(Photos)
    BY <1>1, <1>4, <2>1 DEF Attempt, Exhausted
  <2>3. s.index + 1 \in 0..Cardinality(Photos) /\ s.index + 1 <= Len(s.queue) /\ s.index + 1 > 0
    BY <1>1, <1>4
  <2>4. /\ t \in RunStates /\ t.pc = "preloading" /\ Alike(t, s)
        /\ t.queue = s.queue /\ t.index = s.index + 1 /\ t.attempts = s.attempts
    BY <1>1, <2>1, <2>3 DEF RunStates, Alike
  <2>5. Fine(t)
    BY <1>1, <2>2, <2>3, <2>4 DEF Fine
  <2>6. r = live => Drawn(t)
    <3>1. r = live => Drawn(run[r])
      BY SlideshowAssumption DEF SlideshowInv, Runs
    <3>2. Alike(t, run[r])
      BY <2>4 DEF Alike
    <3> QED BY <3>1, <3>2, DrawnAlike
  <2> QED BY <2>2, <2>5, <2>6, QuietStep
<1> QED BY <1>2, <1>3, <1>4

-----------------------------------------------------------------------------
(* The operations.                                                         *)
LEMMA WorkingRun ==
    ASSUME SlideshowInv, NEW r \in Runs
    PROVE  /\ run[r] \in RunStates /\ Fine(run[r]) /\ Alike(run[r], run[r])
           /\ uploaded \in SUBSET Photos
           /\ r = live => Drawn(run[r])
  BY SlideshowAssumption DEF SlideshowInv, Runs, Alike

LEMMA FetchedStep ==
    ASSUME SlideshowInv, NEW r \in Runs, PhotosFetched(r)
    PROVE  Good
<1>1. run[r].pc = "fetching" /\ run[r].pc \in Working /\ Around
  BY DEF PhotosFetched, Working, Around
<1>2. CASE Cancelled(r)
  BY <1>1, <1>2, SilentStep DEF PhotosFetched
<1>3. CASE ~Cancelled(r) /\ uploaded = {}
  <2>1. Ends(r, run[r], "empty")
    BY <1>3 DEF PhotosFetched
  <2> QED BY <1>1, <1>3, <2>1, WorkingRun, RunState, EndsStep
<1>4. CASE ~Cancelled(r) /\ uploaded # {}
  <2>1. PICK q \in Shuffle(uploaded) : Advance(r, [run[r] EXCEPT !.queue = q])
    BY <1>4 DEF PhotosFetched
  <2>2. q \in Queues /\ Len(q) > 0
    BY <1>4, Shuffled, WorkingRun
  <2>3. PICK s : s = [[run[r] EXCEPT !.queue = q] EXCEPT !.attempts = 0]
    OBVIOUS
  <2>4. /\ s \in RunStates /\ Alike(s, run[r]) /\ s.queue = q /\ s.index = run[r].index
        /\ s.attempts = 0
    <3>1. 0 \in 0..Cardinality(Photos) /\ run[r] \in RunStates
      BY QueuesAreShort, WorkingRun
    <3> QED BY <2>2, <2>3, <3>1 DEF RunStates, Queues, Alike
  <2>5. s.index = 0 /\ Len(q) \in Nat
    BY <1>1, <2>2, <2>4, WorkingRun, QueuesAreShort DEF Fine
  <2>6. Stocked(s) /\ Attempt(r, s)
    BY <2>1, <2>2, <2>3, <2>4, <2>5 DEF Stocked, Advance
  <2> QED BY <1>1, <2>4, <2>6, AttemptStep
<1> QED BY <1>2, <1>3, <1>4

LEMMA FetchFailedStep ==
    ASSUME SlideshowInv, NEW r \in Runs, FetchFailed(r)
    PROVE  Good
<1>1. run[r].pc \in Working /\ Around
  BY DEF FetchFailed, Working, Around
<1>2. CASE Cancelled(r)
  BY <1>1, <1>2, SilentStep DEF FetchFailed
<1>3. CASE ~Cancelled(r)
  <2>1. Ends(r, run[r], "error")
    BY <1>3 DEF FetchFailed
  <2> QED BY <1>1, <1>3, <2>1, WorkingRun, RunState, EndsStep
<1> QED BY <1>2, <1>3

LEMMA RefetchedStep ==
    ASSUME SlideshowInv, NEW r \in Runs, Refetched(r)
    PROVE  Good
<1>1. run[r].pc = "refetching" /\ run[r].pc \in Working /\ Around
  BY DEF Refetched, Working, Around
<1>2. CASE Cancelled(r)
  <2>1. Silent(r)
    BY <1>2 DEF Refetched, Resume
  <2> QED BY <1>1, <1>2, <2>1, SilentStep
<1>3. CASE ~Cancelled(r) /\ uploaded = {}
  <2>1. Resume(r, run[r], None)
    BY <1>3 DEF Refetched
  <2> QED BY <1>1, <1>3, <2>1, WorkingRun, ResumeStep
<1>4. CASE ~Cancelled(r) /\ uploaded # {}
  <2>1. PICK q \in Shuffle(uploaded) :
              Become(r, [run[r] EXCEPT !.pc = "preloading", !.queue = q, !.index = 1])
    BY <1>4 DEF Refetched
  <2>2. UNCHANGED page
    BY <1>4 DEF Refetched
  <2>3. q \in Queues /\ Len(q) > 0 /\ Len(q) \in Nat /\ Len(q) <= Cardinality(Photos)
    BY <1>4, Shuffled, WorkingRun, QueuesAreShort
  <2>4. 1 \in 0..Cardinality(Photos) /\ run[r] \in RunStates
    BY <2>3, QueuesAreShort, WorkingRun
  <2>5. PICK s : s = [run[r] EXCEPT !.pc = "preloading", !.queue = q, !.index = 1]
    OBVIOUS
  <2>6. /\ s \in RunStates /\ s.pc = "preloading" /\ Alike(s, run[r])
        /\ s.queue = q /\ s.index = 1 /\ s.attempts = run[r].attempts
    BY <2>3, <2>4, <2>5 DEF RunStates, Queues, Alike
  <2>7. Fine(s)
    BY <1>1, <2>3, <2>6, WorkingRun DEF Fine
  <2>8. r = live => Drawn(s)
    BY <1>1, <2>6, WorkingRun, DrawnAlike
  <2> QED BY <1>1, <2>1, <2>2, <2>5, <2>7, <2>8, QuietStep
<1> QED BY <1>2, <1>3, <1>4

LEMMA RefetchFailedStep ==
    ASSUME SlideshowInv, NEW r \in Runs, RefetchFailed(r)
    PROVE  Good
<1>1. PICK s : s = [Off EXCEPT !.pc = "threw", !.paint = run[r].paint]
  OBVIOUS
<1>2. Become(r, s) /\ Around /\ UNCHANGED page
  BY <1>1 DEF RefetchFailed, Around
<1>3. s \in RunStates /\ s.pc = "threw" /\ s.paint = run[r].paint
  <2>1. Off \in RunStates /\ run[r].paint \in Layers \cup {None}
    BY OffIsFine, WorkingRun, RunState
  <2> QED BY <1>1, <2>1 DEF RunStates
<1>4. Fine(s)
  BY <1>3 DEF Fine, Working
<1>5. r = live => Drawn(s)
  BY <1>3, WorkingRun DEF Drawn, Working
<1> QED BY <1>2, <1>4, <1>5, QuietStep

LEMMA CandidateIsAPhoto ==
    ASSUME SlideshowInv, NEW r \in Runs, run[r].pc = "preloading"
    PROVE  /\ Stocked(run[r]) /\ run[r].index \in 1..Len(run[r].queue)
           /\ Candidate(r) \in Photos
           /\ run[r].attempts + 1 \in 1..Cardinality(Photos)
<1>1. Fine(run[r]) /\ run[r] \in RunStates
  BY WorkingRun
<1>2. /\ Stocked(run[r]) /\ run[r].index > 0
      /\ run[r].attempts < Cardinality(Photos)
  BY <1>1 DEF Fine, Stocked, Working
<1>3. run[r].index \in 1..Len(run[r].queue)
  BY <1>1, <1>2, RunState DEF Stocked
<1>4. Candidate(r) \in Photos
  BY <1>1, <1>3, RunState DEF Candidate
<1> QED BY <1>1, <1>2, <1>3, <1>4, RunState, QueuesAreShort

LEMMA ImageLoadedStep ==
    ASSUME SlideshowInv, NEW r \in Runs, ImageLoaded(r)
    PROVE  Good
<1>1. /\ run[r].pc = "preloading" /\ run[r].pc \in Working /\ Around
      /\ Candidate(r) \in loads
      /\ Resume(r, run[r], Candidate(r))
  BY DEF ImageLoaded, Around, Working
<1>2. Candidate(r) \in Photos /\ Candidate(r) # None /\ Stocked(run[r])
  BY <1>1, CandidateIsAPhoto, SlideshowAssumption
<1>3. PICK shot \in (Photos \cap loads) \cup {None} : shot = Candidate(r)
  BY <1>1, <1>2
<1>4. Resume(r, run[r], shot)
  BY <1>1, <1>3
<1> QED BY <1>1, <1>2, <1>3, <1>4, WorkingRun, ResumeStep

LEMMA SkipStep ==
    ASSUME SlideshowInv, NEW r \in Runs, run[r].pc = "preloading", Skip(r), Around
    PROVE  Good
<1>1. PICK s : s = [run[r] EXCEPT !.attempts = @ + 1, !.missed = TRUE]
  OBVIOUS
<1>2. Attempt(r, s)
  BY <1>1 DEF Skip
<1>3. run[r] \in RunStates /\ run[r].attempts + 1 \in 0..Cardinality(Photos)
  BY WorkingRun, CandidateIsAPhoto
<1>4. /\ s \in RunStates /\ Alike(s, run[r]) /\ s.missed = TRUE
      /\ s.queue = run[r].queue /\ s.index = run[r].index
  BY <1>1, <1>3 DEF RunStates, Alike
<1>5. Stocked(s)
  BY <1>4, CandidateIsAPhoto DEF Stocked
<1> QED BY <1>2, <1>4, <1>5, AttemptStep DEF Working

LEMMA TickStep ==
    ASSUME SlideshowInv, NEW r \in Runs, Tick(r)
    PROVE  Good
<1>1. run[r].pc = "waiting" /\ run[r].pc \in Working /\ Around
  BY DEF Tick, Around, Working
<1>2. PICK s : s = [run[r] EXCEPT !.attempts = 0]
  OBVIOUS
<1>3. Attempt(r, s)
  BY <1>2 DEF Tick, Advance
<1>4. run[r] \in RunStates /\ 0 \in 0..Cardinality(Photos) /\ Stocked(run[r])
  BY <1>1, WorkingRun, QueuesAreShort DEF Fine, Stocked, Working
<1>5. /\ s \in RunStates /\ Alike(s, run[r]) /\ s.attempts = 0
      /\ s.queue = run[r].queue /\ s.index = run[r].index
  BY <1>2, <1>4 DEF RunStates, Alike
<1>6. Stocked(s)
  BY <1>4, <1>5 DEF Stocked
<1> QED BY <1>1, <1>3, <1>5, <1>6, AttemptStep

(* The layers change places: the hidden one bears a photo that had loaded. *)
LEMMA FrameStep ==
    ASSUME SlideshowInv, NEW r \in Runs, Frame(r)
    PROVE  Good
<1>1. Around /\ run[r].paint # None /\ run[r] \in RunStates /\ Fine(run[r])
  BY WorkingRun DEF Frame, Around
<1>2. run[r].paint \in Layers
  BY <1>1, RunState
<1>3. CASE Cancelled(r)
  <2>1. PICK s : s = [run[r] EXCEPT !.paint = None]
    OBVIOUS
  <2>2. Become(r, s) /\ UNCHANGED page /\ r # live
    BY <1>3, <2>1 DEF Frame, Cancelled
  <2>3. /\ s \in RunStates /\ s.pc = run[r].pc /\ s.queue = run[r].queue
        /\ s.index = run[r].index /\ s.attempts = run[r].attempts
    BY <1>1, <2>1 DEF RunStates
  <2>4. Fine(s)
    BY <1>1, <2>3 DEF Fine
  <2> QED BY <1>1, <2>2, <2>4, QuietStep
<1>4. CASE ~Cancelled(r)
  <2>1. PICK l \in Layers : l = run[r].paint
    BY <1>2
  <2>2. PICK s : s = [run[r] EXCEPT !.active = l, !.paint = None]
    OBVIOUS
  <2>3. /\ Become(r, s) /\ activeLayer' = l /\ status' = status /\ layer' = layer
        /\ uploaded' = uploaded /\ loads' = loads /\ live' = live /\ r = live
    BY <1>4, <2>1, <2>2 DEF Frame, Cancelled
  <2>4. /\ s \in RunStates /\ s.pc = run[r].pc /\ s.queue = run[r].queue
        /\ s.index = run[r].index /\ s.attempts = run[r].attempts
        /\ s.first = run[r].first /\ s.active = l /\ s.paint = None
    BY <1>1, <2>2 DEF RunStates
  <2>5. Fine(s)
    BY <1>1, <2>4 DEF Fine
  <2>6. Drawn(run[r]) /\ live # 0
    BY <2>3, WorkingRun, SlideshowAssumption DEF Runs
  <2>7. layer[l] \in loads
    BY <1>1, <2>1, <2>6 DEF Drawn
  <2>8. run[r].pc \in Working => ~run[r].first /\ status = "ready"
    BY <1>1, <2>6 DEF Drawn
  <2>9. s.pc \in Working => ~s.first /\ status = "ready"
    BY <2>4, <2>8
  <2>10. /\ run' \in [Runs -> RunStates] /\ run'[r] = s
         /\ \A q \in Runs : Fine(run'[q])
    BY <2>3, <2>5, OneRun
  <2>11. Drawn(run[live])'
    BY <2>3, <2>4, <2>9, <2>10 DEF Drawn
  <2>12. SomethingIsShown'
    BY <2>3, <2>7 DEF SomethingIsShown
  <2>13. Holds
    <3>1. run'[live] # run[live]
      BY <1>1, <2>1, <2>3, <2>4, <2>10
    <3> QED BY <2>3, <2>6, <3>1 DEF Holds
  <2> QED BY <2>3, <2>10, <2>11, <2>12, <2>13 DEF SlideshowInv, Good, Runs
<1> QED BY <1>3, <1>4

LEMMA CleanedUp ==
    ASSUME SlideshowInv, live # 0
    PROVE  /\ CleanUp \in [Runs -> RunStates]
           /\ \A q \in Runs : Fine(CleanUp[q])
<1>1. live \in Runs /\ run[live] \in RunStates /\ Fine(run[live])
  BY SlideshowAssumption DEF SlideshowInv, Runs
<1>2. PICK s : s = IF run[live].pc = "waiting" /\ run[live].paint = None
                   THEN Ended(FALSE) ELSE run[live]
  OBVIOUS
<1>3. CleanUp = [run EXCEPT ![live] = s]
  BY <1>2 DEF CleanUp
<1>4. Fine(s) /\ s \in RunStates
  BY <1>1, <1>2, OffIsFine DEF Fine
<1> QED BY <1>1, <1>3, <1>4 DEF SlideshowInv

LEMMA RerunStep ==
    ASSUME SlideshowInv, Rerun
    PROVE  Good
<1>1. /\ live \in 1..(MaxRuns - 1) /\ live' = live + 1 /\ live # 0
      /\ run' = [CleanUp EXCEPT ![live + 1] = Begun]
      /\ uploaded' = uploaded /\ loads' = loads
      /\ status' = status /\ layer' = layer /\ activeLayer' = activeLayer
  BY DEF Rerun, page
<1>2. PICK n \in Runs : n = live + 1 /\ n \in 0..MaxRuns /\ n # 0
  BY <1>1, SlideshowAssumption DEF Runs
<1>3. /\ CleanUp \in [Runs -> RunStates]
      /\ \A q \in Runs : Fine(CleanUp[q])
  BY <1>1, CleanedUp
<1>4. run' = [CleanUp EXCEPT ![n] = Begun] /\ live' = n
  BY <1>1, <1>2
<1>5. /\ run' \in [Runs -> RunStates] /\ run'[n] = Begun
      /\ \A q \in Runs : Fine(run'[q])
  BY <1>3, <1>4, OffIsFine DEF Fine
<1>6. Drawn(run[live])'
  BY <1>4, <1>5, OffIsFine DEF Drawn
<1>7. Holds /\ SomethingIsShown'
  BY <1>1 DEF Holds, page, SomethingIsShown, SlideshowInv
<1> QED BY <1>1, <1>2, <1>4, <1>5, <1>6, <1>7 DEF SlideshowInv, Good, Runs

LEMMA LeaveStep ==
    ASSUME SlideshowInv, LeaveShow
    PROVE  Good
<1>1. /\ live # 0 /\ live' = 0 /\ run' = CleanUp
      /\ uploaded' = uploaded /\ loads' = loads
      /\ status' = status /\ layer' = layer /\ activeLayer' = activeLayer
  BY DEF LeaveShow, page
<1>2. run' \in [Runs -> RunStates] /\ \A q \in Runs : Fine(run'[q])
  BY <1>1, CleanedUp
<1>3. Holds /\ SomethingIsShown'
  BY <1>1 DEF Holds, page, SomethingIsShown, SlideshowInv
<1>4. live' \in 0..MaxRuns
  BY <1>1, SlideshowAssumption
<1> QED BY <1>1, <1>2, <1>3, <1>4 DEF SlideshowInv, Good, Runs

LEMMA ChangeStep ==
    ASSUME SlideshowInv, ChangePhotos
    PROVE  Good
<1>1. /\ loads' = loads /\ run' = run /\ live' = live
      /\ status' = status /\ layer' = layer /\ activeLayer' = activeLayer
  BY DEF ChangePhotos, page
<1>2. uploaded' \subseteq Photos
  BY DEF ChangePhotos, SlideshowInv
<1>3. Holds /\ SomethingIsShown'
  BY <1>1 DEF Holds, page, SomethingIsShown, SlideshowInv
<1>4. live' # 0 => Drawn(run[live])'
  BY <1>1 DEF SlideshowInv, Drawn
<1> QED BY <1>1, <1>2, <1>3, <1>4 DEF SlideshowInv, Good, Runs

LEMMA SlideshowStutter == SlideshowInv /\ UNCHANGED slideVars => SlideshowInv'
<1> SUFFICES ASSUME SlideshowInv, UNCHANGED slideVars PROVE SlideshowInv'
  OBVIOUS
<1>1. /\ uploaded' = uploaded /\ loads' = loads /\ run' = run /\ live' = live
      /\ status' = status /\ layer' = layer /\ activeLayer' = activeLayer
  BY DEF slideVars, page
<1>2. SomethingIsShown' /\ (live' # 0 => Drawn(run[live])')
  BY <1>1 DEF SlideshowInv, SomethingIsShown, Drawn
<1> QED BY <1>1, <1>2 DEF SlideshowInv, Runs

LEMMA SlideshowStep == SlideshowInv /\ SlideshowNext => Good
<1> SUFFICES ASSUME SlideshowInv, SlideshowNext PROVE Good
  OBVIOUS
<1>1. ASSUME NEW r \in Runs,
             \/ PhotosFetched(r) \/ FetchFailed(r) \/ Refetched(r) \/ RefetchFailed(r)
             \/ ImageLoaded(r) \/ Tick(r) \/ Frame(r)
      PROVE  Good
  BY <1>1, FetchedStep, FetchFailedStep, RefetchedStep, RefetchFailedStep,
     ImageLoadedStep, TickStep, FrameStep
<1>2. ASSUME NEW r \in Runs, ImageError(r) \/ PreloadTimeout(r) PROVE Good
  BY <1>2, SkipStep DEF ImageError, PreloadTimeout, Around
<1> QED BY <1>1, <1>2, RerunStep, LeaveStep, ChangeStep DEF SlideshowNext

LEMMA SlideshowInitInv == SlideshowInit => SlideshowInv
<1> SUFFICES ASSUME SlideshowInit PROVE SlideshowInv
  OBVIOUS
<1>1. /\ uploaded \subseteq Photos /\ loads \subseteq Photos
      /\ status = "loading" /\ activeLayer = 0 /\ live = 1
  BY DEF SlideshowInit
<1>2. layer = [l \in Layers |-> None]
  BY DEF SlideshowInit
<1>3. run = [r \in Runs |-> IF r = 1 THEN Begun ELSE Off]
  BY DEF SlideshowInit
<1>4. run \in [Runs -> RunStates] /\ \A r \in Runs : Fine(run[r])
  BY <1>3, OffIsFine DEF Fine
<1>5. 1 \in Runs /\ 1 \in 0..MaxRuns
  BY SlideshowAssumption DEF Runs
<1>6. Drawn(run[live])
  BY <1>1, <1>3, <1>5, OffIsFine DEF Drawn
<1>7. SomethingIsShown
  BY <1>1 DEF SomethingIsShown
<1> QED BY <1>1, <1>2, <1>4, <1>5, <1>6, <1>7 DEF SlideshowInv, Layers

(* SlideshowInv holds in every state: the live run writes the layer that   *)
(* is not visible, and the photo it is about to show had loaded.           *)
THEOREM SlideshowInvariance == SlideshowSpec => []SlideshowInv
<1>1. SlideshowInv /\ [SlideshowNext]_slideVars => SlideshowInv'
  BY SlideshowStep, SlideshowStutter DEF Good
<1> QED BY <1>1, SlideshowInitInv, PTL DEF SlideshowSpec

(* The page and the runs are of their kinds: no run counts or looks past   *)
(* the end of its queue.                                                   *)
THEOREM SlideshowTypes == SlideshowSpec => []SlideshowTypeOK
<1>1. ASSUME SlideshowInv PROVE SlideshowTypeOK
  <2>1. ASSUME NEW r \in Runs, run[r].pc = "preloading"
        PROVE  run[r].index \in DOMAIN run[r].queue
    BY <1>1, <2>1, CandidateIsAPhoto, WorkingRun, RunState
  <2> QED BY <1>1, <2>1 DEF SlideshowInv, SlideshowTypeOK
<1> QED BY <1>1, SlideshowInvariance, PTL

(* The screen shows a photo that had loaded, exchanged in its turn by the  *)
(* live run only, and taken away only if the class has none or an image    *)
(* was skipped.                                                            *)
THEOREM ScreenStays == SlideshowSpec => ScreenHolds
<1>1. SlideshowInv => SomethingIsShown
  BY DEF SlideshowInv
<1> DEFINE Stays  == status = "ready" /\ layer'[activeLayer] # layer[activeLayer] =>
                        live # 0 /\ run[live].first
           Lively == page' # page => live # 0 /\ run'[live] # run[live]
           Caused == status # "empty" /\ status' = "empty" =>
                        uploaded = {} \/ run'[live].missed
<1>2. SlideshowInv /\ [SlideshowNext]_slideVars
      => [Stays]_slideVars /\ [Lively]_slideVars /\ [Caused]_slideVars
  BY SlideshowStep DEF Good, Holds
<1> HIDE DEF Stays, Lively, Caused
<1>3. SlideshowSpec => /\ []SomethingIsShown /\ [][Stays]_slideVars
                       /\ [][Lively]_slideVars /\ [][Caused]_slideVars
  BY <1>1, <1>2, SlideshowInvariance, PTL DEF SlideshowSpec
<1> QED BY <1>3 DEF ScreenHolds, VisibleLayerStays, LateRunsAreSilent, EmptyHasCause,
                    Stays, Lively, Caused

-----------------------------------------------------------------------------
(* LISTS. A page lists the rows the API would give it, if nothing crosses   *)
(* and nothing is lost, but for the requests that are done and whose        *)
(* answers are on their way: the invariant InTune says what these have      *)
(* done, the other parts what stays true whatever crosses or fails.         *)

(* What a page asks for.                                                    *)
MayCall(op) ==
    \/ op = "fetch"
    \/ op = "publish" /\ listPage \in {"profile", "pending"}
    \/ op = "edit"    /\ listPage \in {"profile", "authored", "gallery", "directory"} \cup ManagerPages
    \/ op = "delete"  /\ listPage # "other"
    \/ op = "add"     /\ listPage \in {"other", "gallery", "classes"} \cup ManagerPages
    \/ op = "setup"   /\ listPage = "classes"
    \/ op = "photo"   /\ listPage \in PhotoPages

(* The operations on one row.                                               *)
RowOps == {"publish", "edit", "delete", "add"}

(* The API would list the row.                                              *)
Seen(r) == View(server)[r] # Null

(* A request is one its page makes, about a row there may be; what it will  *)
(* free is what it has marked.                                              *)
CallSound(c) ==
    /\ MayCall(c.op)
    /\ c.op \in RowOps => c.id \in Rows
    /\ c.op = "add" /\ listPage # "classes" => c.id \notin Old
    /\ c.op = "publish" => c.base[c.id] # Null /\ (listPage = "pending" => c.publish)
    /\ c.op \in {"publish", "edit", "add"} /\ c.st = "done" => c.reply[c.id] # Null
    /\ c.op # "fetch" => c.frees = Marks(c.op)

(* Only a page that is open asks, and only the gallery uploads.             *)
CallsSound ==
    /\ listPage = Null => Out = {}
    /\ dialog = File => listPage = "gallery"
    /\ \A i \in Out : CallSound(call[i])

(* The first fetch of a page that fetches once.                             *)
FetchSound ==
    listPage \in {"authored", "pending", "directory"} =>
        \A i \in Out : call[i].op = "fetch" =>
            /\ ~loaded /\ \A j \in Out : call[j].op = "fetch" => i = j
            /\ listPage \in ClosurePages => Out = {i} /\ loading /\ dialog = Null

(* Requests that end in a fetch of a profile.                               *)
FetchOps == {"fetch", "photo"}

(* A profile that fetches again shows nothing meanwhile, and is asked for   *)
(* by one request; before its rows have come nothing else is asked for.     *)
RefetchSound ==
    listPage \in {"profile", "other"} =>
        /\ \A i \in Out : call[i].op = "fetch" => loading
        /\ \A i, j \in Out : call[i].op \in FetchOps /\ call[j].op \in FetchOps => i = j
        /\ ~loaded => \A i \in Out : call[i].op \in FetchOps => Out = {i}
        /\ ~loaded /\ listPage = "profile" => /\ \A r \in Rows : list[r] = Null
                                              /\ \A i \in Out : call[i].op \in FetchOps

(* A flag is up only while a request is out that will take it down, and a   *)
(* flag that guards a button is that of one request.                        *)
FlagsSound ==
    /\ \A f \in busy : \E i \in Out : f \in call[i].frees
    /\ acting # Null => \E i \in Out : "row" \in call[i].frees
    /\ \A i \in Out : \A f \in call[i].frees \cap Flags :
          \/ listPage = "gallery" /\ f = "edit"
          \/ f \in busy /\ \A j \in Out : f \in call[j].frees => i = j

(* A copy on its way lists what is there, unless a fetch left rows out.     *)
RowsSound ==
    listPage \notin {"classes", Null} /\ ~cut =>
        /\ loaded => \A r \in Old : Seen(r) => list[r] # Null
        /\ \A i \in Out : \A r \in Old : Seen(r) =>
              /\ call[i].st = "done" /\ call[i].op = "fetch" => call[i].reply[r] # Null
              /\ call[i].st = "done" /\ (call[i].op = "delete" \/ (call[i].op = "publish" /\ listPage = "pending"))
                    => call[i].id # r
              /\ listPage \in ClosurePages /\ loaded /\ call[i].op # "fetch" => call[i].base[r] # Null

(* What a call that is done has done, and what the page still shows.         *)
DoneSound(c) ==
    /\ c.op \in {"fetch", "setup"} => c.reply = View(server)
    /\ c.op \in {"edit", "add"} => server[c.id] = Written(c) /\ c.reply[c.id] = server[c.id]
    /\ c.op = "edit" => list[c.id] # Null
    /\ c.op = "add" /\ listPage \in {"classes", "gallery"} => list[c.id] = Null
    /\ c.op = "delete" => server[c.id] = Null
    /\ c.op = "publish" => /\ list[c.id] # Null /\ c.reply[c.id] = server[c.id]
                           /\ server[c.id] = [list[c.id] EXCEPT !.published = c.publish]

(* The rows are on their way: what is shown meanwhile does not count.       *)
Fetching == \E i \in Out : call[i].op = "fetch"

(* A request that crosses no other.                                         *)
Alone(i) ==
    \A j \in Out : i # j => /\ listPage \notin ClosurePages
                            /\ ~Replaces(call[i].op) /\ ~Replaces(call[j].op)
                            /\ call[i].id # call[j].id

(* Of what has not crossed: nothing is listed twice, a patched copy is what *)
(* is shown, and a row that is not as the API has it has its answer on its  *)
(* way.                                                                     *)
InTune ==
    clean /\ listPage # Null =>
        /\ twice = {}
        /\ \A i \in Out : /\ Alone(i)
                          /\ call[i].op = "fetch" => call[i].st # "refused"
                          /\ call[i].op # "fetch" /\ listPage \in ClosurePages => call[i].base = list
                          /\ call[i].st = "done" => DoneSound(call[i])
        /\ Fetching \/ \A r \in Rows :
              \/ Agrees(r)
              \/ \E i \in Out : call[i].st = "done" /\ (call[i].op = "setup" \/ (call[i].op \in RowOps /\ call[i].id = r))

(* The invariant of the lists.                                              *)
ListsInv ==
    /\ ListsTypeOK
    /\ CallsSound /\ FetchSound /\ RefetchSound /\ FlagsSound /\ RowsSound
    /\ InTune

(* The pages, the rows and Null are apart.                                  *)
LEMMA PageKinds ==
    ASSUME ListsTypeOK
    PROVE  /\ listPage \in ListPages \cup {Null}
           /\ listPage = Null => listPage \notin ListPages
           /\ Null \notin ListPages /\ Null \notin Rows /\ Null \notin Row
           /\ File \notin Rows /\ Null # File
           /\ \A n \in 1..MaxClicks : n \in Rows /\ n \notin Old
           /\ Old \subseteq Rows /\ Mine \subseteq Rows
  BY ListsAssumption DEF ListsTypeOK, Rows, File

(* With and Mapped write one row, and Mapped only one that is listed.       *)
LEMMA ListingFacts ==
    ASSUME NEW rows \in Listing, NEW r \in Rows, NEW row \in Row \cup {Null}
    PROVE  /\ With(rows, r, row) \in Listing
           /\ With(rows, r, row)[r] = row
           /\ \A q \in Rows : q # r => With(rows, r, row)[q] = rows[q]
           /\ Mapped(rows, r, row) \in Listing
           /\ Mapped(rows, r, row)[r] = IF rows[r] = Null THEN Null ELSE row
           /\ \A q \in Rows : q # r => Mapped(rows, r, row)[q] = rows[q]
  BY DEF Listing, With, Mapped

(* An empty list.                                                           *)
LEMMA NoRowsFacts == NoRows \in Listing /\ \A r \in Rows : NoRows[r] = Null
  BY DEF NoRows, Listing

(* What each page is given of a row.                                        *)
LEMMA ViewFacts ==
    ASSUME NEW rows \in Listing
    PROVE  /\ View(rows) \in Listing
           /\ \A r \in Rows : /\ View(rows)[r] \in {rows[r], Null}
                              /\ listPage = "pending" /\ rows[r] # Null =>
                                    (View(rows)[r] # Null <=> ~rows[r].published)
                              /\ listPage = "other" /\ rows[r] # Null =>
                                    (View(rows)[r] # Null <=> rows[r].published)
                              /\ listPage \notin {"pending", "other"} => View(rows)[r] = rows[r]
<1>1. \A r \in Rows : View(rows)[r] \in {rows[r], Null}
  BY DEF View
<1>2. View(rows) \in Listing
  BY <1>1 DEF View, Listing
<1>3. ASSUME NEW r \in Rows
      PROVE  /\ listPage = "pending" /\ rows[r] # Null =>
                   (View(rows)[r] # Null <=> ~rows[r].published)
             /\ listPage = "other" /\ rows[r] # Null =>
                   (View(rows)[r] # Null <=> rows[r].published)
             /\ listPage \notin {"pending", "other"} => View(rows)[r] = rows[r]
  BY DEF View
<1> QED
  BY <1>1, <1>2, <1>3

(* The flags of each page.                                                  *)
LEMMA MarksFacts ==
    ASSUME NEW op
    PROVE  /\ listPage = "schools" => Marks(op) = {}
           /\ listPage = "profile" => Marks(op) = {"photo"} \cap {op}
           /\ listPage = "pending" => Marks(op) = {"row"}
           /\ listPage = "events" => Marks(op) = IF op = "delete" THEN {"row"} ELSE {"save"}
           /\ listPage \in {"authored", "directory"} => Marks(op) = {"edit"} \cap {op}
           /\ listPage = "other" => Marks(op) = {"add", "photo"} \cap {op}
           /\ listPage = "gallery" => Marks(op) = {"add", "edit", "photo"} \cap {op}
           /\ listPage = "classes" => Marks(op) = {"add", "setup"} \cap {op}
           /\ Marks(op) \subseteq Flags \cup {"row"}
<1>1. CASE listPage = "pending"
  BY <1>1 DEF Marks, Flags
<1>2. CASE listPage = "events"
  BY <1>2 DEF Marks, Flags
<1>3. CASE listPage \in {"authored", "directory"}
  BY <1>3 DEF Marks, Flags
<1>4. CASE listPage \in {"profile", "other", "gallery"}
  BY <1>4 DEF Marks, Flags
<1>5. CASE listPage = "classes"
  BY <1>5 DEF Marks, Flags
<1>6. CASE listPage \notin {"pending", "events", "authored", "directory", "profile", "other",
                            "gallery", "classes"}
  BY <1>6 DEF Marks, Flags
<1> QED
  BY <1>1, <1>2, <1>3, <1>4, <1>5, <1>6

(* The records of requests are of their kind.                               *)
LEMMA IdleFacts ==
    /\ Idle \in CallType /\ Idle.st = "idle"
    /\ Fetch \in CallType /\ Fetch.st = "asked" /\ Fetch.op = "fetch" /\ Fetch.frees = {}
<1>1. Idle \in CallType /\ Idle.st = "idle"
  BY NoRowsFacts, ListsAssumption DEF Idle, CallType
<1>2. Fetch \in CallType /\ Fetch.st = "asked" /\ Fetch.op = "fetch" /\ Fetch.frees = {}
  BY <1>1 DEF Fetch, Idle, CallType
<1> QED
  BY <1>1, <1>2

(* One request becomes another, or comes, or goes.                          *)
LEMMA CallChanges ==
    ASSUME ListsTypeOK, NEW i \in Calls, NEW new \in CallType, call' = [call EXCEPT ![i] = new]
    PROVE  /\ call' \in [Calls -> CallType] /\ call'[i] = new
           /\ \A j \in Calls : j # i => call'[j] = call[j]
           /\ Out' = IF new.st = "idle" THEN Out \ {i} ELSE Out \cup {i}
<1>1. /\ call' \in [Calls -> CallType] /\ call'[i] = new
      /\ \A j \in Calls : j # i => call'[j] = call[j]
  BY DEF ListsTypeOK
<1>2. Out' = {c \in Calls : call'[c].st # "idle"}
  BY DEF Out
<1> QED
  BY <1>1, <1>2 DEF Out

(* A page that has just been opened.                                        *)
LEMMA ListsStart ==
    ASSUME ListsInit
    PROVE  ListsInv
<1> USE DEF ListsInit
<1>1. PICK first \in SUBSET Old :
          server = [r \in Rows |-> IF r \in first
                                   THEN [text |-> 0, published |-> listPage # "pending"]
                                   ELSE Null]
  BY ListsAssumption
<1>2. server \in Listing /\ list \in Listing
  BY <1>1, NoRowsFacts, ListsAssumption DEF Listing, Row
<1>3. ListsTypeOK
  <2>1. call \in [Calls -> CallType]
    BY IdleFacts
  <2>2. clicks \in 0..MaxClicks /\ listPage \in Pages \cup {Null}
    BY ListsAssumption
  <2> QED
    BY <1>2, <2>1, <2>2 DEF ListsTypeOK
<1>4. /\ listPage = Null => Out = {}
      /\ listPage # Null => Out = {1} /\ call[1] = Fetch
  BY <1>3, IdleFacts, ListsAssumption DEF Out
<1>5. CallsSound /\ FetchSound /\ RefetchSound
  <2>1. CallsSound /\ FetchSound
    BY <1>3, <1>4, IdleFacts, PageKinds DEF CallsSound, CallSound, MayCall, RowOps, FetchSound
  <2>2. RefetchSound
    BY <1>3, <1>4, IdleFacts, PageKinds, NoRowsFacts DEF RefetchSound, FetchOps
  <2> QED
    BY <2>1, <2>2
<1>6. FlagsSound /\ RowsSound
  BY <1>3, <1>4, IdleFacts, PageKinds DEF FlagsSound, RowsSound
<1>7. InTune
  BY <1>3, <1>4, IdleFacts, PageKinds DEF InTune, Alone, Fetching
<1> QED
  BY <1>3, <1>5, <1>6, <1>7 DEF ListsInv

(* A row's form or a dialog opens on a row that is visible.                 *)
LEMMA Opens ==
    ASSUME ListsTypeOK, NEW r
    PROVE  /\ r \in Forms => r \in Rows
           /\ r \in Dialogs => /\ r \in Rows \cup {File} /\ (r = File => listPage = "gallery")
                               /\ listPage \in ClosurePages => ~loading
<1> USE DEF Visible, Shown
<1>1. r \in Forms => r \in Rows
  BY DEF Forms
<1>2. CASE listPage \in {"authored", "classes", "schools"}
  BY <1>1, <1>2, PageKinds DEF Dialogs
<1>3. CASE listPage = "pending"
  BY <1>1, <1>3, PageKinds DEF Dialogs
<1>4. CASE listPage = "directory"
  <2>1. r \in Dialogs => r \in Rows
    BY <1>4 DEF Dialogs, ListsTypeOK
  <2> QED
    BY <1>1, <1>4, <2>1, PageKinds DEF ClosurePages
<1>5. CASE listPage = "gallery"
  BY <1>1, <1>5 DEF Dialogs, ClosurePages
<1>6. CASE listPage \notin {"authored", "classes", "schools", "pending", "directory", "gallery"}
  BY <1>1, <1>6 DEF Dialogs
<1> QED
  BY <1>2, <1>3, <1>4, <1>5, <1>6

(* Forms and dialogs are opened and closed.                                 *)
LEMMA ListsOpen ==
    ASSUME ListsInv,
           \/ \E r \in Rows : OpenForm(r)
           \/ CloseForm \/ CloseDialog
           \/ \E d \in Rows \cup {File} : OpenDialog(d)
    PROVE  ListsInv'
<1> DEFINE Only == /\ UNCHANGED <<listPage, server, list, twice, loading, call, clicks, loaded, clean, cut,
                                  busy, acting>>
                   /\ editing' \in Rows \cup {Null}
                   /\ \/ dialog' \in {dialog, Null}
                      \/ dialog' \in Rows \cup {File} /\ (dialog' = File => listPage = "gallery")
                         /\ (listPage \in ClosurePages => ~loading)
<1>1. Only
  <2>1. ASSUME NEW r \in Rows, OpenForm(r)
        PROVE  Only
    BY <2>1 DEF OpenForm, ReaderOnly
  <2>2. CASE CloseForm
    BY <2>2 DEF CloseForm, ReaderOnly
  <2>3. CASE CloseDialog
    BY <2>3 DEF CloseDialog, ReaderOnly, ListsInv, ListsTypeOK
  <2>4. ASSUME NEW d \in Rows \cup {File}, OpenDialog(d)
        PROVE  Only
    BY <2>4, Opens DEF OpenDialog, ReaderOnly, ListsInv, ListsTypeOK
  <2> QED
    BY <2>1, <2>2, <2>3, <2>4
<1>2. Out' = Out /\ ListsTypeOK'
  BY <1>1 DEF Out, ListsInv, ListsTypeOK
<1>3. CallsSound'
  BY <1>1, <1>2, PageKinds DEF ListsInv, CallsSound, CallSound, MayCall, RowOps, Marks
<1>4. FetchSound' /\ RefetchSound'
  BY <1>1, <1>2 DEF ListsInv, FetchSound, RefetchSound
<1>5. FlagsSound'
  BY <1>1, <1>2 DEF ListsInv, FlagsSound
<1>6. View(server)' = View(server)
  BY <1>1 DEF View
<1>7. RowsSound'
  BY <1>1, <1>2, <1>6 DEF ListsInv, RowsSound, Seen
<1>8. InTune'
  <2>1. \A r : Agrees(r)' <=> Agrees(r)
    BY <1>1, <1>6 DEF Agrees
  <2> QED
    BY <1>1, <1>2, <1>6, <2>1
       DEF ListsInv, InTune, Alone, DoneSound, Fetching, Written, Replaces, RowOps
<1> QED
  BY <1>2, <1>3, <1>4, <1>5, <1>7, <1>8 DEF ListsInv

(* What a button that is there asks for.                                    *)
LEMMA Clickable ==
    ASSUME ListsInv, NEW op, NEW r, <<op, r>> \in Buttons, clicks < ClicksOn[listPage]
    PROVE  /\ listPage \in ListPages /\ MayCall(op) /\ op # "fetch"
           /\ op \in RowOps => r \in Rows
           /\ op = "add" /\ listPage # "classes" => r \notin Old
           /\ op = "publish" => list[r] # Null
           /\ listPage \in ClosurePages => ~loading \/ dialog # Null
           /\ listPage \in {"profile", "other"} => ~loading
           /\ listPage = "profile" /\ op # "photo" => r \in Rows /\ list[r] # Null
           /\ listPage = "other" => loaded
           /\ \A f \in Marks(op) \cap Flags : f \in busy => listPage = "gallery" /\ f = "edit"
           /\ Next1 \in 1..MaxClicks
           /\ r \in Rows \cup {Null}
<1> USE DEF Visible, Shown, Submit, MayCall, RowOps, ClosurePages, ManagerPages, ListPages
<1> DEFINE Goal == /\ listPage \in ListPages /\ MayCall(op) /\ op # "fetch"
                   /\ op \in RowOps => r \in Rows
                   /\ op = "add" /\ listPage # "classes" => r \notin Old
                   /\ op = "publish" => list[r] # Null
                   /\ listPage \in ClosurePages => ~loading \/ dialog # Null
                   /\ listPage \in {"profile", "other"} => ~loading
                   /\ listPage = "profile" /\ op # "photo" => r \in Rows /\ list[r] # Null
                   /\ listPage = "other" => loaded
                   /\ \A f \in Marks(op) \cap Flags : f \in busy => listPage = "gallery" /\ f = "edit"
                   /\ r \in Rows \cup {Null}
<1>0. \A o, rows : <<op, r>> \in Ask(o, rows) => op = o /\ r \in rows
  BY DEF Ask
<1>1. listPage \in ListPages
  BY PageKinds DEF Buttons, RowButtons, PhotoButton, PhotoPages, ListsInv, ListsTypeOK
<1>2. Next1 \in 1..MaxClicks /\ Next1 \in Rows /\ Next1 \notin Old
  <2>1. listPage \in Pages
    BY <1>1, PageKinds DEF ListsInv, ListsTypeOK
  <2>2. ClicksOn[listPage] \in 0..MaxClicks /\ clicks \in 0..MaxClicks
    BY <2>1, ListsAssumption DEF ListsInv, ListsTypeOK
  <2>3. Next1 \in 1..MaxClicks
    BY <2>2, ListsAssumption DEF Next1
  <2> QED
    BY <2>3, PageKinds DEF ListsInv
<1>3. /\ editing \in Rows \cup {Null} /\ dialog \in Rows \cup {File, Null}
      /\ dialog = File => listPage = "gallery"
  BY DEF ListsInv, ListsTypeOK, CallsSound
<1>4. CASE <<op, r>> \in PhotoButton
  <2>1. /\ op = "photo" /\ r = Null /\ listPage \in PhotoPages /\ ~loading /\ "photo" \notin busy
        /\ listPage = "other" => loaded
    BY <1>4 DEF PhotoButton
  <2>2. Marks(op) = {"photo"}
    <3>1. \E kinds : "photo" \in kinds /\ Marks(op) = kinds \cap {op}
      BY <2>1, MarksFacts DEF PhotoPages
    <3> QED
      BY <2>1, <3>1
  <2> QED
    BY <1>1, <1>2, <2>1, <2>2
<1>5. CASE <<op, r>> \in RowButtons
  <2>1. CASE listPage = "profile"
    <3>1. <<op, r>> \in ProfileButtons
      BY <1>5, <2>1 DEF RowButtons
    <3> QED
      BY <1>0, <1>2, <1>3, <2>1, <3>1, MarksFacts DEF ProfileButtons, Flags
  <2>2. CASE listPage = "authored"
    <3>1. <<op, r>> \in AuthoredButtons
      BY <1>5, <2>2 DEF RowButtons
    <3> QED
      BY <1>0, <1>2, <1>3, <2>2, <3>1, MarksFacts DEF AuthoredButtons, Flags
  <2>3. CASE listPage = "pending"
    <3>1. <<op, r>> \in PendingButtons
      BY <1>5, <2>3 DEF RowButtons
    <3> QED
      BY <1>0, <1>2, <1>3, <2>3, <3>1, MarksFacts DEF PendingButtons, Flags
  <2>4. CASE listPage = "other"
    <3>1. <<op, r>> \in OtherButtons
      BY <1>5, <2>4 DEF RowButtons
    <3> QED
      BY <1>0, <1>2, <1>3, <2>4, <3>1, MarksFacts DEF OtherButtons, Flags
  <2>5. CASE listPage = "gallery"
    <3>1. <<op, r>> \in GalleryButtons
      BY <1>5, <2>5 DEF RowButtons
    <3> QED
      BY <1>0, <1>2, <1>3, <2>5, <3>1, MarksFacts DEF GalleryButtons, Flags
  <2>6. CASE listPage = "directory"
    <3>1. <<op, r>> \in DirectoryButtons
      BY <1>5, <2>6 DEF RowButtons
    <3> QED
      BY <1>0, <1>2, <1>3, <2>6, <3>1, MarksFacts DEF DirectoryButtons, Flags
  <2>7. CASE listPage = "classes"
    <3>1. <<op, r>> \in ClassesButtons
      BY <1>5, <2>7 DEF RowButtons
    <3> QED
      BY <1>0, <1>2, <1>3, <2>7, <3>1, MarksFacts DEF ClassesButtons, Flags, Rows
  <2>8. CASE listPage = "schools"
    <3>1. <<op, r>> \in SchoolsButtons
      BY <1>5, <2>8 DEF RowButtons
    <3> QED
      BY <1>0, <1>2, <1>3, <2>8, <3>1, MarksFacts DEF SchoolsButtons, Flags
  <2>9. CASE listPage = "events"
    <3>1. <<op, r>> \in EventsButtons
      BY <1>5, <2>9 DEF RowButtons
    <3> QED
      BY <1>0, <1>2, <1>3, <2>9, <3>1, MarksFacts DEF EventsButtons, Flags
  <2> QED
    BY <1>1, <2>1, <2>2, <2>3, <2>4, <2>5, <2>6, <2>7, <2>8, <2>9
<1> QED
  BY <1>2, <1>4, <1>5 DEF Buttons

(* The reader asks: what is clicked is marked, and the copy that the        *)
(* handler closes over is the list that is shown.                           *)
LEMMA ListsClick ==
    ASSUME ListsInv, NEW op \in {"publish", "edit", "delete", "add", "setup", "photo"},
           NEW r \in Rows \cup {Null}, Click(op, r)
    PROVE  ListsInv'
<1> USE DEF ListsInv
<1>1. /\ <<op, r>> \in Buttons /\ clicks < ClicksOn[listPage] /\ Out # Calls
      /\ busy' = busy \cup (Marks(op) \ {"row"})
      /\ acting' = IF "row" \in Marks(op) THEN r ELSE acting
      /\ clicks' = Next1 /\ clean' = (clean /\ ~Crosses(op, r))
      /\ UNCHANGED <<listPage, server, list, twice, loading, editing, dialog, loaded, cut>>
  BY DEF Click
<1>2. /\ listPage \in ListPages /\ MayCall(op) /\ op # "fetch"
      /\ op \in RowOps => r \in Rows
      /\ op = "add" /\ listPage # "classes" => r \notin Old
      /\ op = "publish" => list[r] # Null
      /\ listPage \in ClosurePages => ~loading \/ dialog # Null
      /\ listPage \in {"profile", "other"} => ~loading
      /\ listPage = "profile" /\ op # "photo" => r \in Rows /\ list[r] # Null
      /\ listPage = "other" => loaded
      /\ \A f \in Marks(op) \cap Flags : f \in busy => listPage = "gallery" /\ f = "edit"
      /\ Next1 \in 1..MaxClicks
  BY <1>1, Clickable
<1>3. listPage # Null /\ Marks(op) \subseteq Flags \cup {"row"}
  BY <1>2, PageKinds, MarksFacts
<1> DEFINE publishes == (listPage = "profile" /\ op = "publish") => ~list[r].published
           base == IF listPage \in ClosurePages THEN list ELSE NoRows
           closes == Closes(op, r)
           frees == Marks(op)
           n == Next1
           made == [st |-> "asked", op |-> op, id |-> r, n |-> n, publish |-> publishes,
                    base |-> base, closes |-> closes, frees |-> frees, reply |-> NoRows]
<1>4. PICK c \in Calls \ Out : call' = [call EXCEPT ![c] = made]
  <2>1. call' = [call EXCEPT ![CHOOSE c \in Calls \ Out : TRUE] = made]
    BY DEF Click
  <2>2. (CHOOSE c \in Calls \ Out : TRUE) \in Calls \ Out
    BY <1>1 DEF Out
  <2> QED
    BY <2>1, <2>2
<1>5. /\ publishes \in BOOLEAN /\ closes \in BOOLEAN /\ n \in 0..MaxClicks
      /\ base \in Listing /\ frees = Marks(op)
      /\ listPage \in ClosurePages => base = list
      /\ listPage = "pending" => publishes
  BY <1>2, NoRowsFacts DEF ListsTypeOK, Closes
<1> HIDE DEF base, publishes, closes, frees, n
<1>7. made \in CallType
  BY <1>3, <1>5, NoRowsFacts DEF CallType
<1>8. /\ made.st = "asked" /\ made.op = op /\ made.id = r /\ made.frees = Marks(op)
      /\ listPage \in ClosurePages => made.base = list
      /\ listPage = "pending" => made.publish
  BY <1>5
<1> HIDE DEF made
<1>9. /\ call' \in [Calls -> CallType] /\ call'[c] = made
      /\ \A j \in Calls : j # c => call'[j] = call[j]
      /\ Out' = Out \cup {c}
  BY <1>4, <1>7, <1>8, CallChanges
<1>10. Out \subseteq Calls /\ c \notin Out
  BY DEF Out
<1>11. ListsTypeOK'
  BY <1>1, <1>2, <1>3, <1>9 DEF ListsTypeOK
<1>12. CallsSound'
  BY <1>1, <1>2, <1>3, <1>8, <1>9, <1>10 DEF CallsSound, CallSound, MayCall, RowOps, Marks, ClosurePages
<1>13. FetchSound' /\ RefetchSound'
  <2>1. FetchSound'
    BY <1>1, <1>2, <1>8, <1>9, <1>10 DEF FetchSound, ClosurePages
  <2>2. SUFFICES ASSUME listPage \in {"profile", "other"}
                 PROVE  RefetchSound'
    BY <1>1, <2>1 DEF RefetchSound
  <2>3. op = "photo" => \A j \in Out : call[j].op \notin FetchOps
    <3>1. op = "photo" => "photo" \notin busy
      <4>1. \E kinds : "photo" \in kinds /\ \A o : Marks(o) = kinds \cap {o}
        BY <2>2, MarksFacts
      <4> QED
        BY <1>2, <2>2, <4>1 DEF Flags
    <3>2. \A j \in Out : call[j].op = "photo" => "photo" \in busy
      <4>1. \E kinds : "photo" \in kinds /\ \A o : Marks(o) = kinds \cap {o}
        BY <2>2, MarksFacts
      <4>2. \A j \in Out : call[j].op = "photo" => "photo" \in call[j].frees
        BY <4>1 DEF CallsSound, CallSound
      <4> QED
        BY <2>2, <4>2 DEF FlagsSound, Flags
    <3> QED
      BY <1>2, <2>2, <3>1, <3>2 DEF RefetchSound, FetchOps
  <2>4. ~loaded => op = "photo" /\ listPage = "profile" /\ Out = {}
    <3>1. ~loaded => op = "photo" /\ listPage = "profile"
      BY <1>2, <2>2 DEF RefetchSound
    <3> QED
      BY <2>3, <3>1 DEF RefetchSound
  <2>5. op \in FetchOps <=> op = "photo"
    BY <1>2 DEF FetchOps
  <2> QED
    BY <1>1, <1>2, <1>8, <1>9, <1>10, <2>2, <2>3, <2>4, <2>5 DEF RefetchSound
<1>14. FlagsSound'
  <2>1. \A f \in busy' : \E i \in Out' : f \in call'[i].frees
    BY <1>1, <1>3, <1>8, <1>9, <1>10 DEF FlagsSound
  <2>2. acting' # Null => \E i \in Out' : "row" \in call'[i].frees
    BY <1>1, <1>8, <1>9, <1>10 DEF FlagsSound
  <2>3. ASSUME NEW i \in Out', NEW f \in call'[i].frees \cap Flags,
               listPage # "gallery" \/ f # "edit"
        PROVE  f \in busy' /\ \A j \in Out' : f \in call'[j].frees => i = j
    <3>1. "row" \notin Flags
      BY DEF Flags
    <3>2. CASE i = c
      <4>1. f \in busy' /\ f \notin busy
        BY <1>1, <1>2, <1>8, <1>9, <2>3, <3>1, <3>2
      <4>2. \A j \in Out : f \notin call[j].frees
        BY <2>3, <4>1 DEF FlagsSound
      <4> QED
        BY <1>9, <1>10, <3>2, <4>1, <4>2
    <3>3. CASE i # c
      <4>1. i \in Out /\ call'[i] = call[i] /\ f \in busy
        BY <1>9, <1>10, <2>3, <3>3 DEF FlagsSound
      <4>2. f \notin Marks(op)
        BY <1>2, <2>3, <4>1
      <4> QED
        BY <1>1, <1>8, <1>9, <1>10, <2>3, <4>1, <4>2 DEF FlagsSound
    <3> QED
      BY <3>2, <3>3
  <2> QED
    BY <1>1, <2>1, <2>2, <2>3 DEF FlagsSound
<1>15. View(server)' = View(server)
  BY <1>1 DEF View
<1>16. RowsSound'
  BY <1>1, <1>2, <1>8, <1>9, <1>10, <1>15 DEF RowsSound, Seen
<1>17. InTune'
  <2>1. SUFFICES ASSUME clean'
                 PROVE  InTune'
    BY DEF InTune
  <2>2. clean /\ \A j \in Out : /\ listPage \notin ClosurePages /\ ~Replaces(op)
                                /\ ~Replaces(call[j].op) /\ call[j].id # r
    BY <1>1, <2>1 DEF Crosses
  <2>3. \A i \in Out' : Alone(i)'
    BY <1>1, <1>3, <1>8, <1>9, <1>10, <2>2 DEF InTune, Alone, Replaces
  <2>4. \A i \in Out : /\ call[i].op = "fetch" => call[i].st # "refused"
                       /\ call[i].op # "fetch" /\ listPage \in ClosurePages => call[i].base = list
                       /\ call[i].st = "done" => DoneSound(call[i])
    BY <1>3, <2>2 DEF InTune
  <2>5. \A i \in Out : /\ call'[i].op = "fetch" => call'[i].st # "refused"
                       /\ call'[i].op # "fetch" /\ listPage' \in ClosurePages => call'[i].base = list'
                       /\ call'[i].st = "done" => DoneSound(call[i])'
    BY <1>1, <1>9, <1>10, <1>15, <2>4 DEF DoneSound, Written
  <2>7. \A q : Agrees(q)' <=> Agrees(q)
    BY <1>1, <1>15 DEF Agrees
  <2>6. twice' = {} /\ (Fetching' \/ \A q \in Rows :
              \/ Agrees(q)'
              \/ \E i \in Out' : call'[i].st = "done" /\ (call'[i].op = "setup" \/ (call'[i].op \in RowOps /\ call'[i].id = q)))
    BY <1>1, <1>3, <1>9, <1>10, <2>2, <2>7 DEF InTune, Fetching
  <2> QED
    BY <1>1, <1>2, <1>8, <1>9, <2>3, <2>5, <2>6 DEF InTune
<1> QED
  BY <1>11, <1>12, <1>13, <1>14, <1>16, <1>17

(* A row that is written.                                                   *)
LEMMA WrittenFacts ==
    ASSUME ListsTypeOK, NEW i \in Calls
    PROVE  /\ Written(call[i]) \in Row /\ Written(call[i]) # Null
           /\ Written(call[i]).published = (listPage \notin CommentPages)
<1>1. Written(call[i]) \in Row
  BY DEF Written, Row, ListsTypeOK, CallType
<1> QED
  BY <1>1, PageKinds DEF Written

(* What a request does to the rows the API keeps.                           *)
LEMMA EffectFacts ==
    ASSUME ListsInv, NEW i \in Calls, call[i].st = "asked", Possible(call[i]),
           server' = Effect(call[i]), listPage' = listPage
    PROVE  /\ server' \in Listing
           /\ call[i].op \in FetchOps => server' = server
           /\ call[i].op \in RowOps => /\ call[i].id \in Rows
                                       /\ \A r \in Rows : r # call[i].id => server'[r] = server[r]
           /\ call[i].op \in {"edit", "add"} => server'[call[i].id] = Written(call[i])
           /\ call[i].op = "delete" => server'[call[i].id] = Null
           /\ call[i].op = "publish" =>
                 /\ server[call[i].id] # Null
                 /\ server'[call[i].id] = [server[call[i].id] EXCEPT !.published = call[i].publish]
           /\ listPage # "classes" => \A r \in Old : Seen(r)' => Seen(r)
<1> DEFINE c == call[i]
<1>1. i \in Out /\ CallSound(c) /\ c \in CallType /\ server \in Listing /\ listPage # Null
  BY DEF Out, ListsInv, CallsSound, ListsTypeOK
<1>2. Written(c) \in Row /\ (Written(c).published <=> listPage \notin CommentPages)
  BY WrittenFacts DEF ListsInv
<1>3. \A r \in Rows : View(server)'[r] = View(server')[r]
  BY DEF View
<1> DEFINE Goal ==
           /\ server' \in Listing
           /\ c.op \in FetchOps => server' = server
           /\ c.op \in RowOps => /\ c.id \in Rows
                                       /\ \A r \in Rows : r # c.id => server'[r] = server[r]
           /\ c.op \in {"edit", "add"} => server'[c.id] = Written(c)
           /\ c.op = "delete" => server'[c.id] = Null
           /\ c.op = "publish" =>
                 /\ server[c.id] # Null
                 /\ server'[c.id] = [server[c.id] EXCEPT !.published = c.publish]
<1>4. Goal /\ (listPage # "classes" => \A r \in Old : Seen(r)' => Seen(r))
  <2> USE DEF FetchOps
  <2>1. CASE c.op \in FetchOps
    <3>1. server' = server
      BY <2>1 DEF Effect
    <3> QED
      BY <1>1, <1>3, <2>1, <3>1 DEF RowOps, Seen, Rows
  <2>2. CASE c.op = "publish"
    <3>1. c.id \in Rows /\ server[c.id] # Null /\ c.publish \in BOOLEAN
      BY <1>1, <2>2 DEF CallSound, RowOps, Possible, CallType
    <3>2. server' = [server EXCEPT ![c.id] = [server[c.id] EXCEPT !.published = c.publish]]
      BY <2>2 DEF Effect
    <3>3. server[c.id] \in Row
      BY <1>1, <3>1 DEF Listing
    <3>4. [server[c.id] EXCEPT !.published = c.publish] \in Row
      BY <3>1, <3>3 DEF Row
    <3>5. Goal
      BY <1>1, <2>2, <3>1, <3>2, <3>4 DEF Listing, RowOps
    <3>6. ASSUME listPage # "classes", NEW r \in Old, Seen(r)'
          PROVE  Seen(r)
      <4>1. r \in Rows /\ listPage \in {"profile", "pending"}
        BY <1>1, <2>2 DEF Rows, CallSound, MayCall
      <4>2. listPage = "pending" => c.publish
        BY <1>1, <2>2 DEF CallSound
      <4>3. r # c.id => server'[r] = server[r]
        BY <3>5, <2>2, <4>1 DEF RowOps
      <4>4. r = c.id => server'[r] # Null /\ server'[r].published = c.publish
        BY <3>2, <3>3, <3>4, <1>1, <3>1, PageKinds DEF Row, Listing, ListsInv
      <4> QED
        BY <1>1, <1>3, <3>1, <3>5, <3>6, <4>1, <4>2, <4>3, <4>4, ViewFacts DEF Seen
    <3> QED
      BY <3>5, <3>6
  <2>3. CASE c.op \in {"edit", "add"}
    <3>1. c.id \in Rows /\ server' = [server EXCEPT ![c.id] = Written(c)]
      BY <1>1, <2>3 DEF CallSound, RowOps, Effect
    <3>2. Goal
      BY <1>1, <1>2, <2>3, <3>1 DEF Listing, RowOps
    <3>3. ASSUME listPage # "classes", NEW r \in Old, Seen(r)'
          PROVE  Seen(r)
      <4>1. r \in Rows /\ (r # c.id => server'[r] = server[r])
        BY <2>3, <3>2 DEF Rows, RowOps
      <4>2. r = c.id => c.op = "edit" /\ server[r] # Null /\ listPage \notin {"pending", "other"}
        BY <1>1, <2>3, <3>3 DEF CallSound, Possible, MayCall, ManagerPages
      <4> QED
        BY <1>1, <1>3, <3>2, <3>3, <4>1, <4>2, ViewFacts DEF Seen
    <3> QED
      BY <3>2, <3>3
  <2>4. CASE c.op = "delete"
    <3>1. c.id \in Rows /\ server' = [server EXCEPT ![c.id] = Null]
      BY <1>1, <2>4 DEF CallSound, RowOps, Effect
    <3>2. Goal
      BY <1>1, <2>4, <3>1 DEF Listing, RowOps
    <3>3. ASSUME listPage # "classes", NEW r \in Old, Seen(r)'
          PROVE  Seen(r)
      <4>1. r \in Rows /\ (r # c.id => server'[r] = server[r]) /\ (r = c.id => server'[r] = Null)
        BY <2>4, <3>2 DEF Rows, RowOps
      <4> QED
        BY <1>1, <1>3, <3>2, <3>3, <4>1, ViewFacts DEF Seen
    <3> QED
      BY <3>2, <3>3
  <2>5. CASE c.op = "setup"
    <3>1. server' = [r \in Rows |-> IF r \in Old /\ server[r] = Null THEN Written(c) ELSE server[r]]
      BY <2>5 DEF Effect
    <3>2. Goal
      BY <1>1, <1>2, <2>5, <3>1 DEF Listing, RowOps
    <3> QED
      BY <1>1, <2>5, <3>2 DEF CallSound, MayCall
  <2>6. c.op \in {"fetch", "publish", "edit", "add", "delete", "setup", "photo"}
    BY <1>1 DEF CallSound, MayCall
  <2> QED
    BY <2>1, <2>2, <2>3, <2>4, <2>5, <2>6
<1> QED
  BY <1>4

(* A request is answered, refused or lost on its way back.                  *)
Becoming(i, new) ==
    /\ i \in Calls /\ call[i].st = "asked" /\ new \in CallType /\ call' = [call EXCEPT ![i] = new]
    /\ new.op = call[i].op /\ new.id = call[i].id /\ new.publish = call[i].publish
    /\ new.base = call[i].base /\ new.frees = call[i].frees /\ new.n = call[i].n
    /\ new.st \in {"done", "refused"}
    /\ UNCHANGED <<listPage, shownVars, clicks, loaded>>

(* A request in flight changes its state, and perhaps the API's rows with   *)
(* it.                                                                      *)
LEMMA ListsBecome ==
    ASSUME ListsInv, NEW i, NEW new, Becoming(i, new), server' \in Listing, clean' \in BOOLEAN,
           cut' \in BOOLEAN, cut => cut',
           listPage # "classes" => \A r \in Old : Seen(r)' => Seen(r),
           new.st = "done" =>
               /\ new.op \in {"publish", "edit", "add"} => new.reply[new.id] # Null
               /\ new.op = "fetch" /\ listPage # "classes" /\ ~cut' =>
                      \A r \in Old : Seen(r)' => new.reply[r] # Null
               /\ new.op = "delete" \/ (new.op = "publish" /\ listPage = "pending") =>
                      (new.id \in Old => ~Seen(new.id)')
    PROVE  /\ ListsTypeOK' /\ CallsSound' /\ FetchSound' /\ RefetchSound' /\ FlagsSound' /\ RowsSound'
           /\ Out' = Out /\ call'[i] = new /\ \A j \in Calls : j # i => call'[j] = call[j]
<1> USE DEF ListsInv, Becoming, shownVars
<1>1. /\ call' \in [Calls -> CallType] /\ call'[i] = new
      /\ \A j \in Calls : j # i => call'[j] = call[j]
      /\ Out' = Out
  <2>1. i \in Out /\ i \in Calls /\ new \in CallType /\ new.st # "idle"
        /\ call' = [call EXCEPT ![i] = new] /\ ListsTypeOK
    BY DEF Out
  <2>2. /\ call' \in [Calls -> CallType] /\ call'[i] = new
        /\ \A j \in Calls : j # i => call'[j] = call[j]
        /\ Out' = Out \cup {i}
    BY <2>1, CallChanges
  <2> QED
    BY <2>1, <2>2
<1>2. ListsTypeOK'
  BY <1>1 DEF ListsTypeOK
<1>3. i \in Out /\ Out \subseteq Calls
  BY DEF Out
<1>4. CallsSound'
  <2>1. \A j \in Out : CallSound(call[j])
    BY DEF CallsSound
  <2>2. \A j \in Out : CallSound(call[j])'
    BY <1>1, <1>3, <2>1 DEF CallSound, MayCall, RowOps, Marks
  <2> QED
    BY <1>1, <2>2 DEF CallsSound
<1>5. FetchSound' /\ RefetchSound'
  <2>1. FetchSound'
    BY <1>1, <1>3 DEF FetchSound
  <2>2. RefetchSound'
    BY <1>1, <1>3 DEF RefetchSound
  <2> QED
    BY <2>1, <2>2
<1>6. FlagsSound'
  BY <1>1, <1>3 DEF FlagsSound
<1>7. RowsSound'
  BY <1>1, <1>3 DEF RowsSound
<1> QED
  BY <1>1, <1>2, <1>4, <1>5, <1>6, <1>7

(* The API refuses.                                                         *)
LEMMA ListsRefuse ==
    ASSUME ListsInv, NEW i \in Calls, Refuse(i)
    PROVE  ListsInv'
<1> DEFINE new == [call[i] EXCEPT !.st = "refused"]
<1>1. call[i] \in CallType /\ call[i].st = "asked"
  BY DEF ListsInv, ListsTypeOK, Refuse
<1>2. /\ new \in CallType /\ new.st = "refused" /\ new.op = call[i].op /\ new.id = call[i].id
      /\ new.publish = call[i].publish /\ new.base = call[i].base /\ new.frees = call[i].frees
      /\ new.n = call[i].n
  BY <1>1 DEF CallType
<1>3. /\ call' = [call EXCEPT ![i] = new] /\ clean' = (clean /\ call[i].op # "fetch")
      /\ UNCHANGED <<listPage, server, shownVars, clicks, loaded, cut>>
  BY <1>1 DEF Refuse
<1> HIDE DEF new
<1>4. Becoming(i, new) /\ server' \in Listing /\ clean' \in BOOLEAN /\ cut' \in BOOLEAN
  BY <1>1, <1>2, <1>3 DEF Becoming, ListsInv, ListsTypeOK
<1>5. View(server)' = View(server)
  BY <1>3 DEF View
<1>6. /\ ListsTypeOK' /\ CallsSound' /\ FetchSound' /\ RefetchSound' /\ FlagsSound' /\ RowsSound'
      /\ Out' = Out /\ call'[i] = new /\ \A j \in Calls : j # i => call'[j] = call[j]
  BY <1>2, <1>3, <1>4, <1>5, ListsBecome DEF Seen
<1>7. InTune'
  <2>1. i \in Out /\ Out \subseteq Calls
    BY <1>1 DEF Out
  <2>2. SUFFICES ASSUME clean', listPage' # Null
                 PROVE  InTune'
    BY DEF InTune
  <2>3. clean /\ call[i].op # "fetch" /\ listPage # Null
    BY <1>3, <2>2
  <2>4. \A j \in Out : Alone(j)'
    BY <1>2, <1>3, <1>6, <2>1, <2>3 DEF ListsInv, InTune, Alone, Replaces
  <2>5. \A j \in Out : /\ call'[j].op = "fetch" => call'[j].st # "refused"
                       /\ call'[j].op # "fetch" /\ listPage' \in ClosurePages =>
                              call'[j].base = list'
                       /\ call'[j].st = "done" => DoneSound(call[j])'
    BY <1>2, <1>3, <1>5, <1>6, <2>1, <2>3
       DEF ListsInv, InTune, DoneSound, Written, shownVars
  <2>6. Fetching' <=> Fetching
    BY <1>2, <1>6, <2>1 DEF Fetching
  <2>7. \A r : Agrees(r)' <=> Agrees(r)
    BY <1>3, <1>5 DEF Agrees, shownVars
  <2> QED
    BY <1>1, <1>2, <1>3, <1>6, <2>1, <2>3, <2>4, <2>5, <2>6, <2>7 DEF ListsInv, InTune, shownVars
<1> QED
  BY <1>6, <1>7 DEF ListsInv

(* The API has performed it, and the page will not know.                    *)
LEMMA ListsLose ==
    ASSUME ListsInv, NEW i \in Calls, Lose(i)
    PROVE  ListsInv'
<1> DEFINE new == [call[i] EXCEPT !.st = "refused"]
<1>1. call[i] \in CallType /\ call[i].st = "asked"
  BY DEF ListsInv, ListsTypeOK, Lose
<1>2. /\ new \in CallType /\ new.st = "refused" /\ new.op = call[i].op /\ new.id = call[i].id
      /\ new.publish = call[i].publish /\ new.base = call[i].base /\ new.frees = call[i].frees
      /\ new.n = call[i].n
  BY <1>1 DEF CallType
<1>3. /\ call' = [call EXCEPT ![i] = new] /\ clean' = FALSE
      /\ UNCHANGED <<listPage, shownVars, clicks, loaded, cut>>
  BY <1>1 DEF Lose
<1> HIDE DEF new
<1>4. Becoming(i, new) /\ clean' \in BOOLEAN /\ cut' \in BOOLEAN /\ (cut => cut')
  BY <1>1, <1>2, <1>3 DEF Becoming, ListsInv, ListsTypeOK
<1>5. server' \in Listing /\ (listPage # "classes" => \A r \in Old : Seen(r)' => Seen(r))
  BY <1>1, <1>3, EffectFacts DEF Lose
<1>6. ListsTypeOK' /\ CallsSound' /\ FetchSound' /\ RefetchSound' /\ FlagsSound' /\ RowsSound'
  BY <1>2, <1>4, <1>5, ListsBecome
<1> QED
  BY <1>3, <1>6 DEF ListsInv, InTune

(* A profile whose pending comments are refused has the public ones.        *)
LEMMA ListsFallBack ==
    ASSUME ListsInv, NEW i \in Calls, FallBack(i)
    PROVE  ListsInv'
<1> DEFINE reply == [r \in Rows |-> IF server[r] = Null \/ ~server[r].published THEN Null
                                    ELSE server[r]]
<1>1. /\ call[i] \in CallType /\ call[i].st = "asked" /\ call[i].op = "fetch"
      /\ call' = [call EXCEPT ![i].st = "done", ![i].reply = reply]
      /\ clean' = FALSE /\ cut' = TRUE
      /\ UNCHANGED <<listPage, server, shownVars, clicks, loaded>>
  BY DEF ListsInv, ListsTypeOK, FallBack
<1>2. reply \in Listing
  BY DEF ListsInv, ListsTypeOK, Listing
<1> HIDE DEF reply
<1>3. PICK new : new = [call[i] EXCEPT !.st = "done", !.reply = reply]
  OBVIOUS
<1>4. /\ new \in CallType /\ new.st = "done" /\ new.op = "fetch" /\ new.id = call[i].id
      /\ new.publish = call[i].publish /\ new.base = call[i].base /\ new.frees = call[i].frees
      /\ new.n = call[i].n
  BY <1>1, <1>2, <1>3 DEF CallType
<1>5. call' = [call EXCEPT ![i] = new]
  BY <1>1, <1>3 DEF ListsInv, ListsTypeOK
<1>6. Becoming(i, new) /\ server' \in Listing
  BY <1>1, <1>4, <1>5 DEF Becoming, ListsInv, ListsTypeOK
<1>7. View(server)' = View(server)
  BY <1>1 DEF View
<1>8. ListsTypeOK' /\ CallsSound' /\ FetchSound' /\ RefetchSound' /\ FlagsSound' /\ RowsSound'
  BY <1>1, <1>4, <1>6, <1>7, ListsBecome DEF Seen
<1> QED
  BY <1>1, <1>8 DEF ListsInv, InTune

(* Before it is performed, what a request is about is shown as it is.       *)
LEMMA ShownAsItIs ==
    ASSUME ListsInv, clean, NEW i \in Out, call[i].st = "asked", call[i].op \in RowOps,
           listPage # "other"
    PROVE  list[call[i].id] = View(server)[call[i].id]
<1> DEFINE r == call[i].id
<1>1. listPage # Null /\ r \in Rows /\ Alone(i)
  BY DEF ListsInv, CallsSound, CallSound, InTune
<1>2. ~Fetching
  BY <1>1 DEF Fetching, Alone, Replaces, RowOps
<1>3. \/ list[r] = View(server)[r]
      \/ \E j \in Out : call[j].st = "done"
                        /\ (call[j].op = "setup" \/ (call[j].op \in RowOps /\ call[j].id = r))
  BY <1>1, <1>2 DEF ListsInv, InTune, Agrees
<1> QED
  BY <1>1, <1>3 DEF Alone, Replaces

(* The API performs a request, and its answer is on its way.                *)
LEMMA ListsPerform ==
    ASSUME ListsInv, NEW i \in Calls, Perform(i)
    PROVE  ListsInv'
<1> DEFINE c == call[i]
           reply == Reply(c, server')
<1>1. /\ c \in CallType /\ c.st = "asked" /\ Possible(c) /\ server' = Effect(c)
      /\ i \in Out /\ Out \subseteq Calls /\ CallSound(c) /\ listPage # Null
  BY DEF ListsInv, ListsTypeOK, Perform, Out, CallsSound
<1>2. /\ call' = [call EXCEPT ![i].st = "done", ![i].reply = reply]
      /\ UNCHANGED <<listPage, shownVars, clicks, loaded, clean, cut>>
  BY DEF Perform
<1>3. /\ server' \in Listing
      /\ c.op \in FetchOps => server' = server
      /\ c.op \in RowOps => /\ c.id \in Rows
                            /\ \A r \in Rows : r # c.id => server'[r] = server[r]
      /\ c.op \in {"edit", "add"} => server'[c.id] = Written(c)
      /\ c.op = "delete" => server'[c.id] = Null
      /\ c.op = "publish" => /\ server[c.id] # Null
                             /\ server'[c.id] = [server[c.id] EXCEPT !.published = c.publish]
      /\ listPage # "classes" => \A r \in Old : Seen(r)' => Seen(r)
  BY <1>1, <1>2, EffectFacts
<1>4. /\ View(server)' = View(server') /\ View(server') \in Listing
      /\ \A r \in Rows : server'[r] = Null => View(server')[r] = Null
      /\ \A r : Seen(r)' <=> View(server')[r] # Null
  <2>1. View(server)' = View(server')
    BY <1>2 DEF View
  <2> QED
    BY <1>3, <2>1, ViewFacts DEF Seen
<1>5. /\ reply \in Listing
      /\ c.op \in {"fetch", "setup"} => reply = View(server')
      /\ c.op \in RowOps => reply[c.id] = server'[c.id]
  BY <1>1, <1>3, <1>4 DEF Reply, Listing, RowOps
<1> HIDE DEF reply
<1>14. PICK new : new = [c EXCEPT !.st = "done", !.reply = reply]
  OBVIOUS
<1>6. /\ new \in CallType /\ new.st = "done" /\ new.op = c.op /\ new.id = c.id
      /\ new.publish = c.publish /\ new.base = c.base /\ new.frees = c.frees /\ new.n = c.n
      /\ new.reply = reply
  BY <1>1, <1>5, <1>14 DEF CallType
<1>7. call' = [call EXCEPT ![i] = new]
  BY <1>2, <1>14 DEF ListsInv, ListsTypeOK
<1>8. Becoming(i, new) /\ clean' \in BOOLEAN /\ cut' \in BOOLEAN /\ (cut => cut')
  BY <1>1, <1>2, <1>6, <1>7 DEF Becoming, ListsInv, ListsTypeOK
<1>9. c.op = "publish" => /\ server'[c.id] \in Row /\ server'[c.id] # Null
                          /\ server'[c.id].published = c.publish
  <2>1. SUFFICES ASSUME c.op = "publish"
                 PROVE  /\ server'[c.id] \in Row /\ server'[c.id] # Null
                        /\ server'[c.id].published = c.publish
    OBVIOUS
  <2>2. server[c.id] \in Row /\ c.publish \in BOOLEAN
    BY <1>1, <1>3, <2>1 DEF ListsInv, ListsTypeOK, Listing, CallType, RowOps
  <2> QED
    BY <1>3, <2>1, <2>2, PageKinds DEF ListsInv, Row
<1>10. /\ c.op \in {"publish", "edit", "add"} => reply[c.id] # Null
       /\ c.op = "fetch" /\ listPage # "classes" => \A r \in Old : Seen(r)' => reply[r] # Null
       /\ c.op = "delete" \/ (c.op = "publish" /\ listPage = "pending") =>
              View(server')[c.id] = Null
  <2>1. c.op \in {"publish", "edit", "add"} => reply[c.id] # Null
    BY <1>1, <1>3, <1>5, <1>9, WrittenFacts DEF RowOps, ListsInv
  <2>2. c.op = "fetch" /\ listPage # "classes" => \A r \in Old : Seen(r)' => reply[r] # Null
    BY <1>4, <1>5
  <2>3. c.op = "delete" => View(server')[c.id] = Null
    BY <1>3, <1>4 DEF RowOps
  <2>4. c.op = "publish" /\ listPage = "pending" => View(server')[c.id] = Null
    BY <1>1, <1>2, <1>3, <1>4, <1>9, ViewFacts DEF RowOps, CallSound
  <2> QED
    BY <2>1, <2>2, <2>3, <2>4
<1>11. /\ ListsTypeOK' /\ CallsSound' /\ FetchSound' /\ RefetchSound' /\ FlagsSound' /\ RowsSound'
       /\ Out' = Out /\ call'[i] = new /\ \A j \in Calls : j # i => call'[j] = call[j]
  <2>1. new.st = "done" =>
               /\ new.op \in {"publish", "edit", "add"} => new.reply[new.id] # Null
               /\ new.op = "fetch" /\ listPage # "classes" =>
                      \A r \in Old : Seen(r)' => new.reply[r] # Null
               /\ new.op = "delete" \/ (new.op = "publish" /\ listPage = "pending") =>
                      (new.id \in Old => ~Seen(new.id)')
    BY <1>4, <1>6, <1>10
  <2> HIDE DEF c, reply
  <2> QED
    BY <1>3, <1>8, <2>1, ListsBecome
<1>13. i \in Out /\ Out \subseteq Calls /\ listPage # Null
  BY <1>1
<1>12. InTune'
  <2>1. SUFFICES ASSUME clean
                 PROVE  InTune'
    BY <1>2 DEF InTune
  <2>2. \A j \in Out : Alone(j) /\ Alone(j)'
    <3>1. \A j \in Out : Alone(j)
      BY <1>13, <2>1 DEF ListsInv, InTune
    <3>2. \A j \in Out : call'[j].op = call[j].op /\ call'[j].id = call[j].id
      BY <1>6, <1>11, <1>13
    <3>3. listPage' = listPage /\ Out' = Out
      BY <1>2, <1>11
    <3>4. ASSUME NEW j \in Out
          PROVE  Alone(j)'
      BY <3>1, <3>2, <3>3 DEF Alone, Replaces
    <3> QED
      BY <3>1, <3>4
  <2>3. c.op \in RowOps /\ listPage # "other" => list[c.id] = View(server)[c.id]
    BY <1>1, <2>1, ShownAsItIs
  <2>4. DoneSound(new)'
    <3>1. c.op \in {"fetch", "setup"} => new.reply = View(server)'
      BY <1>4, <1>5, <1>6
    <3>2. c.op \in {"edit", "add"} => server'[c.id] = Written(new)' /\ reply[c.id] = server'[c.id]
      BY <1>2, <1>3, <1>5, <1>6 DEF Written, RowOps
    <3>3. c.op = "edit" => list[c.id] # Null
      BY <1>1, <1>3, <2>3, ViewFacts
         DEF ListsInv, ListsTypeOK, RowOps, Possible, CallSound, MayCall, ManagerPages
    <3>4. c.op = "add" /\ listPage \in {"classes", "gallery"} => list[c.id] = Null
      BY <1>1, <1>3, <2>3, ViewFacts DEF ListsInv, ListsTypeOK, RowOps, Possible
    <3>5. c.op = "publish" => list[c.id] = server[c.id]
      <4>1. SUFFICES ASSUME c.op = "publish"
                     PROVE  list[c.id] = server[c.id]
        OBVIOUS
      <4>2. list[c.id] # Null
        BY <1>1, <2>1, <4>1 DEF ListsInv, InTune, CallSound, MayCall, ClosurePages
      <4> QED
        BY <1>1, <1>3, <2>3, <4>1, <4>2, ViewFacts
           DEF ListsInv, ListsTypeOK, RowOps, CallSound, MayCall
    <3> QED
      BY <1>2, <1>3, <1>5, <1>6, <3>1, <3>2, <3>3, <3>4, <3>5 DEF DoneSound, RowOps, shownVars
  <2>5. \A j \in Out \ {i} : call[j].st = "done" => DoneSound(call[j])'
    <3>1. SUFFICES ASSUME NEW j \in Out \ {i}, call[j].st = "done"
                   PROVE  DoneSound(call[j])'
      OBVIOUS
    <3>2. ~Replaces(call[j].op) /\ ~Replaces(c.op) /\ call[j].id # c.id
      BY <1>1, <2>2, <3>1 DEF Alone
    <3>3. DoneSound(call[j]) /\ CallSound(call[j])
      BY <1>1, <2>1, <3>1 DEF ListsInv, InTune, CallsSound
    <3>4. c.op \in RowOps /\ call[j].op \in RowOps /\ call[j].id \in Rows
      BY <1>1, <3>2, <3>3 DEF Replaces, CallSound, MayCall, RowOps
    <3>5. server'[call[j].id] = server[call[j].id] /\ call'[j] = call[j]
      BY <1>1, <1>3, <1>11, <3>1, <3>2, <3>4
    <3> QED
      BY <1>2, <3>2, <3>3, <3>5 DEF DoneSound, Replaces, Written, shownVars
  <2>6. Fetching' <=> Fetching
    BY <1>6, <1>11, <1>13 DEF Fetching
  <2>7. ASSUME NEW r \in Rows, ~Fetching,
               Agrees(r),
               ~(c.op = "setup" \/ (c.op \in RowOps /\ c.id = r))
        PROVE  Agrees(r)'
    <3>1. server'[r] = server[r]
      BY <1>1, <1>3, <2>7 DEF CallSound, MayCall, RowOps, FetchOps
    <3>2. View(server')[r] = View(server)[r]
      BY <3>1 DEF View
    <3> QED
      BY <1>2, <1>4, <2>7, <3>1, <3>2 DEF shownVars, Agrees
  <2>8. Fetching' \/ \A r \in Rows :
              \/ Agrees(r)'
              \/ \E j \in Out' : call'[j].st = "done"
                                 /\ (call'[j].op = "setup" \/ (call'[j].op \in RowOps /\ call'[j].id = r))
    BY <1>6, <1>11, <1>13, <2>1, <2>6, <2>7 DEF ListsInv, InTune
  <2>9. \A j \in Out' : /\ Alone(j)'
                        /\ call'[j].op = "fetch" => call'[j].st # "refused"
                        /\ call'[j].op # "fetch" /\ listPage' \in ClosurePages => call'[j].base = list'
                        /\ call'[j].st = "done" => DoneSound(call[j])'
    <3>1. \A j \in Out : call'[j].st = "done" => DoneSound(call[j])'
      BY <1>11, <1>13, <2>4, <2>5 DEF DoneSound, Written
    <3>2. \A j \in Out : call'[j].op = "fetch" => call'[j].st # "refused"
      BY <1>6, <1>11, <1>13, <2>1 DEF ListsInv, InTune
    <3>3. \A j \in Out : call'[j].op # "fetch" /\ listPage' \in ClosurePages => call'[j].base = list'
      <4>1. \A j \in Out : call[j].op # "fetch" /\ listPage \in ClosurePages => call[j].base = list
        BY <1>13, <2>1 DEF ListsInv, InTune
      <4> QED
        BY <1>2, <1>6, <1>11, <1>13, <4>1 DEF shownVars
    <3> QED
      BY <1>11, <2>2, <3>1, <3>2, <3>3
  <2>10. twice' = {}
    BY <1>1, <1>2, <2>1 DEF ListsInv, InTune, shownVars
  <2> QED
    BY <2>8, <2>9, <2>10 DEF InTune
<1> QED
  BY <1>11, <1>12 DEF ListsInv

(* The rows a page shows after an answer: what it kept, and in the place of *)
(* one row what was answered or written.                                    *)
PatchOf(c) ==
    CASE c.op = "publish" -> IF listPage = "profile"
                             THEN [c.base[c.id] EXCEPT !.published = c.reply[c.id].published]
                             ELSE Null
      [] c.op = "edit"    -> IF listPage \in ClosurePages
                             THEN IF c.base[c.id] = Null THEN Null ELSE c.reply[c.id]
                             ELSE IF list[c.id] = Null \/ listPage \in ManagerPages
                             THEN list[c.id] ELSE Written(c)
      [] c.op = "add"     -> CASE listPage = "other" -> c.reply[c.id]
                               [] listPage \in ManagerPages -> list[c.id]
                               [] OTHER -> Written(c)
      [] OTHER            -> Null

(* What an answer does to the rows: one of them, or all.                    *)
LEMMA PatchedFacts ==
    ASSUME ListsInv, NEW i \in Out, call[i].st = "done"
    PROVE  /\ Patched(call[i]) \in Listing
           /\ call[i].op \in {"fetch", "setup"} => Patched(call[i]) = call[i].reply
           /\ call[i].op = "photo" => Patched(call[i]) = list
           /\ call[i].op \in RowOps =>
                 /\ call[i].id \in Rows
                 /\ Patched(call[i])[call[i].id] = PatchOf(call[i])
                 /\ \A r \in Rows : r # call[i].id =>
                       Patched(call[i])[r] = IF listPage \in ClosurePages THEN call[i].base[r]
                                             ELSE list[r]
<1> DEFINE c == call[i]
           rows == IF listPage \in ClosurePages THEN c.base ELSE list
<1>1. /\ CallSound(c) /\ c \in CallType /\ list \in Listing /\ listPage # Null
      /\ listPage \in ListPages
  BY PageKinds DEF Out, ListsInv, CallsSound, ListsTypeOK
<1>2. /\ rows \in Listing /\ c.base \in Listing /\ c.reply \in Listing
      /\ c.op \in {"fetch", "publish", "edit", "delete", "add", "setup", "photo"}
      /\ Written(c) \in Row
  BY <1>1, WrittenFacts DEF CallType, Out, CallSound, MayCall, ListsInv
<1>3. CASE c.op \in {"fetch", "setup"}
  <2>1. c.op = "setup" => listPage = "classes"
    BY <1>1 DEF CallSound, MayCall
  <2>2. Patched(c) = c.reply
    BY <1>3, <2>1 DEF Patched, OnClasses, ManagerPages
  <2> QED
    BY <1>2, <1>3, <2>2 DEF RowOps
<1>4. CASE c.op \in RowOps
  <2> DEFINE row == PatchOf(c)
  <2>1. c.id \in Rows /\ c.base[c.id] \in Row \cup {Null} /\ c.reply[c.id] \in Row \cup {Null}
        /\ list[c.id] \in Row \cup {Null} /\ rows[c.id] \in Row \cup {Null}
    BY <1>1, <1>2, <1>4 DEF CallSound, Listing
  <2>2. c.op = "publish" => /\ listPage \in {"profile", "pending"}
                            /\ [c.base[c.id] EXCEPT !.published = c.reply[c.id].published] \in Row
    <3>1. c.op = "publish" => c.base[c.id] \in Row /\ c.reply[c.id] \in Row
                              /\ listPage \in {"profile", "pending"}
      BY <1>1, <2>1 DEF CallSound, MayCall
    <3> QED
      BY <3>1 DEF Row
  <2>3. row \in Row \cup {Null}
    <3>1. CASE c.op = "publish"
      BY <2>2, <3>1 DEF PatchOf
    <3>2. CASE c.op = "edit"
      BY <1>2, <2>1, <3>2 DEF PatchOf
    <3>3. CASE c.op = "add"
      <4>1. CASE listPage = "other"
        BY <2>1, <3>3, <4>1 DEF PatchOf
      <4>2. CASE listPage \in ManagerPages
        BY <2>1, <3>3, <4>2 DEF PatchOf, ManagerPages
      <4>3. CASE listPage \notin ManagerPages \cup {"other"}
        BY <1>2, <3>3, <4>3 DEF PatchOf
      <4> QED
        BY <4>1, <4>2, <4>3
    <3>4. CASE c.op = "delete"
      BY <3>4 DEF PatchOf
    <3> QED
      BY <1>4, <3>1, <3>2, <3>3, <3>4 DEF RowOps
  <2> HIDE DEF row, rows, c
  <2>4. /\ With(rows, c.id, row) \in Listing /\ With(rows, c.id, row)[c.id] = row
        /\ \A r \in Rows : r # c.id => With(rows, c.id, row)[r] = rows[r]
    <3>1. rows \in Listing /\ c.id \in Rows /\ row \in Row \cup {Null}
      BY <1>2, <2>1, <2>3
    <3> HIDE DEF With
    <3> QED
      BY <3>1, ListingFacts
  <2> USE DEF row, rows, c
  <2>5. rows[c.id] = row => rows = With(rows, c.id, row)
    BY <1>2, <2>1 DEF With, Listing
  <2>6. Patched(c) = With(rows, c.id, row)
    <3> USE DEF RowOps
    <3>1. CASE listPage = "profile"
      <4>1. Patched(c) = OnProfile(c) /\ rows = c.base
        BY <1>4, <3>1 DEF Patched, ClosurePages, ManagerPages
      <4>2. CASE c.op = "publish"
        BY <3>1, <4>1, <4>2 DEF OnProfile, With, PatchOf
      <4>3. CASE c.op = "edit"
        BY <2>5, <3>1, <4>1, <4>3 DEF OnProfile, Mapped, PatchOf, ClosurePages
      <4>4. CASE c.op = "delete"
        BY <3>1, <4>1, <4>4 DEF OnProfile, PatchOf
      <4> QED
        BY <1>1, <1>4, <3>1, <4>2, <4>3, <4>4 DEF CallSound, MayCall, ManagerPages
    <3>2. CASE listPage = "authored"
      <4>1. Patched(c) = OnAuthored(c) /\ rows = c.base
        BY <1>4, <3>2 DEF Patched, ClosurePages, ManagerPages
      <4>2. CASE c.op = "edit"
        BY <2>5, <3>2, <4>1, <4>2 DEF OnAuthored, Mapped, PatchOf, ClosurePages
      <4>3. CASE c.op = "delete"
        BY <3>2, <4>1, <4>3 DEF OnAuthored, PatchOf
      <4> QED
        BY <1>1, <1>4, <3>2, <4>2, <4>3 DEF CallSound, MayCall, ManagerPages
    <3>3. CASE listPage = "pending"
      <4>1. Patched(c) = OnPending(c) /\ rows = c.base
        BY <1>4, <3>3 DEF Patched, ClosurePages, ManagerPages
      <4>2. c.op \in {"publish", "delete"}
        BY <1>1, <1>4, <3>3 DEF CallSound, MayCall, ManagerPages
      <4>3. row = Null
        BY <3>3, <4>2 DEF PatchOf
      <4> QED
        BY <4>1, <4>3 DEF OnPending
    <3>4. CASE listPage = "other"
      <4>1. Patched(c) = OnOther(c) /\ rows = c.base
        BY <1>4, <3>4 DEF Patched, ClosurePages, ManagerPages
      <4>2. c.op = "add"
        BY <1>1, <1>4, <3>4 DEF CallSound, MayCall, ManagerPages
      <4>3. row = c.reply[c.id]
        BY <3>4, <4>2 DEF PatchOf, ManagerPages
      <4> QED
        BY <4>1, <4>3 DEF OnOther
    <3>5. CASE listPage = "gallery"
      <4>1. Patched(c) = OnGallery(c) /\ rows = list
        BY <1>4, <3>5 DEF Patched, ClosurePages, ManagerPages
      <4>2. CASE c.op = "edit"
        BY <2>5, <3>5, <4>1, <4>2 DEF OnGallery, Mapped, PatchOf, ClosurePages, ManagerPages
      <4>3. CASE c.op = "add"
        BY <3>5, <4>1, <4>3 DEF OnGallery, PatchOf, ManagerPages
      <4>4. CASE c.op = "delete"
        BY <3>5, <4>1, <4>4 DEF OnGallery, PatchOf
      <4> QED
        BY <1>1, <1>4, <3>5, <4>2, <4>3, <4>4 DEF CallSound, MayCall
    <3>6. CASE listPage = "directory"
      <4>1. Patched(c) = OnDirectory(c) /\ rows = list
        BY <1>4, <3>6 DEF Patched, ClosurePages, ManagerPages
      <4>2. CASE c.op = "edit"
        BY <2>5, <3>6, <4>1, <4>2 DEF OnDirectory, Mapped, PatchOf, ClosurePages, ManagerPages
      <4>3. CASE c.op = "delete"
        BY <3>6, <4>1, <4>3 DEF OnDirectory, PatchOf
      <4> QED
        BY <1>1, <1>4, <3>6, <4>2, <4>3 DEF CallSound, MayCall, ManagerPages
    <3>7. CASE listPage = "classes"
      <4>1. Patched(c) = OnClasses(c) /\ rows = list
        BY <1>4, <3>7 DEF Patched, ClosurePages, ManagerPages
      <4>2. CASE c.op = "add"
        BY <3>7, <4>1, <4>2 DEF OnClasses, PatchOf, ManagerPages
      <4>3. CASE c.op = "delete"
        BY <3>7, <4>1, <4>3 DEF OnClasses, PatchOf
      <4> QED
        BY <1>1, <1>4, <3>7, <4>2, <4>3 DEF CallSound, MayCall, ManagerPages
    <3>8. CASE listPage \in ManagerPages
      <4>1. Patched(c) = OnManaged(c) /\ rows = list
        BY <1>4, <3>8 DEF Patched, ClosurePages, ManagerPages
      <4>2. CASE c.op = "edit"
        BY <2>5, <3>8, <4>1, <4>2 DEF OnManaged, PatchOf, ClosurePages, ManagerPages
      <4>3. CASE c.op = "add"
        BY <2>5, <3>8, <4>1, <4>3 DEF OnManaged, PatchOf, ManagerPages
      <4>4. CASE c.op = "delete"
        BY <3>8, <4>1, <4>4 DEF OnManaged, PatchOf
      <4> QED
        BY <1>1, <1>4, <3>8, <4>2, <4>3, <4>4 DEF CallSound, MayCall, ManagerPages
    <3> QED
      BY <1>1, <3>1, <3>2, <3>3, <3>4, <3>5, <3>6, <3>7, <3>8 DEF ListPages, ClosurePages
  <2> QED
    BY <1>2, <1>4, <2>1, <2>4, <2>6 DEF RowOps
<1>5. CASE c.op = "photo"
  <2>1. Patched(c) = list
    BY <1>5 DEF Patched
  <2> QED
    BY <1>1, <1>5, <2>1 DEF RowOps
<1> QED
  BY <1>2, <1>3, <1>4, <1>5 DEF RowOps

(* A request is over, or the list is fetched again in its place.            *)
EndsOrFetches(i, new, again) ==
    /\ i \in Out /\ call' = [call EXCEPT ![i] = new]
    /\ again => /\ new \in CallType /\ new.st = "asked" /\ new.op = "fetch"
                /\ new.frees = call[i].frees /\ listPage \in PhotoPages \cup ManagerPages
    /\ ~again => new = Idle
    /\ busy' = IF again THEN busy ELSE busy \ call[i].frees
    /\ acting' = IF "row" \in call[i].frees THEN Null ELSE acting
    /\ dialog' \in {dialog, Null}
    /\ loading' \in BOOLEAN
    /\ (listPage \in {"authored", "pending", "directory"} /\ call[i].op # "fetch" =>
            loading' = loading /\ loaded' = loaded)
    /\ UNCHANGED <<listPage, server, clicks>>

(* What a handler does at the end keeps the flags.                          *)
LEMMA ListsOver ==
    ASSUME ListsInv, NEW i, NEW new, NEW again \in BOOLEAN, EndsOrFetches(i, new, again),
           list' \in Listing, twice' \subseteq Rows, editing' \in {editing, Null},
           loaded' \in BOOLEAN, cut' \in BOOLEAN, clean' = clean
    PROVE  /\ ListsTypeOK' /\ CallsSound' /\ FetchSound' /\ FlagsSound'
           /\ Out' = IF again THEN Out ELSE Out \ {i}
           /\ i \in Calls /\ Out \subseteq Calls /\ call'[i] = new
           /\ \A j \in Calls : j # i => call'[j] = call[j]
           /\ View(server)' = View(server)
<1> USE DEF EndsOrFetches
<1>1. /\ i \in Calls /\ Out \subseteq Calls /\ new \in CallType
      /\ call[i] \in CallType
      /\ CallSound(call[i])
  BY IdleFacts DEF Out, ListsInv, ListsTypeOK, CallsSound
<1>2. /\ call' \in [Calls -> CallType] /\ call'[i] = new
      /\ \A j \in Calls : j # i => call'[j] = call[j]
      /\ Out' = IF again THEN Out ELSE Out \ {i}
  <2>1. /\ call' \in [Calls -> CallType] /\ call'[i] = new
        /\ \A j \in Calls : j # i => call'[j] = call[j]
        /\ Out' = IF new.st = "idle" THEN Out \ {i} ELSE Out \cup {i}
    BY <1>1, CallChanges DEF ListsInv
  <2> QED
    BY <2>1, IdleFacts
<1>3. ListsTypeOK'
  BY <1>1, <1>2 DEF ListsInv, ListsTypeOK
<1>4. CallsSound'
  <2>1. \A j \in Out' : CallSound(call[j])'
    <3>1. SUFFICES ASSUME NEW j \in Out'
                   PROVE  CallSound(call[j])'
      OBVIOUS
    <3>2. CASE j = i
      BY <1>2, <3>1, <3>2 DEF CallSound, MayCall, RowOps
    <3>3. CASE j # i
      <4>1. CallSound(call[j]) /\ call'[j] = call[j]
        BY <1>1, <1>2, <3>1, <3>3 DEF ListsInv, CallsSound
      <4> QED
        BY <4>1 DEF CallSound, MayCall, RowOps, Marks
    <3> QED
      BY <3>2, <3>3
  <2> QED
    BY <1>2, <2>1, PageKinds DEF ListsInv, CallsSound
<1>5. FetchSound'
  BY <1>1, <1>2 DEF ListsInv, FetchSound, ClosurePages, PhotoPages, ManagerPages
<1>6. FlagsSound'
  <2>1. \A f \in busy' : \E j \in Out' : f \in call'[j].frees
    BY <1>1, <1>2 DEF ListsInv, FlagsSound
  <2>2. acting' # Null => \E j \in Out' : "row" \in call'[j].frees
    BY <1>1, <1>2 DEF ListsInv, FlagsSound
  <2>3. \A j \in Out' : call'[j].frees = call[j].frees /\ j \in Out
    BY <1>1, <1>2
  <2>4. ASSUME NEW j \in Out', NEW f \in call'[j].frees \cap Flags,
               listPage # "gallery" \/ f # "edit"
        PROVE  f \in busy' /\ \A k \in Out' : f \in call'[k].frees => j = k
    <3>1. j \in Out /\ f \in call[j].frees \cap Flags
      BY <2>3, <2>4
    <3>2. f \in busy /\ \A k \in Out : f \in call[k].frees => j = k
      BY <2>4, <3>1 DEF ListsInv, FlagsSound
    <3>3. f \in busy'
      BY <1>2, <2>4, <3>2
    <3> QED
      BY <2>3, <3>2, <3>3
  <2> QED
    BY <2>1, <2>2, <2>4 DEF FlagsSound
<1>7. View(server)' = View(server)
  BY DEF View
<1> QED
  BY <1>1, <1>2, <1>3, <1>4, <1>5, <1>6, <1>7

(* The page sees a request fail.                                            *)
LEMMA ListsFail ==
    ASSUME ListsInv, NEW i \in Calls, Fail(i)
    PROVE  ListsInv'
<1> DEFINE c == call[i]
<1>1. /\ i \in Out /\ c.st = "refused" /\ c \in CallType /\ list' \in Kept(c)
      /\ cut' = (cut \/ list' # list)
      /\ loaded' = (loaded /\ ~(c.op = "fetch" /\ listPage = "other"))
      /\ loading' = (loading /\ (c.op = "fetch" => GalleryOnly(c)))
  BY DEF Fail, Out, ListsInv, ListsTypeOK
<1>2. EndsOrFetches(i, Idle, FALSE)
  <2>1. loading' \in BOOLEAN
    BY <1>1 DEF GalleryOnly, ListsInv, ListsTypeOK
  <2>2. listPage \in {"authored", "pending", "directory"} /\ call[i].op # "fetch" =>
            loading' = loading /\ loaded' = loaded
    BY <1>1 DEF ListsInv, ListsTypeOK
  <2> QED
    BY <1>1, <2>1, <2>2 DEF Fail, EndsOrFetches
<1>3. /\ list' \in Listing /\ UNCHANGED <<twice, editing, clean>> /\ listPage' = listPage
      /\ cut' \in BOOLEAN /\ loaded' \in BOOLEAN
      /\ c.op # "fetch" \/ listPage = "profile" => list' = list
  <2>1. Kept(c) \subseteq {list, NoRows}
    BY DEF Kept
  <2>2. c.op # "fetch" \/ listPage = "profile" => Kept(c) = {list}
    BY DEF Kept
  <2> QED
    BY <1>1, <2>1, <2>2, NoRowsFacts DEF Fail, ListsInv, ListsTypeOK
<1>4. /\ ListsTypeOK' /\ CallsSound' /\ FetchSound' /\ FlagsSound'
      /\ Out' = Out \ {i} /\ Out \subseteq Calls
      /\ \A j \in Calls : j # i => call'[j] = call[j]
      /\ View(server)' = View(server)
  BY <1>2, <1>3, ListsOver DEF ListsInv, ListsTypeOK
<1>5. RowsSound' /\ RefetchSound'
  <2>1. ~cut' => ~cut /\ list' = list
    BY <1>1
  <2>2. RowsSound'
    BY <1>1, <1>3, <1>4, <2>1 DEF ListsInv, RowsSound, Seen
  <2>3. SUFFICES ASSUME listPage \in {"profile", "other"}
                 PROVE  RefetchSound'
    BY <1>3, <2>2 DEF RefetchSound
  <2>4. \A j \in Out' : j \in Out /\ j # i /\ call'[j] = call[j]
    BY <1>4
  <2>5. \A j \in Out' : call'[j].op = "fetch" => loading'
    BY <1>1, <2>3, <2>4 DEF ListsInv, RefetchSound, FetchOps
  <2>6. ~loaded' => c.op = "fetch" \/ ~loaded
    BY <1>1 DEF ListsInv, ListsTypeOK
  <2>7. ~loaded' => \A j \in Out' : call'[j].op \in FetchOps => Out' = {j}
    BY <1>1, <2>3, <2>4, <2>6 DEF ListsInv, RefetchSound, FetchOps
  <2>8. listPage = "profile" => loaded' = loaded /\ list' = list
    BY <1>1, <1>3 DEF ListsInv, ListsTypeOK
  <2> QED
    BY <1>3, <2>3, <2>4, <2>5, <2>7, <2>8 DEF ListsInv, RefetchSound
<1>6. InTune'
  <2>1. SUFFICES ASSUME clean, listPage # Null
                 PROVE  InTune'
    BY <1>3 DEF InTune
  <2>2. c.op # "fetch" /\ list' = list
    BY <1>1, <1>3, <2>1 DEF ListsInv, InTune
  <2>3. \A j \in Out' : j \in Out /\ j # i /\ call'[j] = call[j] /\ Alone(j)
    BY <1>4, <2>1 DEF ListsInv, InTune
  <2>4. \A j \in Out' : /\ Alone(j)'
                        /\ call'[j].op = "fetch" => call'[j].st # "refused"
                        /\ call'[j].op # "fetch" /\ listPage' \in ClosurePages => call'[j].base = list'
    BY <1>3, <2>1, <2>2, <2>3 DEF ListsInv, InTune, Alone, Replaces
  <2>5. \A j \in Out' : call'[j].st = "done" => DoneSound(call[j])'
    <3>1. SUFFICES ASSUME NEW j \in Out', call'[j].st = "done"
                   PROVE  DoneSound(call[j])'
      OBVIOUS
    <3>2. DoneSound(call[j]) /\ call'[j] = call[j]
      BY <2>1, <2>3, <3>1 DEF ListsInv, InTune
    <3> QED
      BY <1>2, <1>3, <1>4, <2>2, <3>2 DEF DoneSound, Written, EndsOrFetches
  <2>6. Fetching' <=> Fetching
    BY <1>1, <1>4, <2>2 DEF Fetching
  <2>8. \A r : Agrees(r)' <=> Agrees(r)
    BY <1>2, <1>3, <1>4, <2>2 DEF Agrees, EndsOrFetches
  <2>7. Fetching' \/ \A r \in Rows :
              \/ Agrees(r)'
              \/ \E j \in Out' : call'[j].st = "done"
                                 /\ (call'[j].op = "setup" \/ (call'[j].op \in RowOps /\ call'[j].id = r))
    BY <1>1, <1>4, <2>1, <2>6, <2>8 DEF ListsInv, InTune
  <2> QED
    BY <1>3, <2>1, <2>4, <2>5, <2>7 DEF ListsInv, InTune
<1> QED
  BY <1>4, <1>5, <1>6 DEF ListsInv

(* While it lasts, what a request that is done has written is shown, once    *)
(* it is answered, as the API keeps it.                                     *)
LEMMA PatchAgrees ==
    ASSUME ListsInv, clean, NEW i \in Out, call[i].st = "done", call[i].op \in RowOps,
           ~Refetches(call[i])
    PROVE  \/ Patched(call[i])[call[i].id] = View(server)[call[i].id]
           \/ /\ listPage = "other" /\ call[i].id \notin Old
              /\ Patched(call[i])[call[i].id] = server[call[i].id]
<1> DEFINE c == call[i]
<1>1. /\ CallSound(c) /\ listPage \in ListPages /\ DoneSound(c) /\ server \in Listing
      /\ i \in Calls /\ c.id \in Rows
      /\ listPage \in ClosurePages => c.base = list
  BY PageKinds DEF Out, ListsInv, CallsSound, ListsTypeOK, InTune, CallSound, RowOps
<1>2. Patched(c)[c.id] = PatchOf(c)
  BY PatchedFacts
<1>3. /\ View(server)[c.id] \in {server[c.id], Null}
      /\ listPage = "pending" /\ server[c.id] # Null =>
            (View(server)[c.id] # Null <=> ~server[c.id].published)
      /\ listPage \notin {"pending", "other"} => View(server)[c.id] = server[c.id]
  BY <1>1, ViewFacts
<1>4. CASE c.op = "publish"
  <2>1. /\ list[c.id] \in Row /\ c.publish \in BOOLEAN
        /\ server[c.id] = [list[c.id] EXCEPT !.published = c.publish]
        /\ c.reply[c.id] = server[c.id] /\ listPage \in {"profile", "pending"} /\ c.base = list
    BY <1>1, <1>4 DEF DoneSound, CallSound, MayCall, ListsInv, ListsTypeOK, Listing, CallType,
                      ClosurePages
  <2>2. server[c.id] \in Row /\ server[c.id] # Null /\ server[c.id].published = c.publish
    BY <2>1, PageKinds DEF ListsInv, Row
  <2>3. CASE listPage = "profile"
    BY <1>2, <1>3, <1>4, <2>1, <2>2, <2>3 DEF PatchOf
  <2>4. CASE listPage = "pending"
    BY <1>1, <1>2, <1>3, <1>4, <2>2, <2>4 DEF PatchOf, CallSound
  <2> QED
    BY <2>1, <2>3, <2>4
<1>5. CASE c.op = "edit"
  <2>1. listPage \in {"profile", "authored", "gallery", "directory"}
    BY <1>1, <1>5 DEF Refetches, CallSound, MayCall
  <2> QED
    BY <1>1, <1>2, <1>3, <1>5, <2>1 DEF PatchOf, DoneSound, ClosurePages, ManagerPages
<1>6. CASE c.op = "add"
  <2>1. listPage \in {"other", "classes"}
    BY <1>1, <1>6 DEF Refetches, CallSound, MayCall
  <2> QED
    BY <1>1, <1>2, <1>3, <1>6, <2>1 DEF PatchOf, DoneSound, CallSound, ManagerPages
<1>7. CASE c.op = "delete"
  BY <1>1, <1>2, <1>3, <1>7 DEF PatchOf, DoneSound
<1> QED
  BY <1>4, <1>5, <1>6, <1>7 DEF RowOps

(* The page has its answer.                                                 *)
LEMMA ListsAnswer ==
    ASSUME ListsInv, NEW i \in Calls, Answer(i)
    PROVE  ListsInv'
<1> DEFINE c == call[i]
           again == Refetches(c)
           new == IF again THEN Refetch(c) ELSE Idle
<1>1. /\ i \in Out /\ c.st = "done" /\ c \in CallType /\ CallSound(c)
      /\ listPage # Null /\ list' = Patched(c)
      /\ call' = [call EXCEPT ![i] = new]
      /\ twice' = Twice(c) /\ editing' \in {editing, Null}
      /\ loaded' = (loaded \/ c.op = "fetch")
      /\ UNCHANGED <<listPage, server, clicks, clean, cut>>
  BY DEF Answer, Out, ListsInv, ListsTypeOK, CallsSound
<1>2. again => /\ listPage \in PhotoPages \cup ManagerPages /\ c.op \in {"add", "edit", "photo"}
               /\ Replaces(c.op)
               /\ listPage \in ClosurePages => c.op = "photo"
  <2>1. c.op = "photo" => listPage \in PhotoPages
    BY <1>1 DEF CallSound, MayCall, RowOps
  <2> QED
    BY <2>1 DEF Refetches, ManagerPages, PhotoPages, ClosurePages, Replaces
<1>3. again => /\ new \in CallType /\ new.st = "asked" /\ new.op = "fetch" /\ new.frees = c.frees
  <2>2. again => new = [Fetch EXCEPT !.frees = c.frees]
    BY DEF Refetch
  <2>3. c.frees \in SUBSET (Flags \cup {"row"})
    BY <1>1 DEF CallType
  <2> QED
    BY <2>2, <2>3, IdleFacts DEF CallType
<1>4. EndsOrFetches(i, new, again)
  <2>1. /\ busy' = IF again THEN busy ELSE busy \ c.frees
        /\ acting' = IF "row" \in c.frees THEN Null ELSE acting
        /\ dialog' \in {dialog, Null}
        /\ loading' = IF again THEN loading \/ c.op = "photo" \/ listPage \in ManagerPages
                      ELSE loading /\ (c.op = "fetch" => GalleryOnly(c))
    BY DEF Answer
  <2>2. loading' \in BOOLEAN
    <3>1. loading \in BOOLEAN
      BY DEF ListsInv, ListsTypeOK
    <3>2. CASE again
      BY <2>1, <3>2 DEF ManagerPages
    <3>3. CASE ~again
      BY <2>1, <3>1, <3>3 DEF GalleryOnly
    <3> QED
      BY <3>2, <3>3
  <2>3. listPage \in {"authored", "pending", "directory"} /\ c.op # "fetch" =>
            loading' = loading /\ loaded' = loaded
    BY <1>1, <1>2, <2>1 DEF PhotoPages, ManagerPages, ListsInv, ListsTypeOK
  <2> QED
    BY <1>1, <1>2, <1>3, <2>1, <2>2, <2>3 DEF EndsOrFetches
<1>5. /\ Patched(c) \in Listing
      /\ c.op \in {"fetch", "setup"} => Patched(c) = c.reply
      /\ c.op = "photo" => Patched(c) = list
      /\ c.op \in RowOps =>
            /\ c.id \in Rows /\ Patched(c)[c.id] = PatchOf(c)
            /\ \A r \in Rows : r # c.id =>
                  Patched(c)[r] = IF listPage \in ClosurePages THEN c.base[r] ELSE list[r]
  BY <1>1, PatchedFacts
<1>6. Twice(c) \subseteq Rows
  BY <1>1 DEF Twice, ListsInv, ListsTypeOK, CallSound, RowOps
<1> HIDE DEF new, again
<1>7. /\ ListsTypeOK' /\ CallsSound' /\ FetchSound' /\ FlagsSound'
      /\ Out' = IF again THEN Out ELSE Out \ {i}
      /\ Out \subseteq Calls /\ call'[i] = new
      /\ \A j \in Calls : j # i => call'[j] = call[j]
      /\ View(server)' = View(server)
  <2>1. again \in BOOLEAN /\ loaded' \in BOOLEAN /\ cut' \in BOOLEAN
    BY <1>1 DEF again, Refetches, ListsInv, ListsTypeOK
  <2> QED
    BY <1>1, <1>4, <1>5, <1>6, <2>1, ListsOver
<1>10. RefetchSound'
  <2>1. SUFFICES ASSUME listPage \in {"profile", "other"}
                 PROVE  RefetchSound'
    BY <1>1 DEF RefetchSound
  <2>2. RefetchSound /\ loading \in BOOLEAN /\ loaded \in BOOLEAN
    BY DEF ListsInv, ListsTypeOK
  <2>3. CASE again
    <3>1. c.op = "photo" /\ Out' = Out /\ list' = list
      BY <1>1, <1>2, <1>5, <1>7, <2>1, <2>3 DEF ClosurePages
    <3>2. loading' /\ loaded' = loaded
      BY <1>1, <2>2, <2>3, <3>1 DEF Answer, again
    <3>3. \A j \in Out' : call'[j].op \in FetchOps <=> call[j].op \in FetchOps
      BY <1>3, <1>7, <2>3, <3>1 DEF FetchOps
    <3> QED
      BY <1>1, <2>1, <2>2, <3>1, <3>2, <3>3 DEF RefetchSound
  <2>4. CASE ~again
    <3>1. \A j \in Out' : j \in Out /\ j # i /\ call'[j] = call[j]
      BY <1>7, <2>4
    <3>2. CASE c.op = "fetch"
      BY <1>1, <2>1, <2>2, <3>1, <3>2 DEF RefetchSound, FetchOps
    <3>3. CASE c.op # "fetch"
      <4>1. loading' = loading /\ loaded' = loaded
        BY <1>1, <2>2, <2>4, <3>3 DEF Answer, again
      <4>2. c.op \notin FetchOps
        BY <2>4, <3>3 DEF FetchOps, again, Refetches
      <4>3. \A j \in Out' : call'[j].op \in FetchOps => loaded
        BY <1>1, <2>1, <2>2, <3>1 DEF RefetchSound
      <4>4. listPage = "profile" => loaded
        BY <1>1, <2>1, <2>2, <4>2 DEF RefetchSound
      <4> QED
        BY <1>1, <2>1, <2>2, <3>1, <4>1, <4>3, <4>4 DEF RefetchSound
    <3> QED
      BY <3>2, <3>3
  <2> QED
    BY <2>3, <2>4
<1>8. RowsSound'
  <2>1. SUFFICES ASSUME listPage # "classes", ~cut
                 PROVE  RowsSound'
    BY <1>1 DEF RowsSound
  <2>2. ASSUME loaded', NEW r \in Old, Seen(r)
        PROVE  list'[r] # Null
    <3>1. CASE c.op = "fetch"
      BY <1>1, <1>5, <2>1, <2>2, <3>1 DEF ListsInv, RowsSound
    <3>2. CASE c.op \in RowOps
      <4>1. /\ loaded /\ list[r] # Null
            /\ listPage \in ClosurePages => c.base[r] # Null
            /\ c.op = "delete" \/ (c.op = "publish" /\ listPage = "pending") => r # c.id
        BY <1>1, <2>1, <2>2, <3>2 DEF ListsInv, RowsSound, RowOps
      <4>2. CASE r # c.id
        BY <1>1, <1>5, <3>2, <4>1, <4>2 DEF Rows
      <4>3. CASE r = c.id
        <5>1. PatchOf(c) # Null
          <6>1. CASE c.op = "publish"
            <7>1. c.base[c.id] \in Row /\ c.reply[c.id] \in Row /\ listPage = "profile"
              BY <1>1, <1>5, <3>2, <4>1, <4>3, <6>1
                 DEF CallSound, CallType, Listing, MayCall
            <7>2. PatchOf(c) \in Row
              BY <6>1, <7>1 DEF PatchOf, Row
            <7> QED
              BY <7>2, PageKinds DEF ListsInv
          <6>2. CASE c.op = "edit"
            BY <1>1, <4>1, <4>3, <6>2, WrittenFacts DEF PatchOf, CallSound, ListsInv
          <6>3. CASE c.op = "add"
            BY <1>1, <2>1, <2>2, <4>3, <6>3 DEF CallSound
          <6>4. CASE c.op = "delete"
            BY <4>1, <4>3, <6>4
          <6> QED
            BY <3>2, <6>1, <6>2, <6>3, <6>4 DEF RowOps
        <5> QED
          BY <1>1, <1>5, <3>2, <4>3, <5>1
      <4> QED
        BY <4>2, <4>3
    <3>3. CASE c.op = "photo"
      BY <1>1, <1>5, <2>1, <2>2, <3>3 DEF ListsInv, RowsSound
    <3> QED
      BY <1>1, <2>1, <3>1, <3>2, <3>3 DEF CallSound, MayCall, RowOps
  <2>3. ASSUME NEW j \in Out', NEW r \in Old, Seen(r)
        PROVE  /\ call'[j].st = "done" /\ call'[j].op = "fetch" => call'[j].reply[r] # Null
               /\ call'[j].st = "done"
                     /\ (call'[j].op = "delete" \/ (call'[j].op = "publish" /\ listPage = "pending"))
                     => call'[j].id # r
               /\ listPage \in ClosurePages /\ loaded' /\ call'[j].op # "fetch" =>
                     call'[j].base[r] # Null
    <3>1. CASE j = i
      BY <1>3, <1>7, <2>3, <3>1
    <3>2. CASE j # i
      <4>1. j \in Out /\ call'[j] = call[j]
        BY <1>7, <2>3, <3>2
      <4>2. listPage \in ClosurePages /\ loaded' => loaded
        <5>1. listPage \in {"authored", "pending"} => c.op # "fetch"
          BY <1>1, <3>2, <4>1 DEF ListsInv, FetchSound, ClosurePages
        <5>2. listPage \in {"profile", "other"} => c.op # "fetch" \/ loaded
          BY <1>1, <3>2, <4>1 DEF ListsInv, RefetchSound, FetchOps
        <5> QED
          BY <1>1, <5>1, <5>2 DEF ClosurePages
      <4> QED
        BY <1>1, <2>1, <2>3, <4>1, <4>2 DEF ListsInv, RowsSound
    <3> QED
      BY <3>1, <3>2
  <2> QED
    BY <1>1, <1>7, <2>2, <2>3 DEF RowsSound, Seen
<1>9. InTune'
  <2>1. SUFFICES ASSUME clean
                 PROVE  InTune'
    BY <1>1 DEF InTune
  <2>2. /\ twice = {} /\ DoneSound(c)
        /\ \A j \in Out : /\ Alone(j)
                          /\ call[j].op = "fetch" => call[j].st # "refused"
                          /\ call[j].op # "fetch" /\ listPage \in ClosurePages => call[j].base = list
                          /\ call[j].st = "done" => DoneSound(call[j])
    BY <1>1, <2>1 DEF ListsInv, InTune
  <2>3. twice' = {}
    BY <1>1, <2>2 DEF Twice, DoneSound
  <2>4. \A j \in Out' : /\ j \in Out
                        /\ j # i => call'[j] = call[j]
                        /\ j = i => again /\ Out = {i}
    BY <1>1, <1>2, <1>7, <2>2 DEF Alone
  <2>5. \A j \in Out' : Alone(j)'
    BY <1>1, <1>7, <2>2, <2>4 DEF Alone, Replaces
  <2>6. ASSUME NEW j \in Out', j # i
        PROVE  /\ call'[j].op = "fetch" => call'[j].st # "refused"
               /\ call'[j].op # "fetch" /\ listPage' \in ClosurePages => call'[j].base = list'
               /\ call'[j].st = "done" => DoneSound(call[j])'
    <3>1. /\ listPage \notin ClosurePages /\ ~Replaces(c.op) /\ ~Replaces(call[j].op)
          /\ c.id # call[j].id /\ call'[j] = call[j] /\ j \in Out
      BY <1>1, <2>2, <2>4, <2>6 DEF Alone
    <3>2. c.op \in RowOps /\ call[j].op \in RowOps /\ call[j].id \in Rows
      BY <1>1, <3>1 DEF ListsInv, CallsSound, CallSound, MayCall, RowOps, Replaces
    <3>3. list'[call[j].id] = list[call[j].id]
      BY <1>1, <1>5, <3>1, <3>2
    <3> QED
      BY <1>1, <1>7, <2>2, <3>1, <3>2, <3>3 DEF DoneSound, Written, RowOps, Replaces
  <2>7. CASE again
    <3>1. Fetching' /\ Out' = {i}
      BY <1>1, <1>3, <1>7, <2>4, <2>7 DEF Fetching
    <3> QED
      BY <1>1, <1>3, <1>7, <2>3, <2>5, <2>7, <3>1 DEF InTune
  <2>8. CASE ~again
    <3>1. i \notin Out'
      BY <1>7, <2>8
    <3>2. CASE c.op \in {"fetch", "setup"}
      <4>1. list' = View(server)
        BY <1>1, <1>5, <2>2, <3>2 DEF DoneSound
      <4>2. \A r : Agrees(r)'
        BY <1>7, <4>1 DEF Agrees
      <4> QED
        BY <1>7, <2>3, <2>5, <2>6, <3>1, <4>2 DEF InTune
    <3>3. CASE c.op \in RowOps
      <4>1. \A r \in Rows : r = c.id => Agrees(r)'
        <5>1. \/ list'[c.id] = View(server)[c.id]
              \/ listPage = "other" /\ c.id \notin Old /\ list'[c.id] = server[c.id]
          BY <1>1, <2>1, <2>8, <3>3, PatchAgrees DEF again
        <5> QED
          BY <1>1, <1>7, <5>1 DEF Agrees
      <4>2. \A r \in Rows : r # c.id => list'[r] = list[r]
        BY <1>1, <1>5, <2>2, <3>3 DEF RowOps
      <4>3. Fetching => Fetching'
        BY <1>1, <1>7, <2>8, <3>3 DEF Fetching, RowOps
      <4>6. \A r \in Rows : r # c.id => (Agrees(r)' <=> Agrees(r))
        BY <1>1, <1>7, <4>2 DEF Agrees
      <4>4. Fetching \/ \A r \in Rows :
              \/ Agrees(r)
              \/ \E j \in Out : call[j].st = "done"
                                /\ (call[j].op = "setup" \/ (call[j].op \in RowOps /\ call[j].id = r))
        BY <1>1, <2>1 DEF ListsInv, InTune
      <4>5. Fetching' \/ \A r \in Rows :
              \/ Agrees(r)'
              \/ \E j \in Out' : call'[j].st = "done"
                                 /\ (call'[j].op = "setup" \/ (call'[j].op \in RowOps /\ call'[j].id = r))
        BY <1>1, <1>7, <2>8, <3>3, <4>1, <4>3, <4>4, <4>6 DEF RowOps
      <4> QED
        BY <2>3, <2>5, <2>6, <3>1, <4>5 DEF InTune
    <3> QED
      BY <1>1, <2>8, <3>2, <3>3 DEF CallSound, MayCall, RowOps, again, Refetches
  <2> QED
    BY <2>7, <2>8
<1> QED
  BY <1>7, <1>8, <1>9, <1>10 DEF ListsInv

(* Every step of a page.                                                    *)
LEMMA ListsKeep ==
    ASSUME ListsInv, ListsStep
    PROVE  ListsInv'
<1>1. CASE \/ \E r \in Rows : OpenForm(r)
           \/ CloseForm \/ CloseDialog
           \/ \E d \in Rows \cup {File} : OpenDialog(d)
  BY <1>1, ListsOpen
<1>2. CASE \E op \in {"publish", "edit", "delete", "add", "setup", "photo"}, r \in Rows \cup {Null} :
              Click(op, r)
  BY <1>2, ListsClick
<1>3. CASE \E i \in Calls : \/ Perform(i) \/ FallBack(i) \/ Refuse(i) \/ Lose(i)
                            \/ Answer(i) \/ Fail(i)
  BY <1>3, ListsPerform, ListsFallBack, ListsRefuse, ListsLose, ListsAnswer, ListsFail
<1> QED
  BY <1>1, <1>2, <1>3 DEF ListsStep

(* What is in flight then is nothing, so nothing is left to be told.        *)
LEMMA ListsPromise ==
    ASSUME ListsInv
    PROVE  ListsAgree /\ RowsStayVisible /\ ButtonsGuard
<1>1. ListsAgree
  <2>1. SUFFICES ASSUME listPage # Null, Quiet, clean
                 PROVE  (\A r \in Rows : Agrees(r)) /\ twice = {}
    BY DEF ListsAgree
  <2> QED
    BY <2>1 DEF ListsInv, InTune, Quiet, Fetching
<1>2. RowsStayVisible
  BY DEF ListsInv, RowsSound, RowsStayVisible, Seen
<1>3. ButtonsGuard
  <2>1. Quiet => busy = {} /\ acting = Null
    BY DEF ListsInv, FlagsSound, Quiet
  <2>2. ASSUME NEW i \in Out, NEW j \in Out, i # j, call[i].op = call[j].op,
               \/ call[i].op = "add" /\ listPage \in {"other", "gallery", "classes", "events"}
               \/ call[i].op = "edit" /\ listPage \in {"authored", "directory", "events"}
               \/ call[i].op \in {"setup", "photo"}
        PROVE  FALSE
    <3> DEFINE op == call[i].op
    <3>1. CallSound(call[i]) /\ CallSound(call[j])
      BY DEF ListsInv, CallsSound
    <3>2. call[i].frees = Marks(op) /\ call[j].frees = Marks(op)
      BY <2>2, <3>1 DEF CallSound
    <3>3. /\ op = "setup" => listPage = "classes"
          /\ op = "photo" => listPage \in PhotoPages
      BY <3>1 DEF CallSound, MayCall, RowOps
    <3>4. \E f \in Marks(op) \cap Flags : ~(listPage = "gallery" /\ f = "edit")
      <4>1. CASE op = "add"
        <5>1. listPage \in {"other", "gallery", "classes", "events"}
          BY <2>2, <4>1
        <5>2. "add" \in Marks(op) \/ "save" \in Marks(op)
          <6>1. CASE listPage = "events"
            BY <4>1, <6>1, MarksFacts
          <6>2. CASE listPage \in {"other", "gallery", "classes"}
            <7>1. \E kinds : "add" \in kinds /\ Marks(op) = kinds \cap {op}
              BY <6>2, MarksFacts
            <7> QED
              BY <4>1, <7>1
          <6> QED
            BY <5>1, <6>1, <6>2
        <5> QED
          BY <4>1, <5>2 DEF Flags
      <4>2. CASE op = "edit"
        <5>1. listPage \in {"authored", "directory", "events"}
          BY <2>2, <4>2
        <5>2. "edit" \in Marks(op) \/ "save" \in Marks(op)
          <6>1. CASE listPage = "events"
            BY <4>2, <6>1, MarksFacts
          <6>2. CASE listPage \in {"authored", "directory"}
            <7>1. Marks(op) = {"edit"} \cap {op}
              BY <6>2, MarksFacts
            <7> QED
              BY <4>2, <7>1
          <6> QED
            BY <5>1, <6>1, <6>2
        <5> QED
          BY <5>1, <5>2 DEF Flags
      <4>3. CASE op = "setup"
        <5>1. "setup" \in Marks(op)
          <6>1. Marks(op) = {"add", "setup"} \cap {op}
            BY <3>3, <4>3, MarksFacts
          <6> QED
            BY <4>3, <6>1
        <5> QED
          BY <5>1 DEF Flags
      <4>4. CASE op = "photo"
        <5>1. \E kinds : "photo" \in kinds /\ Marks(op) = kinds \cap {op}
          BY <3>3, <4>4, MarksFacts DEF PhotoPages
        <5> QED
          BY <4>4, <5>1 DEF Flags
      <4> QED
        BY <2>2, <4>1, <4>2, <4>3, <4>4
    <3> QED
      BY <2>2, <3>2, <3>4 DEF ListsInv, FlagsSound
  <2> QED
    BY <2>1, <2>2 DEF ButtonsGuard
<1> QED
  BY <1>1, <1>2, <1>3

(* What does not move stays as sound.                                       *)
LEMMA ListsStutter ==
    ASSUME ListsInv, UNCHANGED listVars
    PROVE  ListsInv'
<1> USE DEF listVars, shownVars
<1>1. ListsTypeOK' /\ Out' = Out /\ View(server)' = View(server)
  BY DEF ListsInv, ListsTypeOK, Out, View
<1>2. \A op : MayCall(op)' <=> MayCall(op)
  BY DEF MayCall
<1>3. \A op : Marks(op)' = Marks(op)
  BY DEF Marks
<1>4. CallsSound'
  BY <1>1, <1>2, <1>3 DEF ListsInv, CallsSound, CallSound
<1>5. FetchSound' /\ RefetchSound' /\ FlagsSound' /\ RowsSound'
  BY <1>1 DEF ListsInv, FetchSound, RefetchSound, FlagsSound, RowsSound, Seen
<1>6. InTune'
  <2>1. \A i \in Out : (Alone(i)' <=> Alone(i)) /\ (DoneSound(call[i])' <=> DoneSound(call[i]))
    BY <1>1 DEF Alone, DoneSound, Written, Replaces
  <2>2. Fetching' <=> Fetching
    BY <1>1 DEF Fetching
  <2>3. \A r : Agrees(r)' <=> Agrees(r)
    BY <1>1 DEF Agrees
  <2> QED
    BY <1>1, <2>1, <2>2, <2>3 DEF ListsInv, InTune
<1> QED
  BY <1>1, <1>4, <1>5, <1>6 DEF ListsInv

-----------------------------------------------------------------------------
(* SELECTIONS. What is listed is for what is selected, or is asked for: a   *)
(* request knows the selection it was made for, a part that waits has a     *)
(* request that ends it, and a selection that is being restored has its     *)
(* years asked for.                                                         *)

(* The pages of one user.                                                   *)
UserPages == {"user", "profile"}

(* What a page asks for.                                                    *)
MayAsk(part) ==
    \/ part = "years" /\ selPage \in {"users", "events", "classes", "join"}
    \/ part = "rows"  /\ selPage \in {"users", "events", "ownEvents", "join", "photos"}
    \/ part = "zone"  /\ selPage \in {"events", "ownEvents"}
    \/ part = "own"   /\ selPage \in {"ownEvents", "photos"}
    \/ part = "save"  /\ selPage \in {"users", "events", "ownEvents"} \cup UserPages
    \/ part = "claim" /\ selPage = "join"
    \/ part = "class" /\ selPage = "profile"
    \/ part \in {"profile", "gallery", "comments"} /\ selPage \in UserPages

(* A part is on its way.                                                    *)
IsAsked(part) == \E r \in asked : r.part = part

(* Only a page that is open asks, and for what it shows.                    *)
AskedSound ==
    /\ selPage = Nothing => asked = {}
    /\ \A r \in asked : /\ MayAsk(r.part)
                        /\ r.part \in {"years", "zone"} => r.key.school \in Schools

(* A part says "Loading..." only while something is out that will end it.   *)
AwaitedBy(part) == IF part = "rows" /\ selPage = "photos" THEN {"rows", "own"}
               ELSE IF part = "profile" THEN {"profile", "class", "gallery", "comments"}
               ELSE {part}

(* Nothing is waited for in vain.                                           *)
WaitsSound ==
    selPage # Nothing =>
        \A p \in waits : p \in Flagged /\ \E r \in asked : r.part \in AwaitedBy(p)

(* What is asked for of the photos is what is selected.                     *)
PhotosSound ==
    selPage = "photos" =>
        /\ \A r \in asked : r.part = "rows" => r.key = KeyOf("rows", sel) /\ sel.class # Nothing
        /\ sel.class = Nothing => shown["rows"] = Nothing
        /\ \A a, b \in asked : a.part = "own" /\ b.part = "own" => a = b /\ sel.class = Nothing
        /\ PhotosAreCurrent

(* Joining.                                                                 *)
JoinSound ==
    /\ step # "school" => selPage \in {"join", Nothing}
    /\ many => step \in {"results", "claim"}
    /\ many \/ step = "results" => shown["rows"] # Nothing
    /\ selPage = "join" /\ smooth =>
          /\ many \/ step = "results" => shown["rows"].class = sel.class
          /\ step = "claim" => shown["chosen"].class = sel.class

(* The class a page has selected.                                           *)
ClassSound ==
    /\ selPage \in UserPages \cup {"classes"} => sel.class = Nothing
    /\ selPage \in {"users", "join"} /\ smooth /\ sel.class # Nothing => sel.school # Nothing
    /\ selPage \in UserPages => sel.school # Nothing
    /\ selPage = "photos" => sel.school = Nothing
    /\ smooth /\ sel.school # Nothing /\ sel.class # Nothing =>
          sel.class \in Linked[sel.school] \/ (selPage = "events" /\ IsAsked("years"))

(* The users' page comes back.                                              *)
RestoreSound ==
    selPage = "users" =>
        /\ saved = sel
        /\ smooth => IF pending = Nothing THEN sel = wanted
                     ELSE /\ IsAsked("years") /\ sel.school # Nothing
                          /\ pending \in Linked[sel.school]
                          /\ wanted = [sel EXCEPT !.class = pending]

(* What a part shows is what is selected.                                   *)
Matches(p) ==
    IF selPage = "events" /\ p = "rows"
    THEN shown[p] # Nothing /\ shown[p].class = sel.class
    ELSE shown[p] = KeyOf(p, sel)

(* The requests whose answers lead to a part's being shown.                 *)
Before(p) ==
    CASE p = "rows"     -> {"save", "rows"}
      [] p = "profile"  -> {"save", "profile"}
      [] p = "class"    -> {"save", "profile", "class"}
      [] p = "gallery"  -> {"save", "profile", "class", "gallery"}
      [] p = "comments" -> {"save", "profile", "class", "gallery", "comments"}
      [] OTHER          -> {p}

(* Of a page nothing has overtaken: what is out is for what is selected,    *)
(* and a part that does not match has a request out that will show it.      *)
InStep ==
    selPage # Nothing /\ smooth =>
        /\ \A r \in asked : /\ r.part \in Parts => r.key = KeyOf(r.part, sel)
                            /\ r.part = "save" => r.key = sel
        /\ selPage \in {"users", "events"} =>
              \A a, b \in asked : /\ a.part = "years" => b.part \notin {"rows", "save"}
                                  /\ a.part = "years" /\ b.part = "years" => a = b
        /\ selPage = "users" /\ IsAsked("years") => sel.class = Nothing
        /\ selPage = "ownEvents" =>
              \A a, b \in asked : a.part = "own" =>
                  a = b /\ sel.class = Nothing /\ sel.school = Nothing
        /\ \A p \in PartsOf : sel[Gate(p)] # Nothing =>
              Matches(p) \/ \E r \in asked : r.part \in Before(p)

(* The invariant of the selections.                                         *)
SelectionsInv ==
    /\ SelectionsTypeOK /\ AskedSound /\ WaitsSound /\ PhotosSound /\ JoinSound
    /\ ClassSound /\ RestoreSound /\ InStep

(* A selection differs in what a part depends on.                           *)
Changed(p, new) == \E f \in Depends(p) : new[f] # sel[f]

(* What the effects of each page ask for, and what it says is loading.      *)
LEMMA PageFacts ==
    /\ selPage = "users"     => EffectsOf = {"years", "rows"} /\ Flagged = {"rows"}
    /\ selPage = "events"    => EffectsOf = {"years", "rows", "zone"} /\ Flagged = {"rows"}
    /\ selPage = "ownEvents" => EffectsOf = {"rows", "zone"} /\ Flagged = {"rows"}
    /\ selPage = "classes"   => EffectsOf = {"years"} /\ Flagged = {"years"}
    /\ selPage = "join"      => EffectsOf = {"years"} /\ Flagged = {"years"}
    /\ selPage = "photos"    => EffectsOf = {"rows"} /\ Flagged = {"rows"}
    /\ selPage = "user"      => EffectsOf = {"profile"} /\ Flagged = {"profile"}
    /\ selPage = "profile"   => EffectsOf = {"profile"} /\ Flagged = {"profile"}
  BY DEF EffectsOf, Flagged

(* What each page shows.                                                    *)
LEMMA PartsFacts ==
    /\ selPage = "user"    => PartsOf = {"profile", "gallery", "comments"}
    /\ selPage = "profile" => PartsOf = {"profile", "class", "gallery", "comments"}
    /\ selPage \in PageNames \ UserPages => PartsOf = EffectsOf
  BY PageFacts DEF PartsOf, PageNames, UserPages

(* What of a selection a part depends on.                                   *)
LEMMA KeyFacts ==
    ASSUME NEW s \in Selection, NEW part
    PROVE  /\ KeyOf(part, s) \in Selection
           /\ part # "rows" => KeyOf(part, s) = [school |-> s.school, class |-> Nothing,
                                                page |-> 0, term |-> 0]
           /\ part = "rows" /\ selPage \in {"users", "photos"} =>
                 KeyOf(part, s) = [school |-> Nothing, class |-> s.class,
                                   page |-> s.page, term |-> s.term]
           /\ part = "rows" /\ selPage = "join" =>
                 KeyOf(part, s) = [school |-> Nothing, class |-> s.class, page |-> 0, term |-> 0]
           /\ part = "rows" /\ selPage \notin {"users", "photos", "join"} =>
                 KeyOf(part, s) = [school |-> s.school, class |-> s.class,
                                   page |-> 0, term |-> 0]
<1> USE SelectionsAssumption DEF Selection, NoKey
<1>1. CASE part # "rows"
  BY <1>1 DEF KeyOf
<1>2. CASE part = "rows" /\ selPage \in {"users", "photos"}
  BY <1>2 DEF KeyOf
<1>3. CASE part = "rows" /\ selPage = "join"
  BY <1>3 DEF KeyOf
<1>4. CASE part = "rows" /\ selPage \notin {"users", "photos", "join"}
  <2>1. KeyOf(part, s) = [NoKey EXCEPT !.school = s.school, !.class = s.class]
    BY <1>4 DEF KeyOf
  <2>2. KeyOf(part, s) = [school |-> s.school, class |-> s.class, page |-> 0, term |-> 0]
    BY <2>1
  <2>3. KeyOf(part, s) \in Selection
    BY <2>2
  <2> QED
    BY <1>4, <2>2, <2>3
<1> QED
  BY <1>1, <1>2, <1>3, <1>4

(* What settling on a selection does to the requests, the parts and the     *)
(* flags: an effect whose dependencies change asks anew.                    *)
SettledTo(new, by, rest, shows, flags) ==
    /\ sel' = new /\ saved' = IF selPage = "users" THEN new ELSE saved
    /\ asked' \subseteq Request /\ shown' \in [Parts -> Selection \cup {Nothing}]
    /\ waits' \subseteq Parts
    /\ \A r \in asked' :
          \/ r \in rest /\ (selPage = "photos" /\ r.part = "rows" => ~Changed("rows", new))
          \/ /\ r.part \in EffectsOf /\ Changed(r.part, new)
             /\ new[Gate(r.part)] # Nothing /\ r.key = KeyOf(r.part, new) /\ r.by = by
    /\ \A r \in rest : selPage # "photos" \/ r.part # "rows" \/ ~Changed("rows", new)
                         => r \in asked'
    /\ \A p \in EffectsOf :
          Changed(p, new) /\ new[Gate(p)] # Nothing =>
              /\ \E r \in asked' : r.part = p
              /\ p \in Flagged => p \in waits'
    /\ \A p \in waits' : \/ p \in flags
                         \/ p \in EffectsOf \cap Flagged /\ \E r \in asked' : r.part = p
    /\ flags \subseteq waits'
    /\ \A p \in Parts : p \notin EffectsOf \/ ~Changed(p, new) \/ new[Gate(p)] # Nothing =>
          shown'[p] = shows[p]
    /\ selPage = "photos" /\ Changed("rows", new) /\ new.class = Nothing =>
          shown'["rows"] = Nothing

(* When the selection changes, the parts that depend on the change are      *)
(* asked for anew.                                                          *)
LEMMA SettleFacts ==
    ASSUME SelectionsTypeOK, selPage \in PageNames,
           NEW new \in Selection, NEW by \in Nat, NEW rest \in SUBSET asked,
           NEW shows \in [Parts -> Selection \cup {Nothing}], NEW flags \in SUBSET waits,
           Settle(new, by, rest, shows, flags)
    PROVE  SettledTo(new, by, rest, shows, flags)
<1> DEFINE reran == {p \in EffectsOf : Changed(p, new)}
           anew  == {p \in reran : new[Gate(p)] # Nothing}
           req(p) == [part |-> p, key |-> KeyOf(p, new), by |-> by]
<1>1. /\ sel' = new /\ saved' = IF selPage = "users" THEN new ELSE saved
      /\ asked' = {r \in rest : ~(r.part \in reran /\ Cancels(r.part))} \cup {req(p) : p \in anew}
      /\ shown' = [p \in Parts |->
                      IF p \in reran \ anew /\ ~(p = "rows" /\ selPage = "users")
                      THEN Nothing ELSE shows[p]]
      /\ waits' = flags \cup (anew \cap Flagged)
  BY DEF Settle, Changed
<1>2. EffectsOf \subseteq Parts
  BY PageFacts DEF PageNames, Parts
<1>3. \A p \in anew : req(p) \in Request /\ req(p).part = p /\ req(p).key = KeyOf(p, new)
                      /\ req(p).by = by
  BY <1>2, KeyFacts DEF Request
<1>4. asked' \subseteq Request
  BY <1>1, <1>3 DEF SelectionsTypeOK
<1>5. shown' \in [Parts -> Selection \cup {Nothing}]
  BY <1>1
<1>6. waits' \subseteq Parts
  BY <1>1, <1>2 DEF SelectionsTypeOK
<1>7. \A r \in asked' :
         \/ r \in rest /\ (selPage = "photos" /\ r.part = "rows" => ~Changed("rows", new))
         \/ /\ r.part \in EffectsOf /\ Changed(r.part, new)
            /\ new[Gate(r.part)] # Nothing /\ r.key = KeyOf(r.part, new) /\ r.by = by
  <2> SUFFICES ASSUME NEW r \in asked'
               PROVE  \/ r \in rest /\ (selPage = "photos" /\ r.part = "rows" => ~Changed("rows", new))
                      \/ /\ r.part \in EffectsOf /\ Changed(r.part, new)
                         /\ new[Gate(r.part)] # Nothing /\ r.key = KeyOf(r.part, new) /\ r.by = by
    OBVIOUS
  <2>1. CASE r \in rest /\ ~(r.part \in reran /\ Cancels(r.part))
    BY <2>1, PageFacts DEF Cancels
  <2>2. CASE r \in {req(p) : p \in anew}
    BY <2>2, <1>3
  <2> QED
    BY <1>1, <2>1, <2>2
<1>8. \A r \in rest : selPage # "photos" \/ r.part # "rows" \/ ~Changed("rows", new) => r \in asked'
  BY <1>1 DEF Cancels
<1>9. \A p \in EffectsOf :
         Changed(p, new) /\ new[Gate(p)] # Nothing =>
             /\ \E r \in asked' : r.part = p
             /\ p \in Flagged => p \in waits'
  BY <1>1, <1>3
<1>10. \A p \in waits' : \/ p \in flags
                         \/ p \in EffectsOf \cap Flagged /\ \E r \in asked' : r.part = p
  BY <1>1, <1>3
<1>11. \A p \in Parts : p \notin EffectsOf \/ ~Changed(p, new) \/ new[Gate(p)] # Nothing =>
          shown'[p] = shows[p]
  BY <1>1
<1>12. selPage = "photos" /\ Changed("rows", new) /\ new.class = Nothing => shown'["rows"] = Nothing
  BY <1>1, PageFacts DEF Gate, Parts
<1> QED
  BY <1>1, <1>4, <1>5, <1>6, <1>7, <1>8, <1>9, <1>10, <1>11, <1>12 DEF SettledTo

(* Nothing is selected.                                                     *)
LEMMA UnselectedFacts ==
    /\ Unselected \in Selection /\ Unselected.school = Nothing /\ Unselected.class = Nothing
    /\ NoKey \in Selection
  BY SelectionsAssumption DEF Selection, NoKey, Unselected

(* A page that has just been opened.                                        *)
LEMMA SelectionsStart ==
    ASSUME SelectionsInit
    PROVE  SelectionsInv
<1> USE SelectionsAssumption DEF SelectionsInit
<1>1. Unselected \in Selection /\ Unselected.school = Nothing /\ Unselected.class = Nothing
  BY UnselectedFacts
<1>2. sel \in Selection /\ sel.class = Nothing /\ (selPage \in UserPages <=> sel.school # Nothing)
  <2>1. CASE selPage \in UserPages
    <3>1. PICK u \in Schools : sel = [Unselected EXCEPT !.school = u]
      BY <2>1 DEF UserPages
    <3> QED
      BY <2>1, <3>1, <1>1 DEF Selection
  <2>2. CASE selPage \notin UserPages
    BY <2>2, <1>1 DEF UserPages
  <2> QED
    BY <2>1, <2>2
<1>3. /\ selPage \in {"photos", "ownEvents"} => asked = {Asking("own", sel)}
      /\ selPage \in UserPages => asked = {Asking("profile", sel)}
      /\ selPage \notin UserPages \cup {"photos", "ownEvents"} => asked = {}
  BY DEF UserPages
<1>4. /\ selPage = "photos" => waits = {"rows"}
      /\ selPage \in UserPages => waits = {"profile"}
      /\ selPage \notin UserPages \cup {"photos"} => waits = {}
  BY DEF UserPages
<1>5. \A part : /\ Asking(part, sel).part = part /\ Asking(part, sel).key = KeyOf(part, sel)
                /\ part \in {"own", "profile"} => Asking(part, sel) \in Request
  BY <1>2, KeyFacts DEF Asking, Request, Parts
<1>6. selPage = Nothing \/ selPage \in PageNames
  OBVIOUS
<1>7. SelectionsTypeOK
  BY <1>1, <1>2, <1>3, <1>4, <1>5 DEF SelectionsTypeOK, Parts
<1>8. AskedSound
  BY <1>3, <1>5, <1>6 DEF AskedSound, MayAsk, UserPages, PageNames
<1>9. WaitsSound
  BY <1>3, <1>4, <1>5, <1>6, PageFacts DEF WaitsSound, AwaitedBy, UserPages, PageNames
<1>10. PhotosSound /\ JoinSound
  BY <1>1, <1>2, <1>3, <1>4, <1>5 DEF PhotosSound, JoinSound, PhotosAreCurrent, Parts, UserPages
<1>11. ClassSound
  BY <1>2, <1>1 DEF ClassSound, UserPages, IsAsked
<1>12. RestoreSound
  BY <1>1, <1>2 DEF RestoreSound, UserPages
<1>13. InStep
  <2>1. selPage \in PageNames =>
        \A p \in PartsOf : sel[Gate(p)] # Nothing =>
            \E r \in asked : r.part \in Before(p)
    BY <1>2, <1>3, <1>5, <1>6, PartsFacts, PageFacts DEF Gate, Before, UserPages, PageNames
  <2> QED
    BY <1>2, <1>3, <1>5, <1>6, <2>1 DEF InStep, UserPages, IsAsked
<1> QED
  BY <1>7, <1>8, <1>9, <1>10, <1>11, <1>12, <1>13 DEF SelectionsInv

(* What a reader may select.                                                *)
MaySelect(new) ==
    /\ selPage \in PageNames \ {"ownEvents"} /\ (selPage = "join" => step = "school")
    /\ selPage \in UserPages \cup {"classes"} => new.class = Nothing
    /\ selPage \in UserPages => new.school # Nothing
    /\ selPage = "photos" => new.school = Nothing /\ new.class = sel.class
    /\ new.school # sel.school =>
          /\ selPage = "users" => new.class = Nothing
          /\ selPage = "events" => new.class \in {sel.class, Nothing}
    /\ smooth /\ asked = {} =>
          /\ selPage \in {"users", "join"} /\ new.class # Nothing => new.school # Nothing
          /\ new.school # Nothing /\ new.class # Nothing =>
                new.class \in Linked[new.school]
                    \/ (selPage = "events" /\ new.school # sel.school)

(* The reader selects: whatever it is, its effects ask anew.                *)
LEMMA SelectsAny ==
    ASSUME SelectionsInv, NEW new \in Selection, Selects(new), MaySelect(new)
    PROVE  SelectionsInv'
<1> USE SelectionsAssumption DEF UserPages
<1>1. PICK by \in Nat : by = moves'
  BY DEF Selects, Moves, SelectionsInv, SelectionsTypeOK
<1>2. /\ Settle(new, by, asked, shown, waits)
      /\ wanted' = new /\ smooth' = (smooth /\ asked = {}) /\ moves' \in Nat
      /\ UNCHANGED <<selPage, pending, step, many>>
  BY <1>1 DEF Selects
<1>3. SelectionsTypeOK /\ selPage \in PageNames
      /\ shown \in [Parts -> Selection \cup {Nothing}]
  BY DEF SelectionsInv, SelectionsTypeOK, MaySelect
<1>4. SettledTo(new, by, asked, shown, waits)
  BY <1>2, <1>3, SettleFacts
<1> USE DEF SettledTo
<1>5. SelectionsTypeOK'
  <2>1. step = "claim" => shown'["chosen"] # Nothing
    BY <1>3, <1>4, PageFacts DEF SelectionsTypeOK, Parts, PageNames
  <2> QED
    BY <1>2, <1>3, <1>4, <2>1 DEF SelectionsTypeOK
<1>6. AskedSound'
  <2>1. \A r \in asked' : /\ MayAsk(r.part)
                          /\ r.part \in {"years", "zone"} => r.key.school \in Schools
    <3> SUFFICES ASSUME NEW r \in asked'
                 PROVE  /\ MayAsk(r.part)
                        /\ r.part \in {"years", "zone"} => r.key.school \in Schools
      OBVIOUS
    <3>1. CASE r \in asked
      BY <3>1, <1>3 DEF SelectionsInv, AskedSound
    <3>2. CASE r.part \in EffectsOf /\ new[Gate(r.part)] # Nothing /\ r.key = KeyOf(r.part, new)
      <4>1. MayAsk(r.part)
        BY <3>2, <1>3, PageFacts DEF MayAsk, PageNames
      <4>2. r.part \in {"years", "zone"} => r.key.school = new.school /\ new.school # Nothing
        BY <3>2, KeyFacts DEF Gate
      <4> QED
        BY <4>1, <4>2 DEF Selection
    <3> QED
      BY <3>1, <3>2, <1>4
  <2>2. selPage' = selPage /\ selPage # Nothing
    BY <1>2, <1>3 DEF PageNames
  <2> QED
    BY <2>1, <2>2 DEF AskedSound, MayAsk
<1>7. WaitsSound'
  <2> SUFFICES ASSUME NEW p \in waits'
               PROVE  p \in Flagged /\ \E r \in asked' : r.part \in AwaitedBy(p)
    BY <1>2 DEF WaitsSound, Flagged, AwaitedBy
  <2>1. CASE p \in EffectsOf \cap Flagged /\ \E r \in asked' : r.part = p
    BY <2>1 DEF AwaitedBy
  <2>2. CASE p \in waits
    <3>1. p \in Flagged /\ \E r \in asked : r.part \in AwaitedBy(p)
      BY <1>3, <2>2 DEF SelectionsInv, WaitsSound, PageNames
    <3>2. PICK r \in asked : r.part \in AwaitedBy(p)
      BY <3>1
    <3>3. CASE r \in asked'
      BY <3>1, <3>2, <3>3
    <3>4. CASE r \notin asked'
      <4>1. selPage = "photos" /\ r.part = "rows" /\ Changed("rows", new)
        BY <3>4, <1>4
      <4>2. new.class # Nothing
        BY <4>1 DEF SelectionsInv, PhotosSound, MaySelect
      <4>3. \E q \in asked' : q.part = "rows"
        BY <4>1, <4>2, <1>4, PageFacts DEF Gate
      <4> QED
        BY <4>1, <4>3, <3>1, PageFacts DEF AwaitedBy
    <3> QED
      BY <3>3, <3>4
  <2> QED
    BY <1>4, <2>1, <2>2
<1>8. PhotosSound'
  <2> SUFFICES ASSUME selPage = "photos"
               PROVE  PhotosSound'
    BY <1>2 DEF PhotosSound
  <2>1. EffectsOf = {"rows"} /\ Flagged = {"rows"} /\ "rows" \in Parts /\ Gate("rows") = "class"
        /\ Depends("rows") = {"class", "page", "term"}
    BY PageFacts DEF Parts, Gate, Depends
  <2>2. new.school = Nothing /\ new.class = sel.class /\ sel \in Selection
        /\ sel.school = Nothing
    BY <1>3 DEF MaySelect, SelectionsTypeOK, SelectionsInv, ClassSound
  <2>3. ~Changed("rows", new) => KeyOf("rows", new) = KeyOf("rows", sel)
    BY <2>1, <2>2, KeyFacts DEF Changed
  <2>4. KeyOf("rows", sel)' = KeyOf("rows", new)
    BY <1>2, <1>4 DEF KeyOf
  <2>5. \A r \in asked' : r.part = "rows" => r.key = KeyOf("rows", new) /\ new.class # Nothing
    BY <1>4, <2>1, <2>2, <2>3 DEF SelectionsInv, PhotosSound
  <2>6. new.class = Nothing => shown'["rows"] = Nothing
    BY <1>4, <2>1, <2>2 DEF SelectionsInv, PhotosSound
  <2>7. \A a, b \in asked' : a.part = "own" /\ b.part = "own" => a = b /\ new.class = Nothing
    BY <1>4, <2>1, <2>2 DEF SelectionsInv, PhotosSound
  <2>8. "rows" \notin waits' /\ shown'["rows"] # Nothing => shown'["rows"] = KeyOf("rows", new)
    <3>1. CASE Changed("rows", new)
      BY <3>1, <1>4, <2>1, <2>6
    <3>2. CASE ~Changed("rows", new)
      BY <3>2, <1>4, <2>1, <2>3 DEF SelectionsInv, PhotosSound, PhotosAreCurrent
    <3> QED
      BY <3>1, <3>2
  <2> QED
    BY <1>2, <1>4, <2>4, <2>5, <2>6, <2>7, <2>8 DEF PhotosSound, PhotosAreCurrent, IsAsked
<1>9. JoinSound'
  <2>1. step = "school" /\ ~many
    BY <1>3 DEF SelectionsInv, JoinSound, MaySelect, PageNames, SelectionsTypeOK
  <2> QED
    BY <1>2, <2>1 DEF JoinSound
<1>10. ClassSound'
  <2>1. smooth' /\ new.school # Nothing /\ new.class # Nothing =>
           new.class \in Linked[new.school]
               \/ (selPage = "events" /\ \E r \in asked' : r.part = "years")
    <3> SUFFICES ASSUME smooth', new.school # Nothing, new.class # Nothing,
                        selPage = "events", new.school # sel.school
                 PROVE  \E r \in asked' : r.part = "years"
      BY <1>2 DEF MaySelect
    <3>1. "years" \in EffectsOf /\ Changed("years", new) /\ Gate("years") = "school"
      BY PageFacts DEF Changed, Depends, Gate
    <3> QED
      BY <3>1, <1>4
  <2>2. selPage \in {"users", "join"} /\ smooth' /\ new.class # Nothing => new.school # Nothing
    BY <1>2 DEF MaySelect
  <2> QED
    BY <1>2, <1>4, <2>1, <2>2 DEF ClassSound, MaySelect, IsAsked
<1>11. RestoreSound'
  BY <1>2, <1>4 DEF SelectionsInv, RestoreSound, IsAsked
<1>12. InStep'
  <2> SUFFICES ASSUME smooth, asked = {}
               PROVE  InStep'
    BY <1>2 DEF InStep
  <2>1. \A r \in asked' : /\ r.part \in EffectsOf /\ Changed(r.part, new)
                          /\ new[Gate(r.part)] # Nothing /\ r.key = KeyOf(r.part, new)
                          /\ r.by = by /\ r \in Request
    BY <1>4
  <2>2. \A part : KeyOf(part, sel)' = KeyOf(part, new)
    BY <1>2, <1>4 DEF KeyOf
  <2>3. \A p \in PartsOf : new[Gate(p)] # Nothing =>
           Matches(p)' \/ \E r \in asked' : r.part \in Before(p)
    <3> SUFFICES ASSUME NEW p \in PartsOf, new[Gate(p)] # Nothing
                 PROVE  Matches(p)' \/ \E r \in asked' : r.part \in Before(p)
      OBVIOUS
    <3>1. p \in Parts
      BY <1>3, PartsFacts, PageFacts DEF PageNames, Parts
    <3>2. CASE Changed(p, new) /\ p \in EffectsOf
      <4>1. \E r \in asked' : r.part = p
        BY <3>2, <1>4
      <4>2. p \in Before(p)
        BY <3>2, <1>3, PageFacts DEF Before, PageNames
      <4> QED
        BY <4>1, <4>2
    <3>3. CASE ~Changed(p, new)
      <4>1. sel[Gate(p)] = new[Gate(p)] /\ Matches(p) /\ shown'[p] = shown[p]
        <5>1. Gate(p) \in Depends(p)
          BY <1>3 DEF Gate, Depends, MaySelect
        <5>2. sel[Gate(p)] = new[Gate(p)]
          BY <5>1, <3>3 DEF Changed
        <5> QED
          BY <5>2, <1>3, <1>4, <3>1, <3>3 DEF SelectionsInv, InStep, PageNames
      <4>2. CASE selPage = "events" /\ p = "rows"
        <5>1. new.class = sel.class
          BY <3>3, <4>2 DEF Changed, Depends
        <5> QED
          BY <4>1, <4>2, <5>1, <1>2, <1>4 DEF Matches
      <4>3. CASE ~(selPage = "events" /\ p = "rows")
        <5>1. KeyOf(p, new) = KeyOf(p, sel)
          <6>1. CASE p = "rows"
            <7>1. selPage \in {"users", "photos"}
              BY <6>1, <4>3, <1>3, PartsFacts, PageFacts DEF MaySelect, PageNames
            <7>2. new.class = sel.class /\ new.page = sel.page /\ new.term = sel.term
              BY <7>1, <6>1, <3>3 DEF Changed, Depends
            <7> QED
              BY <7>1, <7>2, <6>1, <1>3, KeyFacts DEF SelectionsTypeOK
          <6>2. CASE p # "rows"
            <7>1. new.school = sel.school
              BY <6>2, <3>3 DEF Changed, Depends
            <7> QED
              BY <7>1, <6>2, <1>3, KeyFacts DEF SelectionsTypeOK
          <6> QED
            BY <6>1, <6>2
        <5> QED
          BY <4>1, <4>3, <5>1, <2>2, <1>2, <1>4 DEF Matches
      <4> QED
        BY <4>2, <4>3
    <3>4. CASE Changed(p, new) /\ p \notin EffectsOf
      <4>1. selPage \in UserPages /\ EffectsOf = {"profile"} /\ p \in {"class", "gallery", "comments"}
        BY <3>4, <1>3, PartsFacts, PageFacts DEF PageNames
      <4>2. Changed("profile", new) /\ new[Gate("profile")] # Nothing
        BY <4>1, <3>4 DEF Changed, Depends, MaySelect, Gate
      <4>3. \E r \in asked' : r.part = "profile"
        BY <4>1, <4>2, <1>4
      <4>4. "profile" \in Before(p)
        BY <4>1 DEF Before
      <4> QED
        BY <4>3, <4>4
    <3> QED
      BY <3>2, <3>3, <3>4
  <2>4. PartsOf' = PartsOf
    BY <1>2 DEF PartsOf, EffectsOf
  <2>5. \A r \in asked' : r.part \notin {"save", "own"}
    BY <2>1, <1>3, PageFacts DEF PageNames
  <2>6. selPage \in {"users", "events"} =>
           \A a, b \in asked' : /\ a.part = "years" => b.part \notin {"rows", "save"}
                                /\ a.part = "years" /\ b.part = "years" => a = b
    <3> SUFFICES ASSUME selPage \in {"users", "events"}, NEW a \in asked', NEW b \in asked',
                        a.part = "years"
                 PROVE  b.part \notin {"rows", "save"} /\ (b.part = "years" => a = b)
      OBVIOUS
    <3>1. b.part = "years" => a = b
      BY <2>1 DEF Request
    <3>2. b.part # "rows"
      BY <2>1 DEF Changed, Depends, Gate, MaySelect
    <3> QED
      BY <3>1, <3>2, <2>5
  <2>7. selPage = "users" /\ (\E r \in asked' : r.part = "years") => new.class = Nothing
    BY <2>1 DEF Changed, Depends, Gate, MaySelect
  <2> QED
    BY <1>2, <1>4, <2>1, <2>2, <2>3, <2>4, <2>5, <2>6, <2>7 DEF InStep, IsAsked, Gate
<1> QED
  BY <1>5, <1>6, <1>7, <1>8, <1>9, <1>10, <1>11, <1>12 DEF SelectionsInv

(* The ways to select.                                                      *)
LEMMA ReaderSelects ==
    ASSUME SelectionsInv, NEW s \in Schools \cup {Nothing}, NEW c \in Classes \cup {Nothing},
           NEW p \in 1..MaxPage, NEW t \in Terms,
           SelectSchool(s) \/ Navigate(s) \/ SelectClass(c) \/ SelectPage(p) \/ SelectTerm(t)
    PROVE  SelectionsInv'
<1> USE SelectionsAssumption DEF UserPages, PageNames
<1>0. sel \in Selection /\ SelectionsTypeOK
  BY DEF SelectionsInv, SelectionsTypeOK
<1>1. CASE SelectSchool(s)
  <2>1. CASE selPage \in {"users", "join"} /\ step = "school"
                /\ Selects([sel EXCEPT !.school = s, !.class = Nothing])
    <3> DEFINE new == [sel EXCEPT !.school = s, !.class = Nothing]
    <3>1. new \in Selection /\ new.class = Nothing
      BY <1>0 DEF Selection
    <3>2. MaySelect(new)
      BY <2>1, <3>1 DEF MaySelect
    <3>3. Selects(new)
      BY <2>1
    <3> HIDE DEF new
    <3> QED
      BY <3>1, <3>2, <3>3, SelectsAny
  <2>2. CASE selPage = "events" /\ Selects(Without([sel EXCEPT !.school = s]))
    <3> DEFINE new == Without([sel EXCEPT !.school = s])
    <3>1. /\ new \in Selection /\ new.school = s /\ new.page = sel.page /\ new.term = sel.term
          /\ new.class = IF s = Nothing THEN Nothing ELSE sel.class
      BY <1>0 DEF Selection, Without
    <3>2. Selects(new) /\ new # sel
      BY <2>2 DEF Selects
    <3> HIDE DEF new
    <3>3. s = sel.school => s = Nothing
      BY <1>0, <3>1, <3>2 DEF Selection
    <3>4. MaySelect(new)
      BY <2>2, <3>1, <3>3 DEF MaySelect
    <3> QED
      BY <3>1, <3>2, <3>4, SelectsAny
  <2>3. CASE selPage = "classes" /\ Selects([sel EXCEPT !.school = s])
    <3> DEFINE new == [sel EXCEPT !.school = s]
    <3>1. new \in Selection /\ new.class = sel.class
      BY <1>0 DEF Selection
    <3>2. Selects(new) /\ new.class = Nothing
      BY <2>3, <3>1 DEF SelectionsInv, ClassSound
    <3> HIDE DEF new
    <3>3. MaySelect(new)
      BY <2>3, <3>2 DEF MaySelect
    <3> QED
      BY <3>1, <3>2, <3>3, SelectsAny
  <2> QED
    BY <1>1, <2>1, <2>2, <2>3 DEF SelectSchool
<1>2. CASE Navigate(s)
  <2> DEFINE new == [sel EXCEPT !.school = s]
  <2>1. new \in Selection /\ new.class = sel.class /\ new.school = s
    BY <1>0 DEF Selection
  <2>2. Selects(new) /\ new.class = Nothing /\ s # Nothing /\ selPage \in UserPages
    BY <1>2, <2>1 DEF Navigate, SelectionsInv, ClassSound
  <2> HIDE DEF new
  <2>3. MaySelect(new)
    BY <2>1, <2>2 DEF MaySelect
  <2> QED
    BY <2>1, <2>2, <2>3, SelectsAny
<1>3. CASE SelectClass(c)
  <2>1. smooth /\ asked = {} /\ sel.school # Nothing /\ selPage \in {"users", "events", "join"} =>
        YearsListed = Linked[sel.school]
    <3> SUFFICES ASSUME smooth, asked = {}, sel.school # Nothing,
                        selPage \in {"users", "events", "join"}
                 PROVE  YearsListed = Linked[sel.school]
      OBVIOUS
    <3>1. "years" \in PartsOf /\ Gate("years") = "school"
      BY PartsFacts, PageFacts DEF Gate
    <3>2. shown["years"] = KeyOf("years", sel)
      BY <3>1 DEF SelectionsInv, InStep, Matches
    <3>3. shown["years"] \in Selection /\ shown["years"].school = sel.school
      BY <3>2, <1>0, KeyFacts
    <3> QED
      BY <3>3 DEF YearsListed
  <2>2. PICK new \in Selection : /\ Selects(new) /\ new.school = sel.school /\ new.class = c
                                 /\ c \in YearsListed \cup {Nothing}
                                 /\ selPage \in {"users", "events", "join"}
                                 /\ sel.school # Nothing /\ (selPage = "join" => step = "school")
    <3>1. CASE selPage = "users" /\ Selects([sel EXCEPT !.class = c, !.page = 1])
      <4> DEFINE new == [sel EXCEPT !.class = c, !.page = 1]
      <4>0. 1 \in 0..MaxPage
        OBVIOUS
      <4>1. new \in Selection /\ new.school = sel.school /\ new.class = c
        BY <1>0, <4>0 DEF Selection
      <4> QED
        BY <3>1, <1>3, <4>1 DEF SelectClass
    <3>2. CASE selPage \in {"events", "join"} /\ Selects([sel EXCEPT !.class = c])
      <4> DEFINE new == [sel EXCEPT !.class = c]
      <4>1. new \in Selection /\ new.school = sel.school /\ new.class = c
        BY <1>0 DEF Selection
      <4> QED
        BY <3>2, <1>3, <4>1 DEF SelectClass
    <3> QED
      BY <1>3, <3>1, <3>2 DEF SelectClass
  <2>3. MaySelect(new)
    BY <2>1, <2>2 DEF MaySelect
  <2> QED
    BY <2>2, <2>3, SelectsAny
<1>4. CASE SelectPage(p) \/ SelectTerm(t)
  <2>1. PICK new \in Selection : /\ Selects(new) /\ new.school = sel.school /\ new.class = sel.class
                                 /\ selPage \in {"users", "photos"}
    <3>1. CASE SelectPage(p)
      <4> DEFINE new == [sel EXCEPT !.page = p]
      <4>0. p \in 0..MaxPage
        OBVIOUS
      <4>1. new \in Selection /\ new.school = sel.school /\ new.class = sel.class
        BY <1>0, <4>0 DEF Selection
      <4> QED
        BY <3>1, <4>1 DEF SelectPage
    <3>2. CASE SelectTerm(t)
      <4> DEFINE new == [sel EXCEPT !.term = t, !.page = 1]
      <4>0. t \in 0..2 /\ 1 \in 0..MaxPage
        BY DEF Terms
      <4>1. new \in Selection /\ new.school = sel.school /\ new.class = sel.class
        BY <1>0, <4>0 DEF Selection
      <4> QED
        BY <3>2, <4>1 DEF SelectTerm
    <3> QED
      BY <1>4, <3>1, <3>2
  <2>2. MaySelect(new)
    BY <2>1 DEF MaySelect, SelectionsInv, ClassSound, IsAsked
  <2> QED
    BY <2>1, <2>2, SelectsAny
<1> QED
  BY <1>1, <1>2, <1>3, <1>4

(* What depends on the page alone stays with it.                            *)
LEMMA SamePage ==
    ASSUME selPage' = selPage
    PROVE  /\ EffectsOf' = EffectsOf /\ Flagged' = Flagged /\ PartsOf' = PartsOf
           /\ \A part : /\ AwaitedBy(part)' = AwaitedBy(part) /\ (MayAsk(part)' <=> MayAsk(part))
                        /\ sel' = sel => KeyOf(part, sel)' = KeyOf(part, sel)
  BY DEF EffectsOf, Flagged, PartsOf, AwaitedBy, MayAsk, KeyOf

(* A change of the rows is sent.                                            *)
LEMMA SaveAsked ==
    ASSUME SelectionsInv, Save
    PROVE  SelectionsInv'
<1> USE SelectionsAssumption DEF UserPages, PageNames
<1> DEFINE new == [part |-> "save", key |-> sel, by |-> moves + 1]
<1>1. /\ asked' = asked \cup {new} /\ smooth' = (smooth /\ asked = {}) /\ moves' = moves + 1
      /\ UNCHANGED <<selPage, sel, shown, waits, pending, saved, step, many, wanted>>
  BY DEF Save, Moves
<1>2. new \in Request /\ new.part = "save" /\ new.key = sel
  BY DEF Request, SelectionsInv, SelectionsTypeOK
<1> HIDE DEF new
<1>3. selPage \in {"users", "events", "ownEvents"} \cup UserPages /\ selPage # Nothing
  BY DEF Save
<1>4. SelectionsTypeOK'
  BY <1>1, <1>2 DEF SelectionsInv, SelectionsTypeOK
<1>5. AskedSound'
  BY <1>1, <1>2, <1>3, SamePage DEF SelectionsInv, AskedSound, MayAsk
<1>6. WaitsSound'
  BY <1>1, SamePage DEF SelectionsInv, WaitsSound
<1>7. PhotosSound' /\ JoinSound'
  BY <1>1, <1>3 DEF SelectionsInv, PhotosSound, JoinSound
<1>8. ClassSound' /\ RestoreSound'
  BY <1>1, <1>2 DEF SelectionsInv, ClassSound, RestoreSound, IsAsked
<1>9. InStep'
  <2> SUFFICES ASSUME smooth, asked = {}
               PROVE  InStep'
    BY <1>1 DEF InStep
  <2>1. \A r \in asked' : r.part = "save" /\ r.key = sel /\ r.part \notin Parts
    BY <1>1, <1>2 DEF Parts
  <2>2. \A p \in PartsOf : sel[Gate(p)] # Nothing => Matches(p)'
    BY <1>1, <1>3, SamePage DEF SelectionsInv, InStep, Matches
  <2> QED
    BY <1>1, <2>1, <2>2, SamePage DEF InStep, IsAsked
<1> QED
  BY <1>4, <1>5, <1>6, <1>7, <1>8, <1>9 DEF SelectionsInv

(* The users' page is left and come back to.                                *)
LEMMA LeftAndReturned ==
    ASSUME SelectionsInv, LeaveAndReturn
    PROVE  SelectionsInv'
<1> USE SelectionsAssumption DEF UserPages, PageNames, LeaveAndReturn
<1> DEFINE back == [saved EXCEPT !.class = Nothing]
           new == [part |-> "years", key |-> KeyOf("years", back), by |-> moves + 1]
<1>1. /\ sel' = back /\ saved' = back /\ moves' = moves + 1
      /\ asked' = IF back.school = Nothing THEN {} ELSE {new}
  BY DEF Moves
<1>2. saved = sel /\ saved \in Selection /\ selPage = "users" /\ selPage # Nothing
  BY DEF SelectionsInv, RestoreSound, SelectionsTypeOK
<1>3. back \in Selection /\ back.class = Nothing /\ back.school = sel.school
      /\ saved = [back EXCEPT !.class = saved.class]
  BY <1>2 DEF Selection
<1>4. KeyOf("years", back) \in Selection /\ KeyOf("years", back).school = back.school
  <2>1. KeyOf("years", back) = [school |-> back.school, class |-> Nothing, page |-> 0, term |-> 0]
        /\ KeyOf("years", back) \in Selection
    BY <1>3, KeyFacts
  <2> QED
    BY <2>1
<1>5. moves \in Nat /\ moves' \in Nat
  BY <1>1 DEF SelectionsInv, SelectionsTypeOK
<1>6. new \in Request /\ new.part = "years" /\ new.key = KeyOf("years", back)
  BY <1>4, <1>5 DEF Request, Parts
<1> HIDE DEF new, back
<1>7. shown' \in [Parts -> Selection \cup {Nothing}]
  OBVIOUS
<1>8. pending' \in Classes \cup {Nothing} /\ smooth' \in BOOLEAN
  BY <1>2 DEF Selection, SelectionsInv, SelectionsTypeOK
<1>9. step = "school" /\ ~many
  BY <1>2 DEF SelectionsInv, JoinSound
<1>10. SelectionsTypeOK'
  BY <1>1, <1>2, <1>3, <1>5, <1>6, <1>7, <1>8, <1>9 DEF SelectionsInv, SelectionsTypeOK
<1>11. AskedSound'
  BY <1>1, <1>2, <1>3, <1>4, <1>6 DEF AskedSound, MayAsk, Selection
<1>12. WaitsSound' /\ PhotosSound' /\ JoinSound'
  BY <1>2, <1>9 DEF WaitsSound, PhotosSound, JoinSound
<1>13. ClassSound'
  BY <1>1, <1>2, <1>3 DEF ClassSound
<1>14. smooth' => asked = {} /\ smooth /\ pending = Nothing /\ sel = wanted
  BY <1>2 DEF SelectionsInv, RestoreSound, IsAsked
<1>15. RestoreSound'
  <2>1. smooth' /\ pending' # Nothing => sel.school # Nothing /\ sel.class \in Linked[sel.school]
    BY <1>14, <1>2 DEF SelectionsInv, ClassSound, IsAsked
  <2>2. pending' = Nothing => back = saved
    BY <1>2, <1>3 DEF Selection
  <2> QED
    BY <1>1, <1>2, <1>3, <1>6, <1>14, <2>1, <2>2 DEF RestoreSound, IsAsked
<1>16. InStep'
  <2>1. PartsOf' = {"years", "rows"} /\ Gate("years") = "school" /\ Gate("rows") = "class"
        /\ KeyOf("years", sel)' = KeyOf("years", back) /\ "years" \in Before("years")
    BY <1>1, <1>2, PartsFacts, PageFacts, SamePage DEF Gate, Before, KeyOf
  <2>2. \A r \in asked' : r = new
    BY <1>1
  <2>3. \A p \in PartsOf' : sel'[Gate(p)] # Nothing => \E r \in asked' : r.part \in Before(p)
    BY <1>1, <1>3, <1>6, <2>1
  <2> QED
    BY <1>1, <1>2, <1>3, <1>6, <2>1, <2>2, <2>3 DEF InStep, IsAsked, Gate
<1> QED
  BY <1>10, <1>11, <1>12, <1>13, <1>15, <1>16 DEF SelectionsInv

(* What a page shows is asked for by it.                                    *)
LEMMA PartsArePageParts ==
    ASSUME SelectionsTypeOK, selPage # Nothing
    PROVE  selPage \in PageNames /\ PartsOf \subseteq Parts
<1>1. selPage \in PageNames
  BY SelectionsAssumption DEF SelectionsTypeOK
<1>2. CASE selPage \in UserPages
  BY <1>1, <1>2, PartsFacts DEF Parts, UserPages
<1>3. CASE selPage \notin UserPages
  BY <1>1, <1>3, PartsFacts, PageFacts DEF Parts, UserPages, PageNames
<1> QED
  BY <1>1, <1>2, <1>3

(* The steps of joining.                                                    *)
LEMMA JoinGoesOn ==
    ASSUME SelectionsInv, Continue \/ Search \/ ChooseMatch \/ Claim \/ Back
    PROVE  SelectionsInv'
<1> USE SelectionsAssumption DEF UserPages, PageNames
<1>1. /\ selPage = "join" /\ selPage # Nothing
      /\ UNCHANGED <<selPage, sel, waits, pending, saved, wanted, smooth>>
  BY DEF Continue, Search, ChooseMatch, Claim, Back, Joining
<1>2. PICK new \in Request :
         /\ asked' = asked \cup {new} \/ asked' = asked
         /\ \/ new.part = "rows" /\ new.key = KeyOf("rows", sel)
            \/ new.part = "claim"
  <2>0. sel \in Selection /\ moves \in Nat /\ KeyOf("rows", sel) \in Selection
    BY KeyFacts DEF SelectionsInv, SelectionsTypeOK
  <2> DEFINE rows == [part |-> "rows", key |-> KeyOf("rows", sel), by |-> moves + 1]
             claim == [part |-> "claim", key |-> shown["chosen"], by |-> moves + 1]
  <2>1. rows \in Request
    BY <2>0 DEF Request, Parts
  <2>2. CASE Claim
    <3>1. shown["chosen"] \in Selection
      BY <2>2 DEF Claim, SelectionsInv, SelectionsTypeOK, Parts
    <3>2. claim \in Request
      BY <3>1, <2>0 DEF Request
    <3> QED
      BY <3>2, <2>2 DEF Claim, Moves
  <2>3. CASE Search
    BY <2>3, <2>1 DEF Search, Moves
  <2>4. CASE Continue \/ ChooseMatch \/ Back
    BY <2>4, <2>1 DEF Continue, ChooseMatch, Back
  <2> QED
    BY <2>2, <2>3, <2>4
<1>3. /\ shown' \in [Parts -> Selection \cup {Nothing}] /\ moves' \in Nat
      /\ \A p \in Parts : p # "chosen" => shown'[p] = shown[p]
      /\ step' = "claim" => shown'["chosen"] # Nothing
      /\ step' \in {"school", "search", "results", "claim"} /\ many' \in BOOLEAN
  <2>1. CASE Continue \/ Search \/ Claim
    BY <2>1 DEF Continue, Search, Claim, Moves, SelectionsInv, SelectionsTypeOK
  <2>2. CASE ChooseMatch
    BY <2>2 DEF ChooseMatch, SelectionsInv, SelectionsTypeOK, JoinSound, Parts
  <2>3. CASE Back
    BY <2>3 DEF Back, SelectionsInv, SelectionsTypeOK, JoinSound
  <2> QED
    BY <2>1, <2>2, <2>3
<1>4. SelectionsTypeOK'
  BY <1>1, <1>2, <1>3 DEF SelectionsInv, SelectionsTypeOK
<1>5. AskedSound'
  BY <1>1, <1>2, SamePage DEF SelectionsInv, AskedSound, MayAsk
<1>6. WaitsSound'
  BY <1>1, <1>2, SamePage DEF SelectionsInv, WaitsSound
<1>7. PhotosSound' /\ RestoreSound'
  BY <1>1 DEF PhotosSound, RestoreSound
<1>8. JoinSound'
  <2>1. CASE Continue \/ Search \/ Claim
    BY <2>1, <1>1 DEF Continue, Search, Claim, SelectionsInv, JoinSound
  <2>2. CASE ChooseMatch
    BY <2>2, <1>1, <1>3 DEF ChooseMatch, SelectionsInv, SelectionsTypeOK, JoinSound, Parts
  <2>3. CASE Back
    BY <2>3, <1>1 DEF Back, SelectionsInv, SelectionsTypeOK, JoinSound
  <2> QED
    BY <2>1, <2>2, <2>3
<1>9. ClassSound'
  BY <1>1, <1>2 DEF SelectionsInv, ClassSound, IsAsked
<1>10. InStep'
  <2> SUFFICES ASSUME smooth
               PROVE  InStep'
    BY <1>1 DEF InStep
  <2>1. \A r \in asked' : /\ r.part \in Parts => r.key = KeyOf(r.part, sel)
                          /\ r.part = "save" => r.key = sel
    BY <1>1, <1>2 DEF SelectionsInv, InStep, Parts
  <2>2. PartsOf = {"years"} /\ "years" \in Parts
    BY <1>1, PartsFacts, PageFacts DEF Parts
  <2>3. \A p \in PartsOf : sel[Gate(p)] # Nothing => Matches(p)' \/ \E r \in asked' : r.part \in Before(p)
    BY <1>1, <1>2, <1>3, <2>2, SamePage DEF SelectionsInv, InStep, Matches
  <2> QED
    BY <1>1, <2>1, <2>2, <2>3, SamePage DEF InStep, IsAsked
<1> QED
  BY <1>4, <1>5, <1>6, <1>7, <1>8, <1>9, <1>10 DEF SelectionsInv

(* The rows, the photos or the zone come.                                   *)
LEMMA RowsCome ==
    ASSUME SelectionsInv, NEW r \in asked, RowsAnswered(r)
    PROVE  SelectionsInv'
<1> USE SelectionsAssumption DEF UserPages, PageNames, RowsAnswered, Rest, Shows, Over, AnswerOnly, SameStep
<1>1. r \in Request /\ r.key \in Selection /\ r.part \in Parts /\ MayAsk(r.part) /\ selPage # Nothing
  BY DEF SelectionsInv, SelectionsTypeOK, Request, AskedSound, Parts
<1>2. /\ asked' = asked \ {r} /\ waits' = waits \ {r.part}
      /\ \A p \in Parts : shown'[p] = IF p = r.part THEN r.key ELSE shown[p]
      /\ shown' \in [Parts -> Selection \cup {Nothing}]
      /\ UNCHANGED <<selPage, sel, pending, saved, moves, wanted, smooth, step, many>>
  BY <1>1 DEF SelectionsInv, SelectionsTypeOK
<1>3. step = "school" /\ ~many
  BY <1>1 DEF SelectionsInv, JoinSound
<1>4. SelectionsTypeOK'
  BY <1>2, <1>3 DEF SelectionsInv, SelectionsTypeOK
<1>5. AskedSound'
  BY <1>2, SamePage DEF SelectionsInv, AskedSound
<1>6. WaitsSound'
  <2> SUFFICES ASSUME NEW p \in waits, p # r.part
               PROVE  p \in Flagged /\ \E q \in asked \ {r} : q.part \in AwaitedBy(p)
    BY <1>2, SamePage DEF WaitsSound
  <2>1. p \in Flagged /\ \E q \in asked : q.part \in AwaitedBy(p)
    BY <1>1 DEF SelectionsInv, WaitsSound
  <2>2. r.part \notin AwaitedBy(p)
    BY <2>1, <1>1, PageFacts DEF AwaitedBy
  <2> QED
    BY <2>1, <2>2
<1>7. PhotosSound'
  <2> SUFFICES ASSUME selPage = "photos"
               PROVE  PhotosSound'
    BY <1>2 DEF PhotosSound
  <2>1. r.part = "rows" /\ r.key = KeyOf("rows", sel) /\ sel.class # Nothing
    BY <1>1 DEF MayAsk, SelectionsInv, PhotosSound
  <2> QED
    BY <1>2, <2>1, SamePage DEF SelectionsInv, PhotosSound, PhotosAreCurrent, IsAsked, Parts
<1>8. JoinSound'
  BY <1>2, <1>3 DEF SelectionsInv, JoinSound
<1>9. ClassSound' /\ RestoreSound'
  BY <1>2 DEF SelectionsInv, ClassSound, RestoreSound, IsAsked
<1>10. InStep'
  <2> SUFFICES ASSUME smooth
               PROVE  InStep'
    BY <1>2 DEF InStep
  <2>1. r.key = KeyOf(r.part, sel)
    BY <1>1 DEF SelectionsInv, InStep
  <2>2. \A p \in PartsOf : sel[Gate(p)] # Nothing =>
           Matches(p)' \/ \E q \in asked' : q.part \in Before(p)
    <3> SUFFICES ASSUME NEW p \in PartsOf, sel[Gate(p)] # Nothing
                 PROVE  Matches(p)' \/ \E q \in asked' : q.part \in Before(p)
      OBVIOUS
    <3>1. p \in Parts
      BY <1>1, PartsArePageParts DEF SelectionsInv
    <3>2. Matches(p) \/ \E q \in asked : q.part \in Before(p)
      BY <1>1 DEF SelectionsInv, InStep
    <3>3. CASE p = r.part
      <4>1. shown'[p] = KeyOf(p, sel) /\ KeyOf(p, sel) # Nothing
        BY <1>1, <1>2, <2>1, <3>1, <3>3
      <4>2. selPage = "events" /\ p = "rows" => shown'[p].class = sel.class
        BY <4>1, KeyFacts DEF SelectionsInv, SelectionsTypeOK
      <4> QED
        BY <4>1, <4>2, <1>2, SamePage DEF Matches
    <3>4. CASE p # r.part
      <4>1. r.part \notin Before(p)
        BY <3>4, <1>1, PartsFacts, PageFacts DEF Before, MayAsk
      <4> QED
        BY <3>1, <3>2, <3>4, <4>1, <1>2, SamePage DEF Matches
    <3> QED
      BY <3>3, <3>4
  <2> QED
    BY <1>2, <2>2, SamePage DEF SelectionsInv, InStep, IsAsked
<1> QED
  BY <1>4, <1>5, <1>6, <1>7, <1>8, <1>9, <1>10 DEF SelectionsInv

(* A request that is out is of its kind.                                    *)
LEMMA RequestFacts ==
    ASSUME SelectionsInv, NEW r \in asked
    PROVE  /\ r \in Request /\ r.key \in Selection /\ r.part \in Parts \cup {"own", "save", "claim"}
           /\ r.by \in Nat /\ MayAsk(r.part) /\ selPage # Nothing /\ selPage \in PageNames
           /\ r.key # Nothing /\ shown \in [Parts -> Selection \cup {Nothing}]
  BY SelectionsAssumption DEF SelectionsInv, SelectionsTypeOK, Request, AskedSound

(* The people of a class are found, one or many.                            *)
LEMMA PeopleFound ==
    ASSUME SelectionsInv, NEW r \in asked, NEW n \in 0..2, Found(r, n)
    PROVE  SelectionsInv'
<1> USE SelectionsAssumption DEF UserPages, PageNames
<1>1. /\ r \in Request /\ r.key \in Selection /\ r.key # Nothing
      /\ shown \in [Parts -> Selection \cup {Nothing}]
  BY RequestFacts
<1>2. /\ selPage = "join" /\ r.part = "rows" /\ asked' = asked \ {r} /\ many' = (n > 1)
      /\ shown' \in [Parts -> Selection \cup {Nothing}]
      /\ \A p \in Parts : shown'[p] = IF p = "rows" \/ (p = "chosen" /\ n = 1) THEN r.key ELSE shown[p]
      /\ (n = 0 /\ step' = step) \/ (n = 1 /\ step' = "claim") \/ (n = 2 /\ step' = "results")
      /\ UNCHANGED <<selPage, sel, waits, pending, saved, moves, wanted, smooth>>
  BY <1>1 DEF Found, Rest, Shows, AnswerOnly, Parts
<1>3. SelectionsTypeOK'
  <2>1. step' = "claim" => shown'["chosen"] # Nothing
    BY <1>1, <1>2 DEF SelectionsInv, SelectionsTypeOK, Parts
  <2> QED
    BY <1>2, <2>1 DEF SelectionsInv, SelectionsTypeOK
<1>4. AskedSound'
  BY <1>2, SamePage DEF SelectionsInv, AskedSound
<1>5. WaitsSound'
  BY <1>2, SamePage, PageFacts DEF SelectionsInv, WaitsSound, AwaitedBy
<1>6. PhotosSound' /\ RestoreSound'
  BY <1>2 DEF PhotosSound, RestoreSound
<1>7. JoinSound'
  <2>1. smooth => r.key.class = sel.class
    BY <1>1, <1>2, KeyFacts DEF SelectionsInv, SelectionsTypeOK, InStep, Parts
  <2>2. /\ shown'["rows"] = r.key
        /\ shown'["chosen"] = IF n = 1 THEN r.key ELSE shown["chosen"]
    BY <1>2 DEF Parts
  <2>3. smooth /\ step' = "claim" => shown'["chosen"].class = sel.class
    <3>1. CASE n = 1
      BY <3>1, <2>1, <2>2
    <3>2. CASE n # 1
      BY <3>2, <1>2, <2>2 DEF SelectionsInv, JoinSound
    <3> QED
      BY <3>1, <3>2
  <2>4. many' => step' = "results"
    <3>1. ASSUME n # 2
          PROVE  ~many'
      <4>1. ~(n > 1)
        BY <3>1
      <4> QED
        BY <4>1 DEF Found
    <3> QED
      BY <1>2, <3>1
  <2> QED
    BY <1>1, <1>2, <2>1, <2>2, <2>3, <2>4 DEF JoinSound
<1>8. ClassSound'
  BY <1>2 DEF SelectionsInv, ClassSound, IsAsked
<1>9. InStep'
  <2>1. PartsOf = {"years"} /\ "years" \in Parts /\ Before("years") = {"years"}
    BY <1>2, PartsFacts, PageFacts DEF Parts, Before
  <2>2. smooth => \A p \in PartsOf : sel[Gate(p)] # Nothing =>
                     Matches(p)' \/ \E q \in asked' : q.part \in Before(p)
    BY <1>2, <2>1, SamePage DEF SelectionsInv, InStep, Matches
  <2> QED
    BY <1>2, <2>2, SamePage DEF SelectionsInv, InStep, IsAsked
<1> QED
  BY <1>3, <1>4, <1>5, <1>6, <1>7, <1>8, <1>9 DEF SelectionsInv

(* An account is claimed.                                                   *)
LEMMA AccountClaimed ==
    ASSUME SelectionsInv, NEW r \in asked, Claimed(r)
    PROVE  SelectionsInv'
<1> USE SelectionsAssumption DEF UserPages, PageNames, Claimed, SameStep
<1>1. selPage = "join"
  BY RequestFacts DEF MayAsk, Parts
<1>2. SelectionsTypeOK'
  BY DEF SelectionsInv, SelectionsTypeOK
<1>3. AskedSound' /\ WaitsSound' /\ PhotosSound' /\ RestoreSound' /\ InStep'
  BY DEF AskedSound, WaitsSound, PhotosSound, RestoreSound, InStep
<1>4. JoinSound' /\ ClassSound'
  BY <1>1 DEF SelectionsInv, JoinSound, ClassSound, IsAsked
<1> QED
  BY <1>2, <1>3, <1>4 DEF SelectionsInv

(* A change is saved, and the rows are asked for again.                     *)
LEMMA ChangeSaved ==
    ASSUME SelectionsInv, NEW r \in asked, Saved(r)
    PROVE  SelectionsInv'
<1> USE SelectionsAssumption DEF UserPages, PageNames
<1> DEFINE part == IF selPage \in {"user", "profile"} THEN "profile" ELSE "rows"
           new  == [part |-> part, key |-> KeyOf(part, r.key), by |-> r.by]
<1>1. /\ r \in Request /\ r.key \in Selection /\ r.by \in Nat
      /\ r.part = "save" /\ selPage # Nothing
      /\ selPage \in {"users", "events", "ownEvents", "user", "profile"}
  BY RequestFacts DEF Saved, MayAsk, Parts
<1>2. /\ asked' = (asked \ {r}) \cup {new} /\ waits' = waits \cup {part}
      /\ UNCHANGED <<selPage, sel, shown, pending, saved, moves, wanted, smooth, step, many>>
  BY DEF Saved, Then, Rest, SameStep, AnswerOnly
<1>3. part \in Parts /\ MayAsk(part) /\ part \in {"rows", "profile"} /\ part \in Flagged
      /\ Before(part) = {"save", part} /\ part \in AwaitedBy(part)
  BY <1>1, PageFacts DEF Parts, MayAsk, Before, AwaitedBy
<1>4. new \in Request /\ new.part = part /\ new.key = KeyOf(part, r.key)
  BY <1>1, <1>3, KeyFacts DEF Request
<1>5. \A p : "save" \in Before(p) => part \in Before(p) \/ p \notin PartsOf
  BY <1>1, PartsFacts, PageFacts DEF Before
<1> HIDE DEF new, part
<1>6. SelectionsTypeOK'
  BY <1>2, <1>3, <1>4 DEF SelectionsInv, SelectionsTypeOK
<1>7. AskedSound'
  BY <1>1, <1>2, <1>3, <1>4, SamePage DEF SelectionsInv, AskedSound
<1>8. WaitsSound'
  <2>1. \A p : "save" \notin AwaitedBy(p)  \/ p = "save"
    BY DEF AwaitedBy
  <2>2. "save" \notin Flagged
    BY <1>1, PageFacts
  <2> QED
    BY <1>1, <1>2, <1>3, <1>4, <2>1, <2>2, SamePage DEF SelectionsInv, WaitsSound
<1>9. PhotosSound' /\ JoinSound'
  BY <1>1, <1>2 DEF SelectionsInv, PhotosSound, JoinSound
<1>10. ClassSound' /\ RestoreSound'
  BY <1>1, <1>2 DEF SelectionsInv, ClassSound, RestoreSound, IsAsked
<1>11. InStep'
  <2> SUFFICES ASSUME smooth
               PROVE  InStep'
    BY <1>2 DEF InStep
  <2>1. r.key = sel /\ new.key = KeyOf(part, sel)
    BY <1>1, <1>4 DEF SelectionsInv, InStep
  <2>2. \A q \in asked' : /\ q.part \in Parts => q.key = KeyOf(q.part, sel)
                          /\ q.part = "save" => q.key = sel
    <3> TAKE q \in asked'
    <3>1. CASE q = new
      BY <3>1, <1>3, <1>4, <2>1
    <3>2. CASE q \in asked
      BY <3>2, <1>1 DEF SelectionsInv, InStep
    <3> QED
      BY <1>2, <3>1, <3>2
  <2>3. \A p \in PartsOf : sel[Gate(p)] # Nothing =>
           Matches(p)' \/ \E q \in asked' : q.part \in Before(p)
    <3> SUFFICES ASSUME NEW p \in PartsOf, sel[Gate(p)] # Nothing
                 PROVE  Matches(p)' \/ \E q \in asked' : q.part \in Before(p)
      OBVIOUS
    <3>1. Matches(p) \/ \E q \in asked : q.part \in Before(p)
      BY <1>1 DEF SelectionsInv, InStep
    <3>2. Matches(p) => Matches(p)'
      BY <1>2, SamePage DEF Matches
    <3>3. (\E q \in asked : q.part \in Before(p)) => \E q \in asked' : q.part \in Before(p)
      BY <1>1, <1>2, <1>4, <1>5
    <3> QED
      BY <3>1, <3>2, <3>3
  <2>4. selPage \in {"users", "events"} =>
           /\ \A a, b \in asked' : /\ a.part = "years" => b.part \notin {"rows", "save"}
                                   /\ a.part = "years" /\ b.part = "years" => a = b
           /\ \A a \in asked' : a.part # "years"
    BY <1>1, <1>2, <1>3, <1>4 DEF SelectionsInv, InStep
  <2>5. selPage = "ownEvents" => ~IsAsked("own")'
    BY <1>1, <1>2, <1>3, <1>4 DEF SelectionsInv, InStep, IsAsked
  <2> QED
    BY <1>1, <1>2, <2>2, <2>3, <2>4, <2>5, SamePage DEF InStep, IsAsked
<1> QED
  BY <1>6, <1>7, <1>8, <1>9, <1>10, <1>11 DEF SelectionsInv

(* An answer after which a user's page may go on to its next part.          *)
LEMMA UserComes ==
    ASSUME SelectionsInv, NEW r \in asked, UserAnswered(r)
    PROVE  SelectionsInv'
<1> USE SelectionsAssumption DEF UserPages, PageNames
<1> DEFINE new == [part |-> After(r.part), key |-> r.key, by |-> r.by]
<1>1. /\ r \in Request /\ r.key \in Selection /\ r.by \in Nat /\ selPage # Nothing
      /\ selPage \in UserPages /\ (r.part = "class" => selPage = "profile")
      /\ r.part \in {"profile", "class", "gallery", "comments"} /\ r.part \in Parts
  BY RequestFacts DEF UserAnswered, MayAsk, Parts
<1>2. /\ \A p \in Parts : shown'[p] = IF p = r.part THEN r.key ELSE shown[p]
      /\ shown' \in [Parts -> Selection \cup {Nothing}]
      /\ UNCHANGED <<selPage, sel, pending, saved, moves, wanted, smooth, step, many>>
  BY <1>1, RequestFacts DEF UserAnswered, Shows, SameStep, AnswerOnly
<1>3. \/ r.part = "comments" /\ asked' = asked \ {r} /\ waits' = waits \ {"profile"}
      \/ r.part # "comments" /\ asked' = (asked \ {r}) \cup {new} /\ waits' = waits
  BY DEF UserAnswered, Then, Rest
<1>4. r.part # "comments" =>
         /\ After(r.part) = IF r.part = "profile"
                            THEN IF selPage = "profile" THEN "class" ELSE "gallery"
                            ELSE IF r.part = "class" THEN "gallery" ELSE "comments"
         /\ After(r.part) \in {"class", "gallery", "comments"} /\ After(r.part) \in Parts
         /\ MayAsk(After(r.part)) /\ After(r.part) \in AwaitedBy("profile")
  <2>1. r.part # "comments" =>
           After(r.part) = IF r.part = "profile"
                           THEN IF selPage = "profile" THEN "class" ELSE "gallery"
                           ELSE IF r.part = "class" THEN "gallery" ELSE "comments"
    BY <1>1 DEF After
  <2> QED
    BY <1>1, <2>1 DEF Parts, MayAsk, AwaitedBy
<1>5. r.part # "comments" => new \in Request
  BY <1>1, <1>4 DEF Request
<1>6. new.part = After(r.part) /\ new.key = r.key
  OBVIOUS
<1> HIDE DEF new
<1>7. step = "school" /\ ~many
  BY <1>1 DEF SelectionsInv, JoinSound
<1>8. SelectionsTypeOK'
  BY <1>2, <1>3, <1>5, <1>7 DEF SelectionsInv, SelectionsTypeOK
<1>9. AskedSound'
  BY <1>1, <1>2, <1>3, <1>4, <1>6, SamePage DEF SelectionsInv, AskedSound
<1>10. WaitsSound'
  <2>1. Flagged = {"profile"}
    BY <1>1, PageFacts
  <2>2. CASE r.part = "comments"
    BY <1>1, <1>2, <1>3, <2>1, <2>2, SamePage DEF SelectionsInv, WaitsSound
  <2>3. CASE r.part # "comments"
    BY <1>1, <1>2, <1>3, <1>4, <1>6, <2>1, <2>3, SamePage DEF SelectionsInv, WaitsSound
  <2> QED
    BY <2>2, <2>3
<1>11. PhotosSound' /\ JoinSound' /\ RestoreSound'
  BY <1>1, <1>2, <1>7 DEF SelectionsInv, PhotosSound, JoinSound, RestoreSound
<1>12. ClassSound'
  BY <1>1, <1>2 DEF SelectionsInv, ClassSound
<1>13. InStep'
  <2> SUFFICES ASSUME smooth
               PROVE  InStep'
    BY <1>2 DEF InStep
  <2>1. \A p, q : p # "rows" /\ q # "rows" => KeyOf(p, sel) = KeyOf(q, sel)
    BY KeyFacts DEF SelectionsInv, SelectionsTypeOK
  <2>2. r.key = KeyOf(r.part, sel)
    BY <1>1 DEF SelectionsInv, InStep
  <2>3. r.part # "comments" => new.key = KeyOf(new.part, sel)
    BY <1>1, <1>4, <1>6, <2>1, <2>2
  <2>4. \A q \in asked' : /\ q.part \in Parts => q.key = KeyOf(q.part, sel)
                          /\ q.part = "save" => q.key = sel
    <3> TAKE q \in asked'
    <3>1. CASE q = new /\ r.part # "comments"
      BY <3>1, <1>4, <1>6, <2>3
    <3>2. CASE q \in asked
      BY <3>2, <1>1 DEF SelectionsInv, InStep
    <3> QED
      BY <1>3, <3>1, <3>2
  <2>5. \A p \in PartsOf : sel[Gate(p)] # Nothing =>
           Matches(p)' \/ \E q \in asked' : q.part \in Before(p)
    <3> SUFFICES ASSUME NEW p \in PartsOf, sel[Gate(p)] # Nothing
                 PROVE  Matches(p)' \/ \E q \in asked' : q.part \in Before(p)
      OBVIOUS
    <3>1. p \in Parts /\ p \in {"profile", "class", "gallery", "comments"}
          /\ (p = "class" => selPage = "profile")
      BY <1>1, PartsFacts DEF Parts
    <3>2. Matches(p) \/ \E q \in asked : q.part \in Before(p)
      BY <1>1 DEF SelectionsInv, InStep
    <3>3. CASE p = r.part
      BY <1>1, <1>2, <2>2, <3>1, <3>3, SamePage DEF Matches
    <3>4. CASE p # r.part /\ Matches(p)
      BY <1>1, <1>2, <3>1, <3>4, SamePage DEF Matches
    <3>5. CASE p # r.part /\ \E q \in asked : q.part \in Before(p)
      <4>1. r.part \in Before(p) => r.part # "comments" /\ After(r.part) \in Before(p)
        BY <1>1, <1>4, <3>1, <3>5 DEF Before
      <4> QED
        BY <1>3, <1>6, <3>5, <4>1
    <3> QED
      BY <3>2, <3>3, <3>4, <3>5
  <2> QED
    BY <1>1, <1>2, <2>4, <2>5, SamePage DEF InStep
<1> QED
  BY <1>8, <1>9, <1>10, <1>11, <1>12, <1>13 DEF SelectionsInv

(* A request fails: a list is emptied or kept.                              *)
LEMMA RequestFails ==
    ASSUME SelectionsInv, NEW r \in asked, Failed(r)
    PROVE  SelectionsInv'
<1> USE SelectionsAssumption DEF UserPages, PageNames
<1> DEFINE new == [part |-> "comments", key |-> r.key, by |-> r.by]
<1>1. /\ r \in Request /\ r.key \in Selection /\ r.by \in Nat /\ selPage # Nothing
      /\ MayAsk(r.part) /\ shown \in [Parts -> Selection \cup {Nothing}]
  BY RequestFacts
<1>2. /\ \A p \in Parts : shown'[p] = IF p \in Emptied(r) THEN Nothing ELSE shown[p]
      /\ shown' \in [Parts -> Selection \cup {Nothing}]
      /\ smooth' = FALSE
      /\ UNCHANGED <<selPage, sel, pending, saved, moves, wanted, step, many>>
  BY <1>1 DEF Failed, SameStep
<1>3. \/ r.part = "gallery" /\ asked' = (asked \ {r}) \cup {new} /\ waits' = waits
      \/ r.part # "gallery" /\ asked' = asked \ {r} /\ waits' \subseteq waits
         /\ (r.part = "own" => waits' = {})
         /\ (r.part \in {"profile", "class", "comments"} => "profile" \notin waits')
         /\ r.part \notin waits'
  <2>1. CASE r.part = "gallery"
    BY <2>1 DEF Failed, Then, Rest
  <2>2. CASE r.part = "own"
    BY <2>2 DEF Failed, Rest
  <2>3. CASE r.part \in {"profile", "class", "comments"}
    <3>1. waits' = waits \ {"profile"} /\ asked' = asked \ {r}
      BY <2>3 DEF Failed, Rest
    <3>2. waits \subseteq {"profile"}
      BY <1>1, <2>3, PageFacts DEF SelectionsInv, WaitsSound, MayAsk
    <3> QED
      BY <2>3, <3>1, <3>2
  <2>4. CASE r.part \notin {"gallery", "own", "profile", "class", "comments"}
    BY <2>4 DEF Failed, Rest, Over
  <2> QED
    BY <2>1, <2>2, <2>3, <2>4
<1>4. new \in Request /\ new.part = "comments"
  BY <1>1 DEF Request, Parts
<1> HIDE DEF new
<1>5. "chosen" \notin Emptied(r) /\ (selPage = "join" => "rows" \notin Emptied(r))
      /\ (selPage = "photos" /\ r.part = "rows" => "rows" \in Emptied(r))
  BY <1>1 DEF Emptied, MayAsk
<1>6. SelectionsTypeOK'
  BY <1>2, <1>3, <1>4, <1>5 DEF SelectionsInv, SelectionsTypeOK, Parts
<1>7. AskedSound'
  <2>1. r.part = "gallery" => MayAsk("comments")
    BY <1>1 DEF MayAsk
  <2> QED
    BY <1>1, <1>2, <1>3, <1>4, <2>1, SamePage DEF SelectionsInv, AskedSound
<1>8. WaitsSound'
  <2> SUFFICES ASSUME NEW p \in waits'
               PROVE  p \in Flagged /\ \E q \in asked' : q.part \in AwaitedBy(p)
    BY <1>2, SamePage DEF WaitsSound
  <2>1. p \in waits /\ p \in Flagged /\ \E q \in asked : q.part \in AwaitedBy(p)
    BY <1>1, <1>3 DEF SelectionsInv, WaitsSound
  <2>2. CASE r.part = "gallery"
    <3>1. r.part \in AwaitedBy(p) => new.part \in AwaitedBy(p)
      BY <2>1, <2>2, <1>1, <1>4, PageFacts DEF AwaitedBy, MayAsk
    <3> QED
      BY <1>3, <2>1, <2>2, <3>1
  <2>3. CASE r.part # "gallery"
    <3>1. r.part \notin AwaitedBy(p)
      BY <1>3, <2>1, <2>3, <1>1, PageFacts DEF AwaitedBy, MayAsk
    <3> QED
      BY <1>3, <2>1, <2>3, <3>1
  <2> QED
    BY <2>2, <2>3
<1>9. PhotosSound'
  <2> SUFFICES ASSUME selPage = "photos"
               PROVE  PhotosSound'
    BY <1>2 DEF PhotosSound
  <2>1. r.part \in {"own", "rows"} /\ asked' = asked \ {r} /\ "rows" \in Parts
    BY <1>1, <1>3 DEF MayAsk, Parts
  <2>2. shown'["rows"] \in {shown["rows"], Nothing}
    BY <1>2, <2>1
  <2>3. CASE r.part = "own"
    BY <2>1, <2>2, <2>3, <1>2, SamePage DEF SelectionsInv, PhotosSound, PhotosAreCurrent, IsAsked
  <2>4. CASE r.part = "rows"
    BY <2>1, <2>4, <1>2, <1>5, SamePage DEF SelectionsInv, PhotosSound, PhotosAreCurrent, IsAsked
  <2> QED
    BY <2>1, <2>3, <2>4
<1>10. JoinSound'
  BY <1>1, <1>2, <1>5 DEF SelectionsInv, JoinSound, Parts
<1>11. ClassSound' /\ RestoreSound' /\ InStep'
  BY <1>2 DEF SelectionsInv, ClassSound, RestoreSound, InStep
<1> QED
  BY <1>6, <1>7, <1>8, <1>9, <1>10, <1>11 DEF SelectionsInv

(* The years come, and with them the class that is restored or proposed.    *)
LEMMA YearsCome ==
    ASSUME SelectionsInv, NEW r \in asked, YearsAnswered(r)
    PROVE  SelectionsInv'
<1> USE SelectionsAssumption DEF UserPages, PageNames
<1>1. /\ r \in Request /\ r.key \in Selection /\ r.key # Nothing /\ r.by \in Nat /\ selPage # Nothing
      /\ r.part = "years" /\ selPage \in {"users", "events", "classes", "join"}
      /\ r.key.school \in Schools /\ "years" \in Parts /\ "rows" \in Parts /\ "zone" \in Parts
      /\ shown \in [Parts -> Selection \cup {Nothing}] /\ sel \in Selection
      /\ pending \in Classes \cup {Nothing} /\ waits \subseteq Parts
  BY RequestFacts DEF YearsAnswered, MayAsk, Parts, SelectionsInv, AskedSound, SelectionsTypeOK
<1>2. PICK new \in Selection :
         /\ Settle(new, r.by, Rest(r), Shows(r), Over(r))
         /\ new.school = sel.school /\ new.page = sel.page /\ new.term = sel.term
         /\ selPage = "users" => new = Restored(r)
         /\ selPage = "users" => new.class = IF pending = Nothing THEN sel.class ELSE pending
         /\ selPage = "events" => new.class = Newest[r.key.school]
         /\ selPage \notin {"users", "events"} => new = sel
  <2> DEFINE n == CASE selPage = "users"  -> Restored(r)
                    [] selPage = "events" -> [sel EXCEPT !.class = Newest[r.key.school]]
                    [] OTHER              -> sel
  <2>1. Settle(n, r.by, Rest(r), Shows(r), Over(r))
    BY DEF YearsAnswered
  <2>2. CASE selPage = "users"
    <3>1. n = Restored(r)
      BY <2>2
    <3>2. /\ n \in Selection /\ n.school = sel.school /\ n.page = sel.page /\ n.term = sel.term
          /\ n.class = IF pending = Nothing THEN sel.class ELSE pending
      BY <3>1, <1>1 DEF Restored, Selection
    <3> QED
      BY <2>1, <2>2, <3>1, <3>2
  <2>3. CASE selPage = "events"
    <3>1. n = [sel EXCEPT !.class = Newest[r.key.school]] /\ Newest[r.key.school] \in Classes
      BY <2>3, <1>1
    <3>2. /\ n \in Selection /\ n.school = sel.school /\ n.page = sel.page /\ n.term = sel.term
          /\ n.class = Newest[r.key.school]
      BY <3>1, <1>1 DEF Selection
    <3> QED
      BY <2>1, <2>3, <3>2
  <2>4. CASE selPage \notin {"users", "events"}
    <3>1. n = sel
      BY <2>4
    <3> QED
      BY <2>1, <2>4, <3>1, <1>1
  <2> QED
    BY <2>2, <2>3, <2>4
<1>3. /\ pending' = Nothing
      /\ UNCHANGED <<selPage, moves, wanted, smooth, step, many>>
  BY DEF YearsAnswered, SameStep, AnswerOnly
<1>4. /\ Rest(r) = asked \ {r} /\ Over(r) = waits \ {"years"}
      /\ Rest(r) \in SUBSET asked /\ Over(r) \in SUBSET waits
      /\ Shows(r) \in [Parts -> Selection \cup {Nothing}]
      /\ \A p \in Parts : Shows(r)[p] = IF p = "years" THEN r.key ELSE shown[p]
  BY <1>1 DEF Rest, Over, Shows
<1>5. SelectionsTypeOK /\ selPage \in PageNames
  BY <1>1 DEF SelectionsInv
<1>6. \A p \in Parts : Changed(p, new) => p = "rows" /\ new.class # sel.class
  BY <1>1, <1>2 DEF Changed, Depends
<1>7. EffectsOf \subseteq Parts /\ (selPage \notin {"users", "events"} => "rows" \notin EffectsOf)
  BY <1>1, PageFacts
<1>8. /\ sel' = new /\ saved' = IF selPage = "users" THEN new ELSE saved
      /\ asked' \subseteq Request /\ shown' \in [Parts -> Selection \cup {Nothing}]
      /\ waits' \subseteq Parts
      /\ \A q \in asked' :
            \/ q \in asked \ {r}
            \/ /\ q.part = "rows" /\ selPage \in {"users", "events"}
               /\ new.class # sel.class /\ new.class # Nothing /\ q.key = KeyOf("rows", new)
      /\ asked \ {r} \subseteq asked'
      /\ selPage \in {"users", "events"} /\ new.class # sel.class /\ new.class # Nothing =>
            \E q \in asked' : q.part = "rows"
      /\ \A p \in waits' : \/ p \in waits \ {"years"}
                           \/ p \in Flagged /\ \E q \in asked' : q.part = p
      /\ \A p \in Parts : p # "rows" => shown'[p] = IF p = "years" THEN r.key ELSE shown[p]
      /\ new.class = sel.class \/ new.class # Nothing \/ selPage \in {"classes", "join"} =>
            shown'["rows"] = shown["rows"]
  <2>1. SettledTo(new, r.by, Rest(r), Shows(r), Over(r))
    BY <1>1, <1>2, <1>4, <1>5, SettleFacts
  <2>2. sel' = new /\ saved' = IF selPage = "users" THEN new ELSE saved
    BY <2>1 DEF SettledTo
  <2>3. /\ asked' \subseteq Request /\ shown' \in [Parts -> Selection \cup {Nothing}]
        /\ waits' \subseteq Parts
    BY <2>1 DEF SettledTo
  <2>4. \A q \in asked' :
           \/ q \in asked \ {r}
           \/ /\ q.part = "rows" /\ selPage \in {"users", "events"}
              /\ new.class # sel.class /\ new.class # Nothing /\ q.key = KeyOf("rows", new)
    BY <2>1, <1>1, <1>4, <1>6, <1>7 DEF SettledTo, Gate
  <2>5. asked \ {r} \subseteq asked'
    BY <2>1, <1>1, <1>4 DEF SettledTo
  <2>6. selPage \in {"users", "events"} /\ new.class # sel.class /\ new.class # Nothing =>
           \E q \in asked' : q.part = "rows"
    BY <2>1, PageFacts DEF SettledTo, Gate, Changed, Depends
  <2>7. \A p \in waits' : \/ p \in waits \ {"years"}
                          \/ p \in Flagged /\ \E q \in asked' : q.part = p
    BY <2>1, <1>4 DEF SettledTo
  <2>8. \A p \in Parts : p # "rows" => shown'[p] = IF p = "years" THEN r.key ELSE shown[p]
    BY <2>1, <1>4, <1>6 DEF SettledTo
  <2>9. new.class = sel.class \/ new.class # Nothing \/ selPage \in {"classes", "join"} =>
           shown'["rows"] = shown["rows"]
    BY <2>1, <1>1, <1>4, <1>6, <1>7 DEF SettledTo, Gate
  <2> QED
    BY <2>2, <2>3, <2>4, <2>5, <2>6, <2>7, <2>8, <2>9
<1>9. SelectionsTypeOK'
  <2>1. step = "claim" => shown'["chosen"] # Nothing
    BY <1>5, <1>8 DEF SelectionsTypeOK, Parts
  <2>2. new \in Selection /\ saved' \in Selection
    BY <1>5, <1>8 DEF SelectionsTypeOK
  <2> QED
    BY <1>3, <1>5, <1>8, <2>1, <2>2 DEF SelectionsTypeOK
<1>10. AskedSound'
  BY <1>1, <1>3, <1>8, SamePage DEF SelectionsInv, AskedSound, MayAsk
<1>11. WaitsSound'
  <2> SUFFICES ASSUME NEW p \in waits'
               PROVE  p \in Flagged /\ \E q \in asked' : q.part \in AwaitedBy(p)
    BY <1>3, SamePage DEF WaitsSound
  <2>1. CASE p \in Flagged /\ \E q \in asked' : q.part = p
    BY <2>1 DEF AwaitedBy
  <2>2. CASE p \in waits \ {"years"}
    <3>1. p \in Flagged /\ \E q \in asked : q.part \in AwaitedBy(p)
      BY <2>2, <1>1 DEF SelectionsInv, WaitsSound
    <3>2. r.part \notin AwaitedBy(p)
      BY <2>2, <1>1, <3>1, PageFacts DEF AwaitedBy
    <3> QED
      BY <3>1, <3>2, <1>8
  <2> QED
    BY <1>8, <2>1, <2>2
<1>12. PhotosSound'
  BY <1>1, <1>3 DEF PhotosSound
<1>13. JoinSound'
  <2>1. selPage = "join" => new = sel /\ shown'["rows"] = shown["rows"]
                            /\ shown'["chosen"] = shown["chosen"]
    BY <1>1, <1>2, <1>8 DEF Parts
  <2> QED
    BY <2>1, <1>1, <1>3, <1>8 DEF SelectionsInv, JoinSound
<1>14. smooth => r.key = KeyOf("years", sel) /\ r.key.school = sel.school
  BY <1>1, KeyFacts DEF SelectionsInv, InStep
<1>15. selPage = "users" /\ smooth =>
           IF pending = Nothing THEN sel = wanted /\ new = sel
           ELSE new = wanted /\ sel.school # Nothing /\ pending \in Linked[sel.school]
                /\ new.class = pending
  BY <1>2 DEF SelectionsInv, RestoreSound, Restored
<1>16. ClassSound'
  <2>1. smooth /\ new.school # Nothing /\ new.class # Nothing => new.class \in Linked[new.school]
    <3> SUFFICES ASSUME smooth, new.school # Nothing, new.class # Nothing
                 PROVE  new.class \in Linked[new.school]
      OBVIOUS
    <3>1. CASE selPage = "events"
      BY <3>1, <1>1, <1>2, <1>14
    <3>2. CASE selPage = "users" /\ pending # Nothing
      BY <3>2, <1>2, <1>15
    <3>3. CASE selPage # "events" /\ ~(selPage = "users" /\ pending # Nothing)
      BY <3>3, <1>1, <1>2, <1>15 DEF SelectionsInv, ClassSound
    <3> QED
      BY <3>1, <3>2, <3>3
  <2>2. selPage = "classes" => new.class = Nothing
    BY <1>2 DEF SelectionsInv, ClassSound
  <2>3. selPage \in {"users", "join"} /\ smooth /\ new.class # Nothing => new.school # Nothing
    BY <1>2, <1>15 DEF SelectionsInv, ClassSound
  <2> QED
    BY <1>1, <1>3, <1>8, <2>1, <2>2, <2>3 DEF ClassSound
<1>17. RestoreSound'
  BY <1>3, <1>8, <1>15 DEF RestoreSound
<1>18. InStep'
  <2> SUFFICES ASSUME smooth
               PROVE  InStep'
    BY <1>3 DEF InStep
  <2>0. \A part : KeyOf(part, sel)' = KeyOf(part, new)
    BY <1>3, <1>8 DEF KeyOf
  <2>1. \A part : part # "rows" \/ new = sel => KeyOf(part, new) = KeyOf(part, sel)
    BY <1>1, <1>2, KeyFacts
  <2>2. selPage \in {"users", "events"} =>
           \A q \in asked : q.part \notin {"rows", "save"} /\ (q.part = "years" => q = r)
    BY <1>1 DEF SelectionsInv, InStep
  <2>3. \A q \in asked' : /\ q.part \in Parts => q.key = KeyOf(q.part, new)
                          /\ q.part = "save" => q.key = new
    <3> TAKE q \in asked'
    <3>1. CASE q \in asked \ {r}
      BY <3>1, <2>1, <2>2, <1>1, <1>2 DEF SelectionsInv, InStep
    <3>2. CASE q.part = "rows" /\ q.key = KeyOf("rows", new)
      BY <3>2
    <3> QED
      BY <1>8, <3>1, <3>2
  <2>4. selPage \in {"users", "events"} => \A q \in asked' : q.part # "years"
    BY <2>2, <1>8
  <2>5. \A p \in PartsOf : new[Gate(p)] # Nothing =>
           Matches(p)' \/ \E q \in asked' : q.part \in Before(p)
    <3> SUFFICES ASSUME NEW p \in PartsOf, new[Gate(p)] # Nothing
                 PROVE  Matches(p)' \/ \E q \in asked' : q.part \in Before(p)
      OBVIOUS
    <3>1. p \in Parts /\ p \in {"years", "zone", "rows"}
          /\ (p = "rows" => selPage \in {"users", "events"})
      BY <1>1, PartsFacts, PageFacts
    <3>2. sel[Gate(p)] # Nothing => Matches(p) \/ \E q \in asked : q.part \in Before(p)
      BY <1>1 DEF SelectionsInv, InStep
    <3>3. CASE p = "years"
      BY <3>3, <2>0, <2>1, <1>1, <1>8, <1>14 DEF Matches
    <3>4. CASE p = "zone"
      <4>1. sel[Gate(p)] # Nothing /\ Before(p) = {"zone"} /\ shown'[p] = shown[p]
        BY <3>4, <1>1, <1>2, <1>8 DEF Gate, Before
      <4>2. CASE Matches(p)
        BY <4>1, <4>2, <3>4, <2>0, <2>1 DEF Matches
      <4>3. CASE \E q \in asked : q.part \in Before(p)
        BY <4>1, <4>3, <1>1, <1>8
      <4> QED
        BY <3>2, <4>1, <4>2, <4>3
    <3>5. CASE p = "rows" /\ new.class # sel.class
      BY <3>5, <3>1, <1>8 DEF Before, Gate
    <3>6. CASE p = "rows" /\ new.class = sel.class
      <4>1. Before(p) = {"save", "rows"} /\ Gate(p) = "class" /\ sel.class # Nothing
            /\ shown'["rows"] = shown["rows"]
        BY <3>6, <1>8 DEF Before, Gate
      <4>2. Matches(p)
        BY <4>1, <3>1, <3>2, <3>6, <2>2
      <4>3. selPage = "users" => KeyOf("rows", new) = KeyOf("rows", sel)
        BY <3>6, <1>1, <1>2, KeyFacts
      <4> QED
        BY <4>1, <4>2, <4>3, <3>1, <3>6, <2>0, <1>3, <1>8 DEF Matches
    <3> QED
      BY <3>1, <3>3, <3>4, <3>5, <3>6
  <2> QED
    BY <1>1, <1>3, <1>8, <2>0, <2>3, <2>4, <2>5, SamePage DEF InStep, IsAsked
<1> QED
  BY <1>9, <1>10, <1>11, <1>12, <1>13, <1>16, <1>17, <1>18 DEF SelectionsInv

(* The reader's own class comes.                                            *)
LEMMA OwnComes ==
    ASSUME SelectionsInv, NEW r \in asked, NEW s \in Schools, OwnAnswered(r, s)
    PROVE  SelectionsInv'
<1> USE SelectionsAssumption DEF UserPages, PageNames
<1> DEFINE school == IF selPage = "photos" THEN Nothing ELSE s
           new    == [sel EXCEPT !.school = school, !.class = Newest[s]]
<1>1. /\ r \in Request /\ r.by \in Nat /\ r.part = "own" /\ selPage # Nothing
      /\ selPage \in {"photos", "ownEvents"} /\ sel \in Selection
      /\ shown \in [Parts -> Selection \cup {Nothing}]
      /\ SelectionsTypeOK /\ "rows" \in Parts /\ "zone" \in Parts
  BY RequestFacts DEF OwnAnswered, MayAsk, Parts, SelectionsInv, SelectionsTypeOK
<1>2. /\ new \in Selection /\ new.school = school /\ new.class = Newest[s] /\ new.class # Nothing
      /\ new.class \in Linked[s]
  BY <1>1 DEF Selection
<1> HIDE DEF new
<1>3. /\ Settle(new, r.by, asked \ {r}, shown, waits) /\ wanted' = new
      /\ UNCHANGED <<selPage, pending, moves, smooth, step, many>>
  BY DEF OwnAnswered, Rest, SameStep, new
<1>4. SettledTo(new, r.by, asked \ {r}, shown, waits)
  BY <1>1, <1>2, <1>3, SettleFacts
<1>5. /\ step = "school" /\ ~many
      /\ selPage = "photos" \/ smooth => sel.class = Nothing
      /\ selPage = "ownEvents" /\ smooth => sel.school = Nothing /\ asked = {r}
  BY <1>1 DEF SelectionsInv, PhotosSound, JoinSound, InStep, IsAsked
<1>6. /\ selPage = "photos" \/ smooth => Changed("rows", new)
      /\ selPage = "ownEvents" /\ smooth => Changed("zone", new)
  BY <1>1, <1>2, <1>5 DEF Changed, Depends
<1>7. /\ selPage = "photos" => EffectsOf = {"rows"} /\ PartsOf = {"rows"}
      /\ selPage = "ownEvents" => EffectsOf = {"rows", "zone"} /\ PartsOf = {"rows", "zone"}
      /\ Flagged = {"rows"}
  BY <1>1, PartsFacts, PageFacts
<1>8. /\ sel' = new /\ saved' = saved
      /\ asked' \subseteq Request /\ shown' \in [Parts -> Selection \cup {Nothing}]
      /\ waits' \subseteq Parts
  BY <1>1, <1>4 DEF SettledTo
<1>9. \A q \in asked' :
         \/ q \in asked \ {r} /\ (selPage = "photos" => q.part # "rows")
         \/ q.part \in EffectsOf /\ q.key = KeyOf(q.part, new) /\ new[Gate(q.part)] # Nothing
  BY <1>4, <1>6 DEF SettledTo
<1>10. selPage = "photos" \/ smooth =>
          /\ \E q \in asked' : q.part = "rows"
          /\ "rows" \in waits' /\ (selPage = "photos" => shown'["rows"] = shown["rows"])
  BY <1>1, <1>2, <1>4, <1>6, <1>7 DEF SettledTo, Gate
<1>11. SelectionsTypeOK'
  <2>1. saved' \in Selection /\ wanted' \in Selection
    BY <1>1, <1>2, <1>3, <1>8 DEF SelectionsTypeOK
  <2> QED
    BY <1>1, <1>2, <1>3, <1>5, <1>8, <2>1 DEF SelectionsTypeOK
<1>12. AskedSound'
  <2>1. \A q \in asked' : /\ MayAsk(q.part)
                          /\ q.part \in {"years", "zone"} => q.key.school \in Schools
    <3> TAKE q \in asked'
    <3>1. CASE q \in asked
      BY <3>1, <1>1 DEF SelectionsInv, AskedSound
    <3>2. CASE q.part \in EffectsOf /\ q.key = KeyOf(q.part, new) /\ new[Gate(q.part)] # Nothing
      <4>1. q.part = "rows" \/ (q.part = "zone" /\ selPage = "ownEvents")
        BY <3>2, <1>1, <1>7
      <4>2. q.part = "zone" => q.key.school = school /\ school \in Schools
        BY <3>2, <4>1, <1>2, KeyFacts
      <4> QED
        BY <4>1, <4>2, <1>1 DEF MayAsk
    <3> QED
      BY <1>9, <3>1, <3>2
  <2> QED
    BY <1>1, <1>3, <2>1, SamePage DEF AskedSound
<1>13. WaitsSound'
  <2> SUFFICES ASSUME NEW p \in waits'
               PROVE  p \in Flagged /\ \E q \in asked' : q.part \in AwaitedBy(p)
    BY <1>3, SamePage DEF WaitsSound
  <2>1. CASE selPage = "photos"
    <3>1. p \in Flagged
      BY <1>1, <1>4 DEF SettledTo, SelectionsInv, WaitsSound
    <3> QED
      BY <2>1, <3>1, <1>7, <1>10 DEF AwaitedBy
  <2>2. CASE selPage = "ownEvents" /\ p \in waits
    <3>1. p \in Flagged /\ (\E q \in asked : q.part \in AwaitedBy(p)) /\ p = "rows"
      BY <2>2, <1>1, <1>7 DEF SelectionsInv, WaitsSound
    <3>2. r.part \notin AwaitedBy(p)
      BY <2>2, <1>1, <3>1 DEF AwaitedBy
    <3>3. asked \ {r} \subseteq asked'
      BY <2>2, <1>4 DEF SettledTo
    <3> QED
      BY <3>1, <3>2, <3>3
  <2>3. CASE p \in EffectsOf \cap Flagged /\ \E q \in asked' : q.part = p
    BY <2>3 DEF AwaitedBy
  <2> QED
    BY <1>1, <1>4, <2>1, <2>2, <2>3 DEF SettledTo
<1>14. PhotosSound'
  <2> SUFFICES ASSUME selPage = "photos"
               PROVE  PhotosSound'
    BY <1>3 DEF PhotosSound
  <2>1. KeyOf("rows", sel)' = KeyOf("rows", new)
    BY <1>3, <1>8 DEF KeyOf
  <2>2. \A q \in asked' : q.part = "rows" => q.key = KeyOf("rows", new)
    BY <1>7, <1>9
  <2>3. \A q \in asked' : q.part # "own"
    BY <1>1, <1>7, <1>9 DEF SelectionsInv, PhotosSound
  <2> QED
    BY <1>2, <1>8, <1>10, <2>1, <2>2, <2>3 DEF PhotosSound, PhotosAreCurrent, IsAsked
<1>15. JoinSound'
  BY <1>3, <1>5 DEF JoinSound
<1>16. ClassSound'
  BY <1>1, <1>2, <1>3, <1>8 DEF ClassSound
<1>17. RestoreSound'
  BY <1>1, <1>3 DEF RestoreSound
<1>18. InStep'
  <2> SUFFICES ASSUME smooth
               PROVE  InStep'
    BY <1>3 DEF InStep
  <2>1. \A part : KeyOf(part, sel)' = KeyOf(part, new)
    BY <1>3, <1>8 DEF KeyOf
  <2>2. \A q \in asked : q.part \in {"own", "rows"}
    BY <1>1, <1>5 DEF SelectionsInv, AskedSound, MayAsk
  <2>3. \A q \in asked' : q.part \in EffectsOf /\ q.key = KeyOf(q.part, new)
    <3> TAKE q \in asked'
    <3>1. ~(q \in asked \ {r} /\ (selPage = "photos" => q.part # "rows"))
      BY <1>1, <1>5, <2>2 DEF SelectionsInv, PhotosSound
    <3> QED
      BY <3>1, <1>9
  <2>4. \A q \in asked' : q.part \notin {"own", "save", "years"}
    BY <2>3, <1>1, <1>7
  <2>5. \A p \in PartsOf : \E q \in asked' : q.part \in Before(p)
    <3> SUFFICES ASSUME NEW p \in PartsOf
                 PROVE  \E q \in asked' : q.part = p /\ p \in Before(p)
      OBVIOUS
    <3>1. p \in {"rows", "zone"} /\ p \in Before(p)
      BY <1>1, <1>7 DEF Before
    <3>2. CASE p = "rows"
      BY <3>1, <3>2, <1>10
    <3>3. CASE p = "zone"
      <4>1. "zone" \in EffectsOf /\ Changed("zone", new) /\ new[Gate("zone")] # Nothing
        BY <3>3, <1>1, <1>2, <1>6, <1>7 DEF Gate
      <4> QED
        BY <3>1, <3>3, <4>1, <1>4 DEF SettledTo
    <3> QED
      BY <3>1, <3>2, <3>3
  <2> QED
    BY <1>1, <1>3, <1>8, <2>1, <2>3, <2>4, <2>5, SamePage DEF InStep, IsAsked
<1> QED
  BY <1>11, <1>12, <1>13, <1>14, <1>15, <1>16, <1>17, <1>18 DEF SelectionsInv

(* Every step of a page.                                                    *)
LEMMA SelectionsKeep ==
    ASSUME SelectionsInv, SelectionsStep
    PROVE  SelectionsInv'
<1>1. CASE \E s \in Schools \cup {Nothing} : SelectSchool(s) \/ Navigate(s)
  BY <1>1, ReaderSelects, SelectionsAssumption DEF Terms
<1>2. CASE \/ \E c \in Classes \cup {Nothing} : SelectClass(c)
           \/ \E p \in 1..MaxPage : SelectPage(p)
           \/ \E t \in Terms : SelectTerm(t)
  BY <1>2, ReaderSelects, SelectionsAssumption DEF Terms
<1>3. CASE Save \/ LeaveAndReturn \/ Continue \/ Search \/ ChooseMatch \/ Claim \/ Back
  BY <1>3, SaveAsked, LeftAndReturned, JoinGoesOn
<1>4. ASSUME NEW r \in asked,
             \/ YearsAnswered(r) \/ RowsAnswered(r) \/ Claimed(r) \/ UserAnswered(r)
             \/ Saved(r) \/ Failed(r)
             \/ \E n \in 0..2 : Found(r, n)
             \/ \E s \in Schools : OwnAnswered(r, s)
      PROVE  SelectionsInv'
  BY <1>4, YearsCome, RowsCome, AccountClaimed, UserComes, ChangeSaved, RequestFails,
     PeopleFound, OwnComes
<1> QED
  BY <1>1, <1>2, <1>3, <1>4 DEF SelectionsStep

(* Nothing of it is hidden: what is settled and smooth matches.             *)
LEMMA SelectionsAgree ==
    ASSUME SelectionsInv
    PROVE  SelectionsMatch /\ PhotosAreCurrent /\ RestoreBringsBack
<1> USE SelectionsAssumption DEF UserPages
<1>1. PhotosAreCurrent
  BY DEF SelectionsInv, PhotosSound, PhotosAreCurrent
<1>2. RestoreBringsBack
  BY DEF SelectionsInv, RestoreSound, RestoreBringsBack, Settled, IsAsked
<1>3. ASSUME Settled
      PROVE  /\ \A p \in PartsOf : sel[Gate(p)] # Nothing => Matches(p)
             /\ sel.school # Nothing /\ sel.class # Nothing => sel.class \in Linked[sel.school]
             /\ step = "claim" => shown["chosen"].class = sel.class
             /\ waits = {}
  BY <1>3 DEF Settled, SelectionsInv, InStep, ClassSound, JoinSound, WaitsSound, IsAsked
<1>4. SelectionsMatch
  BY <1>3 DEF SelectionsMatch, Matches
<1> QED
  BY <1>1, <1>2, <1>4

(* What does not move stays as sound.                                       *)
LEMMA SelectionsStutter ==
    ASSUME SelectionsInv, UNCHANGED selVars
    PROVE  SelectionsInv'
<1> USE DEF selVars
<1>1. SelectionsTypeOK' /\ AskedSound'
  BY DEF SelectionsInv, SelectionsTypeOK, AskedSound, MayAsk
<1>2. WaitsSound'
  BY DEF SelectionsInv, WaitsSound, AwaitedBy, Flagged
<1>3. PhotosSound' /\ JoinSound'
  BY DEF SelectionsInv, PhotosSound, PhotosAreCurrent, KeyOf, JoinSound
<1>4. ClassSound' /\ RestoreSound'
  BY DEF SelectionsInv, ClassSound, RestoreSound, IsAsked
<1>5. InStep'
  <2>1. \A part : KeyOf(part, sel)' = KeyOf(part, sel)
    BY DEF KeyOf
  <2>2. PartsOf' = PartsOf
    BY DEF PartsOf, EffectsOf
  <2>3. \A p : Matches(p)' <=> Matches(p)
    BY <2>1 DEF Matches
  <2> QED
    BY <2>1, <2>2, <2>3 DEF SelectionsInv, InStep, IsAsked
<1> QED
  BY <1>1, <1>2, <1>3, <1>4, <1>5 DEF SelectionsInv

-----------------------------------------------------------------------------
(* DRAFTS. What has been typed is in the form, in a request that is out, or *)
(* kept: a form that asks for one thing at a time loses nothing.            *)

(* No text is longer than what can be typed; links are numbered.            *)
TextBound == IF draftPage = "links" THEN MaxAsks ELSE MaxTyped

(* Texts and links stay within what the forms allow.                        *)
DraftsBounded ==
    /\ \A r \in requests : r.text \in 0..TextBound
    /\ \A s \in All : kept[s] \in 0..TextBound
    /\ link # NoLink => draftPage = "links" /\ link.user \in All
    /\ timers > 0 => draftPage \in VisitorPages \cup {"import"}

(* A form waits for one answer at a time, with its button disabled.         *)
OneOut ==
    /\ draftPage \notin {"links", "profile"} \/ ~hurried => \A a, b \in requests : a = b
    /\ draftPage \in VisitorPages /\ requests # {} => disabled # Nobody \/ told = "loading"
    /\ draftPage = "profile" /\ ~hurried /\ requests # {} => disabled # Nobody \/ photo
    /\ draftPage = "links" /\ ~hurried => \A r \in requests : disabled = r.whom
    /\ draftPage \notin VisitorPages \cup {"profile", "links"} /\ requests # {} =>
           disabled # Nobody

(* What a visitor is told has succeeded has, and nothing else is out.       *)
VisitorsTold ==
    draftPage \in VisitorPages =>
        /\ about = Self
        /\ \A r \in requests :
              /\ r.whom = Self
              /\ r.what = "save" => /\ r.st = "done" => kept[Self] # 0
                                    /\ draftPage = "verify" \/ r.text # 0
        /\ told = "success" => kept[Self] # 0 /\ requests = {}

(* What is being saved is what is typed.                                    *)
SavesDraft ==
    draftPage \in {"add", "edit"} \/ (draftPage \in {"import", "move", "feedback"} /\ ~hurried) =>
        /\ \A r \in requests : r.what = "save" => draft \in {0, r.text}
        /\ draftPage = "import" /\ timers > 0 => draft = 0

(* A profile is fetched again over what the API keeps.                      *)
ProfileKept ==
    draftPage = "profile" /\ ~hurried =>
        \A r \in requests : r.what # "save" =>
            draft = kept[Self] /\ (r.what = "fetch" /\ r.st = "done" => r.text = kept[Self])

(* The link that comes is the one that works.                               *)
LinksKnown ==
    draftPage = "links" =>
        /\ \A r \in requests : r.what = "save" /\ (~hurried /\ r.st = "done" => kept[r.whom] = r.text)
        /\ ShownLinkWorks

(* The invariant of the forms.                                              *)
DraftsInv ==
    /\ DraftsTypeOK /\ DraftsBounded /\ OneOut /\ VisitorsTold /\ SavesDraft /\ ProfileKept
    /\ LinksKnown /\ DraftsAreKept

(* The kind of a form's requests.                                           *)
Requests == [id : 0..MaxAsks, what : {"save", "photo", "fetch"},
             whom : All, text : 0..(MaxTyped + MaxAsks),
             st : {"asked", "done", "refused", "invalid"}]

(* A page that has just been opened.                                        *)
LEMMA DraftsStart ==
    ASSUME DraftsInit
    PROVE  DraftsInv
<1> USE DraftsAssumption DEF DraftsInit, All, Self, NoLink, VisitorPages, ManagerForms
<1>1. requests \subseteq Requests /\ (\A a, b \in requests : a = b)
      /\ (\A r \in requests : r = Ask0("fetch") \/ r = Ask0("save"))
      /\ (requests # {} => draftPage \in {"link", "verify"})
      /\ (Ask0("save") \in requests => draftPage = "verify")
  <2>1. Ask0("fetch") \in Requests /\ Ask0("save") \in Requests /\ Ask0("fetch") # Ask0("save")
    BY DEF Ask0, Requests
  <2>2. CASE draftPage = "link"
    BY <2>1, <2>2
  <2>3. CASE draftPage = "verify"
    BY <2>1, <2>3
  <2>4. CASE draftPage \notin {"link", "verify"}
    BY <2>4
  <2> QED
    BY <2>2, <2>3, <2>4
<1>2. DraftsTypeOK
  <2>1. NoLink \in [user : All \cup {Nobody}, number : 0..MaxAsks]
    BY DEF NoLink
  <2>2. kept \in [All -> 0..(MaxTyped + MaxAsks)]
    OBVIOUS
  <2>3. {draft, typed} \subseteq 0..MaxTyped
    OBVIOUS
  <2> QED
    BY <1>1, <2>1, <2>2, <2>3 DEF DraftsTypeOK, Requests
<1>3. DraftsBounded
  BY <1>1 DEF DraftsBounded, Ask0, TextBound
<1>4. OneOut
  BY <1>1 DEF OneOut
<1>5. VisitorsTold
  BY <1>1 DEF VisitorsTold, Ask0
<1>6. SavesDraft
  BY <1>1 DEF SavesDraft
<1>7. ProfileKept /\ LinksKnown /\ DraftsAreKept
  BY <1>1 DEF ProfileKept, LinksKnown, DraftsAreKept, ShownLinkWorks
<1> QED
  BY <1>2, <1>3, <1>4, <1>5, <1>6, <1>7 DEF DraftsInv

(* The reader types.                                                        *)
LEMMA DraftsType ==
    ASSUME DraftsInv, Type
    PROVE  DraftsInv'
<1> USE DraftsAssumption DEF Type, Editing, Locked, Busy
<1>1. DraftsTypeOK'
  <2>1. typed' \in 0..MaxTyped /\ draft' \in 0..MaxTyped
    BY DEF DraftsInv, DraftsTypeOK
  <2> QED
    BY <2>1 DEF DraftsInv, DraftsTypeOK
<1>2. DraftsBounded' /\ OneOut' /\ VisitorsTold' /\ LinksKnown' /\ DraftsAreKept'
  BY DEF DraftsInv, DraftsBounded, TextBound, OneOut, VisitorsTold, LinksKnown, DraftsAreKept,
         ShownLinkWorks
<1>3. SavesDraft' /\ ProfileKept'
  BY DEF DraftsInv, DraftsTypeOK, SavesDraft, ProfileKept, OneOut, DraftsBounded, VisitorPages
<1> QED
  BY <1>1, <1>2, <1>3 DEF DraftsInv

(* The form is sent.                                                        *)
LEMMA DraftsSubmits ==
    ASSUME DraftsInv, Submits
    PROVE  DraftsInv'
<1> USE DraftsAssumption DEF Editing, Locked, Busy, All, Self, VisitorPages, ManagerForms
<1> DEFINE new == [id |-> asks + 1, what |-> "save", whom |-> about, text |-> draft,
                   st |-> "asked"]
<1>1. requests' = requests \cup {new} /\ asks' = asks + 1 /\ asks < MaxAsks
  BY DEF Submits, Send
<1>2. new \in Requests /\ asks' \in 0..MaxAsks
  BY <1>1 DEF Submits, DraftsInv, DraftsTypeOK, Requests
<1> HIDE DEF new
<1>3. new.st = "asked" /\ new.what = "save" /\ new.whom = about /\ new.text = draft
  BY DEF new
<1>4. DraftsTypeOK'
  BY <1>1, <1>2 DEF Submits, Disables, DraftsInv, DraftsTypeOK, Requests
<1>5. DraftsBounded'
  BY <1>1, <1>3 DEF Submits, DraftsInv, DraftsTypeOK, DraftsBounded, TextBound
<1>6. OneOut'
  <2>1. draftPage # "profile" \/ ~hurried' => requests = {}
    BY DEF Submits, DraftsInv, OneOut
  <2>2. about # Nobody /\ draftPage # "links"
    BY DEF Submits
  <2> QED
    BY <1>1, <2>1, <2>2 DEF Submits, Disables, DraftsInv, DraftsTypeOK, DraftsBounded, OneOut
<1>7. VisitorsTold'
  BY <1>1, <1>3 DEF Submits, DraftsInv, OneOut, VisitorsTold
<1>8. SavesDraft'
  BY <1>1, <1>3 DEF Submits, DraftsInv, DraftsTypeOK, DraftsBounded, OneOut, SavesDraft
<1>9. ProfileKept' /\ LinksKnown' /\ DraftsAreKept'
  BY <1>1, <1>3 DEF Submits, DraftsInv, OneOut, ProfileKept, LinksKnown, ShownLinkWorks, DraftsAreKept
<1> QED
  BY <1>4, <1>5, <1>6, <1>7, <1>8, <1>9 DEF DraftsInv

(* The photo of the profile is changed.                                     *)
LEMMA DraftsChangesPhoto ==
    ASSUME DraftsInv, ChangesPhoto
    PROVE  DraftsInv'
<1> USE DraftsAssumption DEF Editing, Locked, Busy, All, Self, VisitorPages, ManagerForms
<1> DEFINE new == [id |-> asks + 1, what |-> "photo", whom |-> Self, text |-> 0,
                   st |-> "asked"]
<1>1. requests' = requests \cup {new} /\ asks' = asks + 1 /\ asks < MaxAsks
  BY DEF ChangesPhoto, Send
<1>2. new \in Requests /\ asks' \in 0..MaxAsks
  BY <1>1 DEF ChangesPhoto, DraftsInv, DraftsTypeOK, Requests
<1> HIDE DEF new
<1>3. new.st = "asked" /\ new.what = "photo" /\ new.whom = Self /\ new.text = 0
  BY DEF new
<1>4. DraftsTypeOK'
  BY <1>1, <1>2 DEF ChangesPhoto, Disables, DraftsInv, DraftsTypeOK, Requests
<1>5. DraftsBounded'
  BY <1>1, <1>3 DEF ChangesPhoto, DraftsInv, DraftsTypeOK, DraftsBounded, TextBound
<1>6. OneOut'
  BY <1>1, <1>3 DEF ChangesPhoto, Disables, DraftsInv, DraftsTypeOK, DraftsBounded, OneOut
<1>7. VisitorsTold'
  BY <1>1, <1>3 DEF ChangesPhoto, DraftsInv, OneOut, VisitorsTold
<1>8. SavesDraft'
  BY <1>1, <1>3 DEF ChangesPhoto, DraftsInv, DraftsTypeOK, DraftsBounded, OneOut, SavesDraft
<1>9. ProfileKept' /\ LinksKnown' /\ DraftsAreKept'
  BY <1>1, <1>3 DEF ChangesPhoto, DraftsInv, OneOut, ProfileKept, LinksKnown, ShownLinkWorks, DraftsAreKept
<1> QED
  BY <1>4, <1>5, <1>6, <1>7, <1>8, <1>9 DEF DraftsInv

(* The reader opens and closes a form, leaves the page, is refused by it,   *)
(* or waits until a timer runs out.                                         *)
LEMMA DraftsLeft ==
    ASSUME DraftsInv,
           Cancel \/ Leave \/ Rejects \/ PutsLinkAway \/ Timer \/ \E s \in All : Open(s)
    PROVE  DraftsInv'
<1> USE DraftsAssumption
        DEF DraftsInv, DraftsTypeOK, DraftsBounded, TextBound, OneOut, VisitorsTold, SavesDraft,
            ProfileKept, LinksKnown, ShownLinkWorks, DraftsAreKept, draftVars, All, Self, NoLink,
            VisitorPages, ManagerForms, Editing, Locked, Busy, Here, Done, Clears
<1>1. CASE Cancel
  BY <1>1, SMTT(30) DEF Cancel
<1>2. CASE Leave
  BY <1>2, SMTT(30) DEF Leave
<1>3. CASE Rejects
  BY <1>3, SMTT(30) DEF Rejects
<1>4. CASE PutsLinkAway
  BY <1>4, SMTT(30) DEF PutsLinkAway
<1>5. CASE Timer
  BY <1>5, SMTT(30) DEF Timer
<1>6. ASSUME NEW s \in All, Open(s)
      PROVE  DraftsInv'
  BY <1>6, SMTT(30) DEF Open
<1> HIDE DEF DraftsInv
<1> QED
  BY <1>1, <1>2, <1>3, <1>4, <1>5, <1>6

(* An answer that asks for nothing more.                                    *)
LEMMA DraftsAnswered ==
    ASSUME DraftsInv, NEW r \in requests,
           \/ VisitorDone(r) \/ LinkFound(r) \/ FormSaved(r) \/ LinkMade(r) \/ ProfileSaved(r)
           \/ Refused(r) \/ Ignored(r) \/ \E skipped \in BOOLEAN : ImportDone(r, skipped)
    PROVE  DraftsInv'
<1> USE DraftsAssumption
        DEF DraftsInv, DraftsTypeOK, DraftsBounded, TextBound, OneOut, VisitorsTold, SavesDraft,
            ProfileKept, LinksKnown, ShownLinkWorks, DraftsAreKept, draftVars, All, Self, NoLink,
            VisitorPages, ManagerForms, Editing, Locked, Busy, Here, Done, Clears
<1>1. CASE VisitorDone(r)
  BY <1>1, SMTT(30) DEF VisitorDone
<1>2. CASE LinkFound(r)
  BY <1>2, SMTT(30) DEF LinkFound
<1>3. CASE FormSaved(r)
  BY <1>3, SMTT(30) DEF FormSaved
<1>4. CASE LinkMade(r)
  BY <1>4, SMTT(30) DEF LinkMade
<1>5. CASE ProfileSaved(r)
  BY <1>5, SMTT(30) DEF ProfileSaved
<1>6. CASE Refused(r)
  BY <1>6, SMTT(30) DEF Refused
<1>7. CASE Ignored(r)
  BY <1>7, SMTT(30) DEF Ignored
<1>8. ASSUME NEW skipped \in BOOLEAN, ImportDone(r, skipped)
      PROVE  DraftsInv'
  BY <1>8, SMTT(30) DEF ImportDone
<1> HIDE DEF DraftsInv
<1> QED
  BY <1>1, <1>2, <1>3, <1>4, <1>5, <1>6, <1>7, <1>8

(* A link is made for a user.                                               *)
LEMMA DraftsAsksLink ==
    ASSUME DraftsInv, NEW s \in Subjects, AsksLink(s)
    PROVE  DraftsInv'
<1> USE DraftsAssumption DEF All, Self, VisitorPages
<1> DEFINE new == [id |-> asks + 1, what |-> "save", whom |-> s, text |-> asks + 1,
                   st |-> "asked"]
<1>1. requests' = requests \cup {new} /\ asks' = asks + 1 /\ asks < MaxAsks
  BY DEF AsksLink, Send
<1>2. new \in Requests /\ asks' \in 0..MaxAsks /\ asks + 1 \in 0..TextBound
  BY <1>1 DEF AsksLink, DraftsInv, DraftsTypeOK, Requests, TextBound
<1>3. new.st = "asked" /\ new.what = "save" /\ new.whom = s /\ new.text = asks + 1
  OBVIOUS
<1> HIDE DEF new
<1>4. DraftsTypeOK'
  BY <1>1, <1>2 DEF AsksLink, DraftsInv, DraftsTypeOK, Requests
<1>5. DraftsBounded'
  BY <1>1, <1>2, <1>3 DEF AsksLink, DraftsInv, DraftsBounded, TextBound
<1>6. ~hurried' => requests = {}
  BY DEF AsksLink, Free, DraftsInv, OneOut
<1>7. OneOut'
  BY <1>1, <1>3, <1>6 DEF AsksLink, DraftsInv, OneOut
<1>8. VisitorsTold' /\ SavesDraft' /\ ProfileKept' /\ DraftsAreKept'
  BY DEF AsksLink, DraftsInv, VisitorsTold, SavesDraft, ProfileKept, DraftsAreKept
<1>9. LinksKnown'
  BY <1>1, <1>3 DEF AsksLink, DraftsInv, LinksKnown, ShownLinkWorks
<1> QED
  BY <1>4, <1>5, <1>7, <1>8, <1>9 DEF DraftsInv

(* An answer changes the state of its request, and its text if it fetches.  *)
LEMMA DraftsBecomes ==
    ASSUME DraftsInv, NEW r \in requests, NEW new \in Requests,
           ApiOnly, Becomes(r, new), kept' = kept \/ (Accepts(r) /\ Write(r)),
           new.what = r.what, new.whom = r.whom, new.st # "asked",
           new.text = IF r.what = "fetch" /\ new.st = "done" THEN kept[Self] ELSE r.text,
           new.st = "done" => Write(r)
    PROVE  DraftsInv'
<1> USE DraftsAssumption DEF All, Self, VisitorPages, ManagerForms, ApiOnly, Becomes, Write
<1>1. DraftsTypeOK' /\ DraftsBounded'
  <2>1. r \in Requests /\ r.text \in 0..TextBound
    BY DEF DraftsInv, DraftsTypeOK, DraftsBounded, Requests
  <2>2. r.whom \in All /\ kept \in [All -> 0..TextBound] /\ new.text \in 0..TextBound
        /\ 1 <= MaxTyped
    BY <2>1 DEF DraftsInv, DraftsTypeOK, DraftsBounded, Requests
  <2>3. kept' \in [All -> 0..TextBound]
    BY <2>1, <2>2 DEF TextBound
  <2>4. TextBound' = TextBound /\ 0..TextBound \subseteq 0..(MaxTyped + MaxAsks)
    BY DEF TextBound
  <2>5. kept' \in [All -> 0..(MaxTyped + MaxAsks)]
    BY <2>3, <2>4
  <2>6. DraftsTypeOK'
    BY <2>5 DEF DraftsInv, DraftsTypeOK, Requests
  <2>7. DraftsBounded'
    BY <2>2, <2>3, <2>4 DEF DraftsInv, DraftsBounded
  <2> QED
    BY <2>6, <2>7
<1>2. OneOut'
  BY DEF DraftsInv, OneOut
<1>3. VisitorsTold'
  BY DEF DraftsInv, DraftsTypeOK, OneOut, VisitorsTold, Accepts
<1>4. SavesDraft' /\ DraftsAreKept'
  BY DEF DraftsInv, SavesDraft, DraftsAreKept
<1>5. ProfileKept'
  BY DEF DraftsInv, DraftsTypeOK, OneOut, ProfileKept
<1>6. LinksKnown'
  <2>1. SUFFICES ASSUME draftPage = "links"
                 PROVE  LinksKnown'
    BY DEF LinksKnown
  <2>2. r.what = "save" /\ new.what = "save" /\ (~hurried => requests = {r} /\ requests' = {new})
        /\ r.whom \in All /\ kept \in [All -> 0..TextBound]
    BY <2>1 DEF DraftsInv, DraftsTypeOK, DraftsBounded, OneOut, LinksKnown, Requests
  <2>3. \A q \in requests' : q.what = "save"
                             /\ (~hurried' /\ q.st = "done" => kept'[q.whom] = q.text)
    BY <2>1, <2>2 DEF DraftsInv, LinksKnown
  <2>4. ShownLinkWorks'
    BY <2>1, <2>2 DEF DraftsInv, LinksKnown, ShownLinkWorks, DraftsBounded
  <2> QED
    BY <2>3, <2>4 DEF LinksKnown
<1> QED
  BY <1>1, <1>2, <1>3, <1>4, <1>5, <1>6 DEF DraftsInv

(* The API's part.                                                          *)
LEMMA DraftsApi ==
    ASSUME DraftsInv, NEW r \in requests, Performs(r) \/ Refuses(r) \/ Loses(r)
    PROVE  DraftsInv'
<1>1. r \in Requests
  BY DEF DraftsInv, DraftsTypeOK, Requests
<1>2. kept[Self] \in 0..(MaxTyped + MaxAsks)
  BY DEF DraftsInv, DraftsTypeOK, All
<1>3. CASE Performs(r)
  <2> DEFINE text == IF r.what = "fetch" THEN kept[Self] ELSE r.text
             new  == [r EXCEPT !.st = "done", !.text = text]
  <2>1. /\ new \in Requests /\ new.what = r.what /\ new.whom = r.whom /\ new.st = "done"
        /\ new.text = text
    BY <1>1, <1>2 DEF Requests
  <2>2. Becomes(r, new) /\ Accepts(r) /\ Write(r) /\ ApiOnly
    BY <1>1, <1>3 DEF Performs, Requests
  <2> HIDE DEF new
  <2> QED
    BY <2>1, <2>2, DraftsBecomes
<1>4. CASE Refuses(r) \/ Loses(r)
  <2>1. PICK st \in {"refused", "invalid"} : Becomes(r, [r EXCEPT !.st = st])
    BY <1>4 DEF Refuses, Loses
  <2> DEFINE new == [r EXCEPT !.st = st]
  <2>2. /\ new \in Requests /\ new.what = r.what /\ new.whom = r.whom /\ new.st = st
        /\ new.text = r.text
    BY <1>1 DEF Requests
  <2>3. Becomes(r, new)
    BY <2>1
  <2>4. ApiOnly /\ (kept' = kept \/ (Accepts(r) /\ Write(r)))
    BY <1>4 DEF Refuses, Loses
  <2> HIDE DEF new
  <2> QED
    BY <2>2, <2>3, <2>4, DraftsBecomes
<1> QED
  BY <1>3, <1>4

(* The page fetches again what it has saved.                                *)
LEMMA DraftsThenFetch ==
    ASSUME DraftsInv, NEW r \in requests, PhotoStored(r) \/ FeedbackSent(r)
    PROVE  DraftsInv'
<1> USE DraftsAssumption DEF All, Self, VisitorPages, ManagerForms, PhotoStored, FeedbackSent,
                             ThenFetch
<1> DEFINE new == [r EXCEPT !.what = "fetch", !.st = "asked"]
<1>1. r \in Requests
  BY DEF DraftsInv, DraftsTypeOK, Requests
<1>2. /\ new \in Requests /\ new.what = "fetch" /\ new.whom = r.whom /\ new.st = "asked"
      /\ new.text = r.text /\ requests' = (requests \ {r}) \cup {new}
  BY <1>1 DEF Requests
<1> HIDE DEF new
<1>3. DraftsTypeOK'
  <2>1. requests' \subseteq Requests
    BY <1>2 DEF DraftsInv, DraftsTypeOK, Requests
  <2>2. draft' \in 0..MaxTyped /\ disabled' \in All \cup {Nobody}
    BY DEF DraftsInv, DraftsTypeOK, Clears
  <2>3. lost' \in BOOLEAN
    BY DEF DraftsInv, DraftsTypeOK, Clears
  <2> QED
    BY <2>1, <2>2, <2>3 DEF DraftsInv, DraftsTypeOK, Requests
<1>4. DraftsBounded'
  BY <1>2 DEF DraftsInv, DraftsBounded, TextBound
<1>5. OneOut'
  BY <1>2 DEF DraftsInv, OneOut
<1>6. VisitorsTold' /\ SavesDraft' /\ LinksKnown'
  BY <1>2 DEF DraftsInv, VisitorsTold, SavesDraft, LinksKnown, OneOut, DraftsTypeOK, Clears
<1>7. ProfileKept'
  BY <1>2 DEF DraftsInv, ProfileKept, OneOut, DraftsTypeOK
<1>8. DraftsAreKept'
  BY DEF DraftsInv, DraftsAreKept, SavesDraft, Clears
<1> QED
  BY <1>3, <1>4, <1>5, <1>6, <1>7, <1>8 DEF DraftsInv

(* What the page fetched comes.                                             *)
LEMMA DraftsFetched ==
    ASSUME DraftsInv, NEW r \in requests, Fetched(r)
    PROVE  DraftsInv'
<1> USE DraftsAssumption DEF All, Self, VisitorPages, ManagerForms, Fetched, Here, Done
<1>1. DraftsTypeOK'
  <2>1. draftPage = "profile" => r.text \in 0..MaxTyped
    BY DEF DraftsInv, DraftsBounded, TextBound
  <2>2. draft' \in 0..MaxTyped /\ lost' \in BOOLEAN
    BY <2>1 DEF DraftsInv, DraftsTypeOK
  <2> QED
    BY <2>2 DEF DraftsInv, DraftsTypeOK
<1>2. DraftsBounded'
  BY DEF DraftsInv, DraftsBounded, TextBound
<1>3. OneOut' /\ ProfileKept'
  BY DEF DraftsInv, OneOut, ProfileKept
<1>4. VisitorsTold' /\ SavesDraft' /\ LinksKnown'
  BY DEF DraftsInv, VisitorsTold, SavesDraft, LinksKnown
<1>5. DraftsAreKept'
  BY DEF DraftsInv, DraftsAreKept, ProfileKept
<1> QED
  BY <1>1, <1>2, <1>3, <1>4, <1>5 DEF DraftsInv

(* No form is sent twice at once, and a visitor is told what is so.         *)
LEMMA DraftsAsk ==
    ASSUME DraftsInv
    PROVE  FormsAskOnce /\ ShownLinkWorks /\ DraftsAreKept
<1>1. ShownLinkWorks /\ DraftsAreKept
  BY DEF DraftsInv, DraftsBounded, LinksKnown, ShownLinkWorks
<1>2. FormsAskOnce
  BY DEF DraftsInv, OneOut, VisitorsTold, FormsAskOnce
<1> QED
  BY <1>1, <1>2

(* Every step of a form.                                                    *)
LEMMA DraftsNextInv ==
    ASSUME DraftsInv, DraftsStep
    PROVE  DraftsInv'
<1>1. CASE \E r \in requests :
             \/ Performs(r) \/ Refuses(r) \/ Loses(r)
             \/ PhotoStored(r) \/ FeedbackSent(r) \/ Fetched(r)
  BY <1>1, DraftsApi, DraftsThenFetch, DraftsFetched
<1>2. CASE \E r \in requests :
             \/ VisitorDone(r) \/ LinkFound(r) \/ FormSaved(r) \/ LinkMade(r) \/ ProfileSaved(r)
             \/ Refused(r) \/ Ignored(r) \/ \E skipped \in BOOLEAN : ImportDone(r, skipped)
  BY <1>2, DraftsAnswered
<1>3. CASE Type \/ Submits \/ ChangesPhoto \/ \E s \in Subjects : AsksLink(s)
  BY <1>3, DraftsType, DraftsSubmits, DraftsChangesPhoto, DraftsAsksLink
<1>4. CASE Cancel \/ Leave \/ Rejects \/ PutsLinkAway \/ Timer \/ \E s \in All : Open(s)
  BY <1>4, DraftsLeft
<1> QED
  BY <1>1, <1>2, <1>3, <1>4 DEF DraftsStep

(* What does not move stays as sound.                                       *)
LEMMA DraftsStutter ==
    ASSUME DraftsInv, UNCHANGED draftVars
    PROVE  DraftsInv'
  BY DEF DraftsInv, DraftsTypeOK, DraftsBounded, TextBound, OneOut, VisitorsTold, SavesDraft,
         ProfileKept, LinksKnown, ShownLinkWorks, DraftsAreKept, draftVars

-----------------------------------------------------------------------------
(* EVENT TIMES. What is kept of an event is the hour that was entered, in   *)
(* the zone it was turned into an instant with.                             *)

(* The instant kept is that of the hour entered last.                       *)
HoursInv ==
    /\ EventTimesTypeOK
    /\ instant # NoZone => meant \in Int /\ instant = ToInstant(usedZone, meant)

(* A clock is off by its zone's hours, or by one more.                      *)
LEMMA OffsetTypes ==
    ASSUME NEW z \in Zones \cup {NoZone}, NEW t \in Int
    PROVE  /\ Offset(z, t) \in Int
           /\ z \in Zones => Offset(z, t) \in {z.std, z.std + 1}
  BY EventTimesAssumption DEF Offset

(* Instants and hours are integers.                                         *)
LEMMA ToInstantTypes ==
    ASSUME NEW z \in Zones \cup {NoZone}, NEW t \in Int
    PROVE  /\ Wall(z, t) \in Int
           /\ ToInstant(z, t) = t - Offset(z, t) /\ ToInstant(z, t) \in Int
<1>1. Offset(z, t) \in Int
  BY OffsetTypes
<1> QED
  BY <1>1 DEF ToInstant, Wall

(* No event yet.                                                            *)
LEMMA HoursStart ==
    ASSUME EventTimesInit
    PROVE  HoursInv
  BY EventTimesAssumption DEF EventTimesInit, HoursInv, EventTimesTypeOK

(* Every step of the page.                                                  *)
LEMMA HoursStep ==
    ASSUME HoursInv, EventTimesStep
    PROVE  HoursInv'
<1> USE EventTimesAssumption DEF HoursInv, EventTimesTypeOK
<1>1. ASSUME NEW zone \in Zones \cup {NoZone}, ZoneComes(zone)
      PROVE  HoursInv'
  BY <1>1 DEF ZoneComes, ToInstant, Wall, Offset
<1>2. ASSUME NEW hour \in Int, FormOnly(hour)
      PROVE  HoursInv'
  BY <1>2 DEF FormOnly, ToInstant, Wall, Offset
<1>3. ASSUME NEW hour \in ClockHours, EnterHour(hour)
      PROVE  HoursInv'
  <2>1. hour \in Int
    BY ToInstantTypes DEF ClockHours
  <2> QED
    BY <2>1, <1>2, <1>3 DEF EnterHour
<1>4. ASSUME EditEvent
      PROVE  HoursInv'
  <2>1. Wall(eventZone, instant) \in Int
    BY <1>4, ToInstantTypes DEF EditEvent
  <2> QED
    BY <2>1, <1>2, <1>4 DEF EditEvent
<1>5. ASSUME SaveEvent
      PROVE  HoursInv'
  <2>1. formHour \in Int /\ ToInstant(schoolTimezone, formHour) \in Int
    BY <1>5, ToInstantTypes DEF SaveEvent
  <2> QED
    BY <2>1, <1>5 DEF SaveEvent, ToInstant, Wall, Offset
<1> QED
  BY <1>1, <1>3, <1>4, <1>5 DEF EventTimesStep

(* Two offsets of a zone differ by an hour at most, and only if its clock   *)
(* is put forward or back between the two instants.                         *)
LEMMA HoursKept ==
    ASSUME HoursInv
    PROVE  HoursAreKept
<1> SUFFICES ASSUME instant # NoZone, usedZone = eventZone
             PROVE  /\ Distance(Wall(eventZone, instant), meant) <= 1
                    /\ NearChange(eventZone, meant) \/ Wall(eventZone, instant) = meant
  BY DEF HoursAreKept
<1> DEFINE z == eventZone
<1>1. z \in Zones \cup {NoZone} /\ meant \in Int /\ instant \in Int
      /\ instant = meant - Offset(z, meant)
      /\ Offset(z, meant) \in Int /\ Offset(z, instant) \in Int
  BY ToInstantTypes, OffsetTypes DEF HoursInv, EventTimesTypeOK
<1>2. Wall(z, instant) = instant + Offset(z, instant)
  BY DEF Wall
<1>3. CASE z = NoZone
  BY <1>1, <1>2, <1>3 DEF Offset, Distance
<1>4. CASE z \in Zones
  <2>1. z.std \in Int /\ z.from \in Int /\ z.to \in Int /\ z # NoZone
    BY <1>4, EventTimesAssumption
  <2>2. CASE Offset(z, instant) = Offset(z, meant)
    BY <1>1, <1>2, <2>2 DEF Distance
  <2>3. CASE Offset(z, instant) # Offset(z, meant)
    <3>1. \/ z.from <= instant /\ instant < z.to /\ ~(z.from <= meant /\ meant < z.to)
          \/ z.from <= meant /\ meant < z.to /\ ~(z.from <= instant /\ instant < z.to)
      BY <2>1, <2>3 DEF Offset
    <3>2. Offset(z, meant) \in {z.std, z.std + 1} /\ Offset(z, instant) \in {z.std, z.std + 1}
      BY <1>1, <1>4, OffsetTypes
    <3>3. Distance(Wall(z, instant), meant) <= 1
      BY <1>1, <1>2, <2>1, <3>2 DEF Distance
    <3>4. Distance(meant, z.from) <= Distance(z.std, 0) + 1
          \/ Distance(meant, z.to) <= Distance(z.std, 0) + 1
      BY <1>1, <2>1, <3>1, <3>2 DEF Distance
    <3>5. NearChange(z, meant)
      BY <3>4 DEF NearChange
    <3> QED
      BY <3>3, <3>5
  <2> QED
    BY <2>2, <2>3
<1> QED
  BY <1>1, <1>3, <1>4

(* What does not move stays as sound.                                       *)
LEMMA HoursStutter ==
    ASSUME HoursInv, UNCHANGED hoursVars
    PROVE  HoursInv'
  BY DEF HoursInv, EventTimesTypeOK, ToInstant, Offset, hoursVars

-----------------------------------------------------------------------------
(* THE PAGES TOGETHER.  Only one of them is open, and a page that is not    *)
(* open keeps what it has, so each invariant is its page's own.             *)

PagesInv == ListsInv /\ SelectionsInv /\ DraftsInv /\ HoursInv

(* At the start each page has its invariant.                                *)
LEMMA PagesStart ==
    ASSUME Init
    PROVE  PagesInv
BY ListsStart, SelectionsStart, DraftsStart, HoursStart DEF Init, PagesInv

(* A step is one page's; the others do not move.                            *)
LEMMA PagesKeep ==
    ASSUME PagesInv, [Next]_webVars
    PROVE  PagesInv'
<1>1. CASE ListsStep /\ UNCHANGED <<selVars, draftVars, hoursVars>>
  BY <1>1, ListsKeep, SelectionsStutter, DraftsStutter, HoursStutter DEF PagesInv
<1>2. CASE SelectionsStep /\ UNCHANGED <<listVars, draftVars, hoursVars>>
  BY <1>2, SelectionsKeep, ListsStutter, DraftsStutter, HoursStutter DEF PagesInv
<1>3. CASE DraftsStep /\ UNCHANGED <<listVars, selVars, hoursVars>>
  BY <1>3, DraftsNextInv, ListsStutter, SelectionsStutter, HoursStutter DEF PagesInv
<1>4. CASE EventTimesStep /\ UNCHANGED <<listVars, selVars, draftVars>>
  BY <1>4, HoursStep, ListsStutter, SelectionsStutter, DraftsStutter DEF PagesInv
<1>5. CASE UNCHANGED webVars
  BY <1>5, ListsStutter, SelectionsStutter, DraftsStutter, HoursStutter DEF PagesInv, webVars
<1> QED
  BY <1>1, <1>2, <1>3, <1>4, <1>5 DEF Next

(* Whatever page is open, whatever the reader clicks and however the API    *)
(* answers, the four invariants hold.                                       *)
THEOREM PagesInvariance == Spec => []PagesInv
<1>1. Init => PagesInv
  BY PagesStart
<1>2. PagesInv /\ [Next]_webVars => PagesInv'
  BY PagesKeep
<1> QED
  BY <1>1, <1>2, PTL DEF Spec

(* What the pages keep is of the kinds their components declare.            *)
THEOREM PagesTypes == Spec => []TypeOK
<1>1. PagesInv => TypeOK
  BY DEF PagesInv, TypeOK, ListsInv, SelectionsInv, DraftsInv, HoursInv
<1> QED
  BY <1>1, PagesInvariance, PTL

(* A page that patches its own copy of the rows lists, once everything is   *)
(* answered and if nothing crossed or failed to come, what the API would    *)
(* give it, and a classmate's page the comment just left there as well; no  *)
(* crossing and no failure hides a row, but that of a part of a fetch (and  *)
(* crossings at the manager of classes); and a disabled button is enough to *)
(* send nothing of its kind twice.                                          *)
THEOREM ListsStay == Spec => []ListsHold
<1>1. PagesInv => ListsHold
  BY ListsPromise DEF PagesInv, ListsHold
<1> QED
  BY <1>1, PagesInvariance, PTL

(* What is listed belongs to what is selected, photos are never of another  *)
(* selection, and a page that is come back to stands where it was left.     *)
THEOREM SelectionsStay == Spec => []SelectionsHold
<1>1. PagesInv => SelectionsHold
  BY SelectionsAgree DEF PagesInv, SelectionsHold
<1> QED
  BY <1>1, PagesInvariance, PTL

(* What is typed is kept until it is saved or given up, but for a hurried   *)
(* import, move, profile or feedback; no form is sent twice at once, the    *)
(* password link shown works, and an event is shown at the hour it was      *)
(* entered at, but near a change of the clock.                              *)
THEOREM FormsStay == Spec => []FormsHold
<1>1. PagesInv => FormsHold
  BY DraftsAsk, HoursKept DEF PagesInv, FormsHold
<1> QED
  BY <1>1, PagesInvariance, PTL
===============================================================================
