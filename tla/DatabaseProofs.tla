--------------------------- MODULE DatabaseProofs ---------------------------
(***************************************************************************)
(* The safety of Database, for any number of calls and rotations.          *)
(*                                                                         *)
(* The properties rest on three facts that Inv adds: a call's pools do not *)
(* exist before the attempt that creates them, so that creating one never  *)
(* revives another (Fresh); a call works on a pool that is open, and open  *)
(* pools stay open, so that what it gives back changes no other kind of    *)
(* pool (OnOpenPool); and a pool a retry created has credentials that are  *)
(* no older than its call (Retried, with the order of rotations, Ordered). *)
(***************************************************************************)
EXTENDS Database, TLAPS

Fresh == \A c \in Calls :
    /\ call[c].pc = "idle" => call[c].try = 0 /\ pool[<<c, 0>>] = NoPool
    /\ call[c].try = 0 => pool[<<c, 1>>] = NoPool

OnOpenPool == \A c \in Calls :
    call[c].pc \in Running => /\ call[c].on \in Pools
                              /\ pool[call[c].on].state = "open"

Retried == \A c \in Calls :
    /\ call[c].try = 1 => call[c].on = <<c, 1>>
    /\ pool[<<c, 1>>].state = "open" => begun[c].secret <= pool[<<c, 1>>].creds

Ordered ==
    /\ secret <= password
    /\ \A p \in Pools : pool[p].creds <= secret
    /\ \A c \in Calls : begun[c].secret <= secret /\ begun[c].password <= password

(* What the pools keep, and what a call holds at the points where it gives *)
(* its connection back.                                                    *)
Clean ==
    /\ \A p \in Pools : pool[p].idle \subseteq {"clean"}
    /\ \A c \in Calls :
          /\ call[c].op = "query" => call[c].conn \in {"none", "new", "clean"}
          /\ At(c, "query", "query") => call[c].conn \in {"new", "clean"}
          /\ At(c, "transaction", "connect") => call[c].conn \in {"new", "clean"}
          /\ At(c, "transaction", "release") => call[c].conn \in {"clean", "broken"}

Answered == \A c \in Calls :
    At(c, "transaction", "release") => call[c].then \in Final

Inv == /\ TypeOK /\ SlotIsUsable /\ Fresh /\ OnOpenPool /\ Clean /\ Answered
       /\ LeakNeedsLostFailure
       /\ Retried /\ Ordered /\ RotationIsInvisible

-----------------------------------------------------------------------------
LEMMA PoolNames ==
    ASSUME NEW c \in Calls, NEW i \in {0, 1}
    PROVE  /\ <<c, i>> \in Pools
           /\ <<c, i>> # Null
           /\ \A d \in Calls, j \in {0, 1} : <<c, i>> = <<d, j>> <=> c = d /\ i = j
BY DatabaseAssumption DEF Pools

(* A creation that failed after its promise was taken out of the slot.     *)
Excuse == \E q \in Pools : pool[q].state = "failed" /\ pool[q].ending

(* A call moves on by itself, on an open pool; it may give its connection  *)
(* back, and nothing else changes.                                         *)
Local(c, l) ==
    /\ call[c].pc \in Running
    /\ l \in Call
    /\ l.op = call[c].op /\ l.try = call[c].try /\ l.on = call[c].on
    /\ l.pc \in Running \cup Final
    /\ l.op = "query" => l.pc \in Final /\ l.conn = "none"
    /\ l.op = "transaction" /\ l.pc = "release"
         => l.conn \in {"clean", "broken"} /\ l.then \in Final
    /\ ~ (l.op = "transaction" /\ l.pc = "connect")
    /\ SecretArn /\ l.op = "query" /\ l.pc = "stale"
         => \/ begun[c].password # begun[c].secret
            \/ begun[c].password # password
    /\ Set(c, l)
    /\ \/ pool' = pool
       \/ \E conn \in {"clean", "broken"} : pool' = Returned(call[c].on, conn)
    /\ UNCHANGED <<slot, password, secret, begun>>

LEMMA LocalPools ==
    ASSUME Inv, NEW c \in Calls, NEW l, Local(c, l)
    PROVE  /\ pool' \in [Pools -> Pool]
           /\ \A p \in Pools : /\ pool'[p].state = pool[p].state
                               /\ pool'[p].ending = pool[p].ending
                               /\ pool'[p].creds = pool[p].creds
                               /\ pool'[p].idle \subseteq {"clean"}
                               /\ pool[p].state # "open" => pool'[p] = pool[p]
<1>1. call[c].on \in Pools /\ pool[call[c].on].state = "open"
  BY DEF Inv, OnOpenPool, Local
<1>2. pool \in [Pools -> Pool] /\ \A p \in Pools : pool[p].idle \subseteq {"clean"}
  BY DEF Inv, TypeOK, Clean
<1>3. CASE pool' = pool
  BY <1>2, <1>3
<1>4. CASE \E conn \in {"clean", "broken"} : pool' = Returned(call[c].on, conn)
  <2> PICK conn \in {"clean", "broken"} : pool' = Returned(call[c].on, conn)
    BY <1>4
  <2> DEFINE p == call[c].on
             i == IF pool[p].ending \/ conn = "broken" THEN {} ELSE pool[p].idle \cup {conn}
  <2>1. pool' = [pool EXCEPT ![p].idle = i]
    BY DEF Returned
  <2>2. i \subseteq {"clean"}
    BY <1>1, <1>2
  <2> HIDE DEF i
  <2>3. QED
    BY <1>1, <1>2, <2>1, <2>2 DEF Pool
<1>5. QED
  BY <1>3, <1>4 DEF Local

LEMMA LocalStep ==
    ASSUME Inv, NEW c \in Calls, NEW l, Local(c, l)
    PROVE  Inv'
<1>1. /\ call' \in [Calls -> Call] /\ call'[c] = l
      /\ \A d \in Calls \ {c} : call'[d] = call[d]
  BY DEF Inv, TypeOK, Local, Set
<1>2. /\ pool' \in [Pools -> Pool]
      /\ \A p \in Pools : /\ pool'[p].state = pool[p].state
                          /\ pool'[p].ending = pool[p].ending
                          /\ pool'[p].creds = pool[p].creds
                          /\ pool'[p].idle \subseteq {"clean"}
                          /\ pool[p].state # "open" => pool'[p] = pool[p]
  BY LocalPools
<1>3. UNCHANGED <<slot, password, secret, begun>>
  BY DEF Local
<1>4. TypeOK'
  BY <1>1, <1>2, <1>3 DEF Inv, TypeOK
<1>5. SlotIsUsable'
  BY <1>2, <1>3 DEF Inv, TypeOK, SlotIsUsable
<1>6. Fresh'
  <2> SUFFICES ASSUME NEW d \in Calls
               PROVE  /\ call'[d].pc = "idle" => call'[d].try = 0 /\ pool'[<<d, 0>>] = NoPool
                      /\ call'[d].try = 0 => pool'[<<d, 1>>] = NoPool
    BY DEF Fresh
  <2>1. <<d, 0>> \in Pools /\ <<d, 1>> \in Pools
    BY PoolNames
  <2>2. /\ call[d].pc = "idle" => call[d].try = 0 /\ pool[<<d, 0>>] = NoPool
        /\ call[d].try = 0 => pool[<<d, 1>>] = NoPool
    BY DEF Inv, Fresh
  <2>3. call'[d].try = call[d].try /\ (call'[d].pc = "idle" => call[d].pc = "idle")
    BY <1>1 DEF Local, Running, Final
  <2>4. QED
    BY <1>2, <2>1, <2>2, <2>3 DEF NoPool
<1>7. OnOpenPool'
  BY <1>1, <1>2 DEF Inv, OnOpenPool, Local
<1>8. Clean'
  <2>1. \A d \in Calls :
          /\ call'[d].op = "query" => call'[d].conn \in {"none", "new", "clean"}
          /\ At(d, "query", "query")' => call'[d].conn \in {"new", "clean"}
          /\ At(d, "transaction", "connect")' => call'[d].conn \in {"new", "clean"}
          /\ At(d, "transaction", "release")' => call'[d].conn \in {"clean", "broken"}
    BY <1>1 DEF Inv, Clean, Local, At, Final
  <2>2. QED
    BY <1>2, <2>1 DEF Clean
<1>9. LeakNeedsLostFailure'
  BY <1>2, <1>3 DEF Inv, LeakNeedsLostFailure
<1>10. Retried'
  <2> SUFFICES ASSUME NEW d \in Calls
               PROVE  /\ call'[d].try = 1 => call'[d].on = <<d, 1>>
                      /\ pool'[<<d, 1>>].state = "open"
                           => begun[d].secret <= pool'[<<d, 1>>].creds
    BY <1>3 DEF Retried
  <2>1. <<d, 1>> \in Pools
    BY PoolNames
  <2>2. call'[d].try = call[d].try /\ call'[d].on = call[d].on
    BY <1>1 DEF Local
  <2>3. QED
    BY <1>2, <2>1, <2>2 DEF Inv, Retried
<1>11. Ordered'
  BY <1>2, <1>3 DEF Inv, Ordered
<1>12. RotationIsInvisible'
  BY <1>1, <1>3 DEF Inv, RotationIsInvisible, Local
<1>13. Answered'
  BY <1>1 DEF Inv, Answered, Local, At
<1>14. QED
  BY <1>4, <1>5, <1>6, <1>7, <1>8, <1>9, <1>10, <1>11, <1>12, <1>13 DEF Inv

-----------------------------------------------------------------------------
(* The steps of a call that has its pool are local.                        *)
LEMMA QueryOkLocal ==
    ASSUME Inv, NEW c \in Calls, QueryOk(c)
    PROVE  Inv'
<1> DEFINE l == [call[c] EXCEPT !.pc = "ok", !.conn = "none"]
<1>1. call[c] \in Call /\ call[c].op = "query" /\ call[c].pc = "query"
  BY DEF Inv, TypeOK, QueryOk, At
<1>2. Held(c) = "clean"
  BY <1>1 DEF Inv, Clean, At, Held
<1>3. Local(c, l)
  BY <1>1, <1>2 DEF QueryOk, Local, Call, Running, Final
<1>4. QED
  BY <1>3, LocalStep

LEMMA QueryErrorLocal ==
    ASSUME Inv, NEW c \in Calls, QueryError(c)
    PROVE  Inv'
<1> DEFINE l == [call[c] EXCEPT !.pc = "failed", !.conn = "none"]
<1>1. call[c] \in Call /\ call[c].op = "query" /\ call[c].pc = "query"
  BY DEF Inv, TypeOK, QueryError, At
<1>2. Held(c) = "clean"
  BY <1>1 DEF Inv, Clean, At, Held
<1>3. Local(c, l)
  BY <1>1, <1>2 DEF QueryError, Local, Call, Running, Final
<1>4. QED
  BY <1>3, LocalStep

(* The second attempt is on a pool that was created after the call began,  *)
(* with a secret at least as new as the one of that time.                  *)
LEMMA QueryStaleLocal ==
    ASSUME Inv, NEW c \in Calls, QueryStale(c)
    PROVE  Inv'
<1> DEFINE l == [call[c] EXCEPT !.pc = "stale", !.conn = "none"]
<1>1. call[c] \in Call /\ call[c].op = "query" /\ call[c].pc = "query"
  BY DEF Inv, TypeOK, QueryStale, At
<1>2. SecretArn => \/ begun[c].password # begun[c].secret
                   \/ begun[c].password # password
  <2> SUFFICES ASSUME SecretArn
               PROVE  \/ begun[c].password # begun[c].secret
                      \/ begun[c].password # password
    OBVIOUS
  <2>1. <<c, 1>> \in Pools
    BY PoolNames
  <2>2. call[c].on = <<c, 1>>
    BY DEF QueryStale, Inv, Retried
  <2>3. pool[<<c, 1>>].state = "open"
    BY <1>1, <2>2 DEF Inv, OnOpenPool, Running
  <2>4. /\ begun[c].secret <= pool[<<c, 1>>].creds
        /\ pool[<<c, 1>>].creds <= secret /\ secret <= password
    BY <2>1, <2>3 DEF Inv, Retried, Ordered
  <2>5. pool[<<c, 1>>].creds # password
    BY <2>2 DEF QueryStale, Refused
  <2>6. /\ begun[c].secret \in Nat /\ pool[<<c, 1>>].creds \in Nat
        /\ secret \in Nat /\ password \in Nat
    BY <2>1, DatabaseAssumption DEF Inv, TypeOK, Pool
  <2>7. QED
    BY <2>4, <2>5, <2>6
<1>3. Local(c, l)
  BY <1>1, <1>2 DEF QueryStale, Local, Call, Running, Final
<1>4. QED
  BY <1>3, LocalStep

LEMMA TransactionLocal ==
    ASSUME Inv, NEW c \in Calls, Transaction(c)
    PROVE  Inv'
<1>1. call[c] \in Call
  BY DEF Inv, TypeOK
<1>2. CASE TransactionConnect(c)
  <2>1. call[c].op = "transaction" /\ call[c].pc = "connect"
    BY <1>2 DEF TransactionConnect, At
  <2>2. Held(c) = "clean"
    BY <2>1 DEF Inv, Clean, At, Held
  <2>3. PICK l \in {[call[c] EXCEPT !.pc = "begin", !.conn = Held(c)],
                    [call[c] EXCEPT !.pc = "stale", !.conn = "none"],
                    [call[c] EXCEPT !.pc = "failed", !.conn = "none"]} : Step(c, l)
    BY <1>2 DEF TransactionConnect
  <2>4. Local(c, l)
    BY <1>1, <2>1, <2>2, <2>3 DEF Step, Local, Call, Running, Final
  <2>5. QED
    BY <2>4, LocalStep
<1>3. CASE TransactionBegin(c)
  <2> DEFINE l == [call[c] EXCEPT !.pc = "work", !.conn = "begun"]
  <2>1. Local(c, l)
    BY <1>1, <1>3 DEF TransactionBegin, At, Step, Local, Call, Running, Final
  <2>2. QED
    BY <2>1, LocalStep
<1>4. CASE TransactionWork(c)
  <2> DEFINE l == [call[c] EXCEPT !.pc = "commit"]
  <2>1. Local(c, l)
    BY <1>1, <1>4 DEF TransactionWork, At, Step, Local, Call, Running, Final
  <2>2. QED
    BY <2>1, LocalStep
<1>5. CASE TransactionCommit(c)
  <2> DEFINE l == [call[c] EXCEPT !.pc = "release", !.conn = "clean", !.then = "ok"]
  <2>1. Local(c, l)
    BY <1>1, <1>5 DEF TransactionCommit, At, Step, Local, Call, Running, Final
  <2>2. QED
    BY <2>1, LocalStep
<1>6. CASE TransactionThrow(c)
  <2>1. PICK conn \in {call[c].conn, "broken"} :
               Step(c, [call[c] EXCEPT !.pc = "rollback", !.conn = conn])
    BY <1>6 DEF TransactionThrow
  <2> DEFINE l == [call[c] EXCEPT !.pc = "rollback", !.conn = conn]
  <2>2. Local(c, l)
    BY <1>1, <1>6, <2>1 DEF TransactionThrow, At, Step, Local, Call, Running, Final
  <2>3. QED
    BY <2>2, LocalStep
<1>7. CASE TransactionRollback(c)
  <2>1. PICK conn \in {"clean", "broken"} :
               Step(c, [call[c] EXCEPT !.pc = "release", !.conn = conn,
                                       !.then = "failed"])
    BY <1>7 DEF TransactionRollback
  <2> DEFINE l == [call[c] EXCEPT !.pc = "release", !.conn = conn, !.then = "failed"]
  <2>2. Local(c, l)
    BY <1>1, <1>7, <2>1 DEF TransactionRollback, At, Step, Local, Call, Running, Final
  <2>3. QED
    BY <2>2, LocalStep
<1>8. CASE TransactionRelease(c)
  <2> DEFINE l == [call[c] EXCEPT !.pc = call[c].then, !.conn = "none"]
  <2>1. call[c].op = "transaction" /\ call[c].pc = "release"
    BY <1>8 DEF TransactionRelease, At
  <2>2. call[c].conn \in {"clean", "broken"}
    BY <2>1 DEF Inv, Clean, At
  <2>3. call[c].then \in Final
    BY <2>1 DEF Inv, Answered, At
  <2>4. l \in Call /\ l.pc = call[c].then
    BY <1>1, <2>3 DEF Call, Running, Final
  <2>5. /\ Set(c, l) /\ UNCHANGED <<slot, password, secret, begun>>
        /\ \E conn \in {"clean", "broken"} : pool' = Returned(call[c].on, conn)
    BY <1>8, <2>2 DEF TransactionRelease
  <2>6. l.op = "transaction" /\ l.try = call[c].try /\ l.on = call[c].on
    BY <1>1, <2>1 DEF Call
  <2> HIDE DEF l
  <2>7. Local(c, l)
    BY <2>1, <2>3, <2>4, <2>5, <2>6 DEF Local, Running, Final
  <2>8. QED
    BY <2>7, LocalStep
<1>9. QED
  BY <1>2, <1>3, <1>4, <1>5, <1>6, <1>7, <1>8 DEF Transaction

-----------------------------------------------------------------------------
(* A call starts to wait for a pool it has just created, in a slot that    *)
(* was empty or whose pool it has ended.                                   *)
Creates(c, l, pools) ==
    /\ pool[<<c, l.try>>] = NoPool
    /\ pools \in [Pools -> Pool]
    /\ \A p \in Pools :
          /\ pools[p].state = pool[p].state
          /\ pools[p].creds = pool[p].creds
          /\ pools[p].idle \subseteq {"clean"}
          /\ pool[p].state = "none" => pools[p] = pool[p]
          /\ pool[p].ending => pools[p].ending
          /\ p = slot => pools[p].ending
          /\ pools[p].ending => pool[p].ending \/ p = slot
    /\ l \in Call /\ l.op \in {"query", "transaction"}
    /\ l.pc = "waiting" /\ l.conn = "none" /\ l.on = <<c, l.try>>
    /\ \/ l.try = 0 /\ call[c].pc = "idle"
       \/ l.try = 1 /\ call[c].try = 0
    /\ slot' = <<c, l.try>>
    /\ pool' = [pools EXCEPT ![<<c, l.try>>].state = "fetching"]
    /\ Set(c, l)
    /\ UNCHANGED <<password, secret>>
    /\ \/ l.try = 1 /\ begun' = begun
       \/ /\ l.try = 0
          /\ begun' = [begun EXCEPT ![c] = [password |-> password,
                                             secret |-> secret]]

LEMMA CreateStep ==
    ASSUME Inv, NEW c \in Calls, NEW l, NEW pools, Creates(c, l, pools)
    PROVE  Inv'
<1> DEFINE p == <<c, l.try>>
<1>1. /\ call' \in [Calls -> Call] /\ call'[c] = l
      /\ \A d \in Calls \ {c} : call'[d] = call[d]
  BY DEF Inv, TypeOK, Creates, Set
<1>2. l.try \in {0, 1} /\ p \in Pools
  <2>1. l.try \in {0, 1}
    BY DEF Creates
  <2>2. QED
    BY <2>1, PoolNames
<1>3. /\ pool' \in [Pools -> Pool]
      /\ \A q \in Pools \ {p} : pool'[q] = pools[q]
      /\ pool'[p] = [pools[p] EXCEPT !.state = "fetching"]
  BY <1>2 DEF Creates, Pool
<1>4. pool'[p].state = "fetching" /\ ~ pool'[p].ending /\ pool'[p].creds = 0
      /\ pool'[p].idle = {}
  <2>1. pools[p] = NoPool /\ pools[p] \in Pool
    BY <1>2 DEF Creates, NoPool
  <2>2. ~ pools[p].ending /\ pools[p].creds = 0 /\ pools[p].idle = {}
    BY <2>1 DEF NoPool
  <2>3. QED
    BY <1>3, <2>1, <2>2 DEF Pool
<1>5. /\ begun' \in [Calls -> [password : 0 .. Rotations, secret : 0 .. Rotations]]
      /\ \A d \in Calls \ {c} : begun'[d] = begun[d]
      /\ begun'[c] = begun[c] \/ begun'[c] = [password |-> password, secret |-> secret]
      /\ l.try = 1 => begun'[c] = begun[c]
  BY DEF Inv, TypeOK, Creates
<1>6. /\ slot' = p /\ password' = password /\ secret' = secret
      /\ password \in Nat /\ secret \in Nat
  BY DatabaseAssumption DEF Creates, Inv, TypeOK
<1>7. \A q \in Pools \ {p} :
         /\ pool'[q].state = pool[q].state
         /\ pool'[q].creds = pool[q].creds
         /\ pool'[q].idle \subseteq {"clean"}
         /\ pool[q].state = "none" => pool'[q] = pool[q]
         /\ pool[q].ending => pool'[q].ending
         /\ q = slot => pool'[q].ending
         /\ pool'[q].ending => pool[q].ending \/ q = slot
  BY <1>3 DEF Creates
<1>8. pool[p] = NoPool /\ pool[p].state = "none"
  BY DEF Creates, NoPool
<1>9. /\ l \in Call /\ l.pc = "waiting" /\ l.conn = "none" /\ l.on = p
      /\ \/ l.try = 0 /\ call[c].pc = "idle"
         \/ l.try = 1 /\ call[c].try = 0
  BY DEF Creates
<1> HIDE DEF p
<1>10. TypeOK'
  BY <1>1, <1>2, <1>3, <1>5, <1>6 DEF Inv, TypeOK
<1>11. SlotIsUsable'
  BY <1>4, <1>6 DEF SlotIsUsable
<1>12. Fresh'
  <2> SUFFICES ASSUME NEW d \in Calls
               PROVE  /\ call'[d].pc = "idle" => call'[d].try = 0 /\ pool'[<<d, 0>>] = NoPool
                      /\ call'[d].try = 0 => pool'[<<d, 1>>] = NoPool
    BY DEF Fresh
  <2>1. <<d, 0>> \in Pools /\ <<d, 1>> \in Pools
    BY PoolNames
  <2>2. /\ call[d].pc = "idle" => call[d].try = 0 /\ pool[<<d, 0>>] = NoPool
        /\ call[d].try = 0 => pool[<<d, 1>>] = NoPool
    BY DEF Inv, Fresh
  <2>3. CASE d = c
    <3>1. l.try = 0 => <<d, 1>> # p
      BY <2>3, PoolNames DEF p
    <3>2. l.try = 0 => pool'[<<d, 1>>] = NoPool
      BY <1>7, <1>9, <2>1, <2>2, <2>3, <3>1 DEF NoPool
    <3>3. QED
      BY <1>1, <1>9, <2>3, <3>2
  <2>4. CASE d # c
    <3>1. <<d, 0>> # p /\ <<d, 1>> # p
      BY <1>2, <2>4, PoolNames DEF p
    <3>2. QED
      BY <1>1, <1>7, <2>1, <2>2, <2>4, <3>1 DEF NoPool
  <2>5. QED
    BY <2>3, <2>4
<1>13. OnOpenPool'
  BY <1>1, <1>4, <1>7, <1>8, <1>9 DEF Inv, OnOpenPool, Running
<1>14. Clean'
  <2>1. \A q \in Pools : pool'[q].idle \subseteq {"clean"}
    BY <1>4, <1>7
  <2>2. \A d \in Calls :
          /\ call'[d].op = "query" => call'[d].conn \in {"none", "new", "clean"}
          /\ At(d, "query", "query")' => call'[d].conn \in {"new", "clean"}
          /\ At(d, "transaction", "connect")' => call'[d].conn \in {"new", "clean"}
          /\ At(d, "transaction", "release")' => call'[d].conn \in {"clean", "broken"}
    BY <1>1, <1>9 DEF Inv, Clean, At
  <2>3. QED
    BY <2>1, <2>2 DEF Clean
<1>15. Answered'
  BY <1>1, <1>9 DEF Inv, Answered, At
<1>16. LeakNeedsLostFailure'
  <2> SUFFICES ASSUME NEW q \in Pools, pool'[q].state \in {"fetching", "open"},
                      ~ pool'[q].ending, slot' # q
               PROVE  Excuse'
    BY DEF LeakNeedsLostFailure, Excuse
  <2>1. q # p /\ slot # q
    BY <1>6, <1>7
  <2>2. Excuse
    BY <1>7, <2>1 DEF Inv, LeakNeedsLostFailure, Excuse
  <2>3. QED
    BY <1>7, <1>8, <2>2 DEF Excuse
<1>17. Retried'
  <2> SUFFICES ASSUME NEW d \in Calls
               PROVE  /\ call'[d].try = 1 => call'[d].on = <<d, 1>>
                      /\ pool'[<<d, 1>>].state = "open"
                           => begun'[d].secret <= pool'[<<d, 1>>].creds
    BY DEF Retried
  <2>1. <<d, 1>> \in Pools
    BY PoolNames
  <2>2. CASE d = c
    <3>1. call'[d].try = 1 => call'[d].on = <<d, 1>>
      BY <1>1, <1>9, <2>2 DEF p
    <3>2. pool[<<d, 1>>].state = "none"
      <4>1. call[d].try = 0
        BY <1>9, <2>2 DEF Inv, Fresh
      <4>2. pool[<<d, 1>>] = NoPool
        BY <4>1 DEF Inv, Fresh
      <4>3. QED
        BY <4>2 DEF NoPool
    <3>3. pool'[<<d, 1>>].state # "open"
      BY <1>4, <1>7, <2>1, <3>2
    <3>4. QED
      BY <3>1, <3>3
  <2>3. CASE d # c
    <3>1. <<d, 1>> # p
      BY <1>2, <2>3, PoolNames DEF p
    <3>2. QED
      BY <1>1, <1>5, <1>7, <2>1, <2>3, <3>1 DEF Inv, Retried
  <2>4. QED
    BY <2>2, <2>3
<1>18. Ordered'
  <2>1. \A q \in Pools : pool'[q].creds <= secret'
    BY <1>4, <1>6, <1>7 DEF Inv, Ordered
  <2>2. \A d \in Calls : begun'[d].secret <= secret' /\ begun'[d].password <= password'
    BY <1>5, <1>6 DEF Inv, Ordered
  <2>3. QED
    BY <1>6, <2>1, <2>2 DEF Inv, Ordered
<1>19. RotationIsInvisible'
  BY <1>1, <1>5, <1>6, <1>9 DEF Inv, RotationIsInvisible
<1>20. QED
  BY <1>10, <1>11, <1>12, <1>13, <1>14, <1>15, <1>16, <1>17, <1>18, <1>19 DEF Inv

-----------------------------------------------------------------------------
LEMMA NoCallFields ==
    /\ NoCall \in Call
    /\ NoCall.try = 0 /\ NoCall.conn = "none" /\ NoCall.pc = "idle"
BY DEF NoCall, Call, Running, Final

(* A new call joins the pool in the slot, or waits for it.                 *)
LEMMA JoinStep ==
    ASSUME Inv, NEW c \in Calls, NEW l, call[c].pc = "idle", slot # Null,
           l \in Call, l.op \in {"query", "transaction"}, l.try = 0, l.on = slot,
           \/ l.pc = "waiting" /\ l.conn = "none"
           \/ /\ pool[slot].state = "open"
              /\ l.pc = Entry(l.op) /\ l.conn \in {"new", "clean"},
           Set(c, l), pool' = pool,
           UNCHANGED <<slot, password, secret>>,
           begun' = [begun EXCEPT ![c] = [password |-> password, secret |-> secret]]
    PROVE  Inv'
<1>1. /\ call' \in [Calls -> Call] /\ call'[c] = l
      /\ \A d \in Calls \ {c} : call'[d] = call[d]
  BY DEF Inv, TypeOK, Set
<1>2. /\ begun' \in [Calls -> [password : 0 .. Rotations, secret : 0 .. Rotations]]
      /\ \A d \in Calls \ {c} : begun'[d] = begun[d]
      /\ begun'[c].password = password /\ begun'[c].secret = secret
  BY DEF Inv, TypeOK
<1>3. l.pc # "idle" /\ l.pc # "release" /\ l.pc # "stale"
  BY DEF Entry
<1>4. TypeOK'
  BY <1>1, <1>2 DEF Inv, TypeOK
<1>5. SlotIsUsable' /\ LeakNeedsLostFailure'
  BY DEF Inv, SlotIsUsable, LeakNeedsLostFailure
<1>6. pool[<<c, 1>>] = NoPool
  BY DEF Inv, Fresh
<1>7. Fresh'
  <2> SUFFICES ASSUME NEW d \in Calls
               PROVE  /\ call'[d].pc = "idle" => call'[d].try = 0 /\ pool[<<d, 0>>] = NoPool
                      /\ call'[d].try = 0 => pool[<<d, 1>>] = NoPool
    BY DEF Fresh
  <2>1. CASE d = c
    BY <1>1, <1>3, <1>6, <2>1
  <2>2. CASE d # c
    BY <1>1, <2>2 DEF Inv, Fresh
  <2>3. QED
    BY <2>1, <2>2
<1>8. slot \in Pools
  BY DEF Inv, TypeOK
<1>9. OnOpenPool'
  BY <1>1, <1>8 DEF Inv, OnOpenPool, Running
<1>10. Clean'
  <2>1. \A d \in Calls :
          /\ call'[d].op = "query" => call'[d].conn \in {"none", "new", "clean"}
          /\ At(d, "query", "query")' => call'[d].conn \in {"new", "clean"}
          /\ At(d, "transaction", "connect")' => call'[d].conn \in {"new", "clean"}
          /\ At(d, "transaction", "release")' => call'[d].conn \in {"clean", "broken"}
    BY <1>1, <1>3 DEF Inv, Clean, At
  <2>2. QED
    BY <2>1 DEF Inv, Clean
<1>11. Answered'
  BY <1>1, <1>3 DEF Inv, Answered, At
<1>12. Retried'
  <2> SUFFICES ASSUME NEW d \in Calls
               PROVE  /\ call'[d].try = 1 => call'[d].on = <<d, 1>>
                      /\ pool[<<d, 1>>].state = "open"
                           => begun'[d].secret <= pool[<<d, 1>>].creds
    BY DEF Retried
  <2>1. CASE d = c
    BY <1>1, <1>6, <2>1 DEF NoPool
  <2>2. CASE d # c
    BY <1>1, <1>2, <2>2 DEF Inv, Retried
  <2>3. QED
    BY <2>1, <2>2
<1>13. Ordered'
  <2>1. password \in Nat /\ secret \in Nat
    BY DatabaseAssumption DEF Inv, TypeOK
  <2>2. QED
    BY <1>2, <2>1 DEF Inv, Ordered
<1>14. RotationIsInvisible'
  BY <1>1, <1>2, <1>3 DEF Inv, RotationIsInvisible
<1>15. QED
  BY <1>4, <1>5, <1>7, <1>9, <1>10, <1>11, <1>12, <1>13, <1>14 DEF Inv

LEMMA BeginStep ==
    ASSUME Inv, NEW c \in Calls, NEW op \in {"query", "transaction"}, Begin(c, op)
    PROVE  Inv'
<1> DEFINE b == [NoCall EXCEPT !.op = op]
<1>1. b \in Call /\ b.op = op /\ b.try = 0 /\ b.conn = "none"
  BY NoCallFields DEF Call
<1>2. /\ call[c].pc = "idle" /\ GetPool(c, b, slot, pool)
      /\ begun' = [begun EXCEPT ![c] = [password |-> password, secret |-> secret]]
      /\ UNCHANGED <<password, secret>>
  BY DEF Begin
<1> HIDE DEF b
<1>3. CASE slot = Null
  <2> DEFINE l == [b EXCEPT !.pc = "waiting", !.on = <<c, 0>>]
  <2>1. slot' = <<c, 0>> /\ pool' = [pool EXCEPT ![<<c, 0>>].state = "fetching"] /\ Set(c, l)
    BY <1>1, <1>2, <1>3 DEF GetPool
  <2>2. l \in Call /\ l.pc = "waiting" /\ l.on = <<c, 0>> /\ l.op = op /\ l.try = 0
        /\ l.conn = "none"
    BY <1>1, PoolNames DEF Call
  <2> HIDE DEF l
  <2>3. pool[<<c, 0>>] = NoPool
    BY <1>2 DEF Inv, Fresh
  <2>4. \A p \in Pools : p # slot /\ pool[p].idle \subseteq {"clean"}
    BY <1>3, DatabaseAssumption DEF Inv, Clean
  <2>5. Creates(c, l, pool)
    BY <1>2, <2>1, <2>2, <2>3, <2>4 DEF Creates, Inv, TypeOK
  <2>6. QED
    BY <2>5, CreateStep
<1>4. CASE slot # Null
  <2>1. slot \in Pools /\ pool[slot].idle \subseteq {"clean"}
    BY <1>4 DEF Inv, TypeOK, Clean
  <2>2. slot' = slot /\ pool' = pool
    BY <1>2, <1>4 DEF GetPool
  <2>3. CASE pool[slot].state # "open"
    <3> DEFINE l == [b EXCEPT !.pc = "waiting", !.on = slot]
    <3>1. Set(c, l)
      BY <1>2, <1>4, <2>3 DEF GetPool
    <3>2. l \in Call /\ l.pc = "waiting" /\ l.on = slot /\ l.op = op /\ l.try = 0
          /\ l.conn = "none"
      BY <1>1, <2>1 DEF Call
    <3> HIDE DEF l
    <3>3. QED
      BY <1>2, <1>4, <2>2, <3>1, <3>2, JoinStep
  <2>4. CASE pool[slot].state = "open"
    <3>1. PICK conn \in {"new", "clean"} :
             Set(c, [b EXCEPT !.pc = Entry(b.op), !.on = slot, !.conn = conn])
      BY <1>2, <1>4, <2>1, <2>4 DEF GetPool
    <3> DEFINE l == [b EXCEPT !.pc = Entry(b.op), !.on = slot, !.conn = conn]
    <3>2. l \in Call /\ l.pc = Entry(op) /\ l.on = slot /\ l.op = op /\ l.try = 0
          /\ l.conn = conn
      BY <1>1, <2>1 DEF Call, Entry, Running
    <3>3. Set(c, l)
      BY <3>1
    <3> HIDE DEF l
    <3>4. QED
      BY <1>2, <1>4, <2>2, <2>4, <3>2, <3>3, JoinStep
  <2>5. QED
    BY <2>3, <2>4
<1>5. QED
  BY <1>3, <1>4

(* The retry ends whatever is in the slot and creates a pool of its own.   *)
LEMMA QueryRetryStep ==
    ASSUME Inv, NEW c \in Calls, QueryRetry(c)
    PROVE  Inv'
<1> DEFINE b == [call[c] EXCEPT !.try = 1, !.conn = "none"]
           pools == IF slot = Null THEN pool ELSE [pool EXCEPT ![slot] = Ended(@)]
           l == [b EXCEPT !.pc = "waiting", !.on = <<c, 1>>]
<1>1. call[c] \in Call /\ call[c].op = "query" /\ call[c].try = 0
  BY DEF Inv, TypeOK, QueryRetry, At
<1>2. b \in Call /\ b.op = "query" /\ b.try = 1 /\ b.conn = "none"
  BY <1>1 DEF Call
<1>3. GetPool(c, b, Null, pools) /\ UNCHANGED <<password, secret, begun>>
  BY DEF QueryRetry
<1>4. /\ pools \in [Pools -> Pool]
      /\ \A p \in Pools :
            /\ pools[p].state = pool[p].state
            /\ pools[p].creds = pool[p].creds
            /\ pools[p].idle \subseteq {"clean"}
            /\ pool[p].state = "none" => pools[p] = pool[p]
            /\ pool[p].ending => pools[p].ending
            /\ p = slot => pools[p].ending
            /\ pools[p].ending => pool[p].ending \/ p = slot
  <2>1. /\ pool \in [Pools -> Pool] /\ slot \in Pools \cup {Null} /\ Null \notin Pools
        /\ \A p \in Pools : pool[p].idle \subseteq {"clean"}
    BY DatabaseAssumption DEF Inv, TypeOK, Clean
  <2>2. slot # Null => pool[slot].state # "none"
    BY DEF Inv, SlotIsUsable
  <2>3. CASE slot = Null
    BY <2>1, <2>3
  <2>4. CASE slot # Null
    <3>1. pools = [pool EXCEPT ![slot] = Ended(pool[slot])] /\ slot \in Pools
      BY <2>1, <2>4
    <3>2. /\ Ended(pool[slot]) \in Pool /\ Ended(pool[slot]).ending
          /\ Ended(pool[slot]).idle = {}
          /\ Ended(pool[slot]).state = pool[slot].state
          /\ Ended(pool[slot]).creds = pool[slot].creds
      BY <2>1, <3>1 DEF Ended, Pool
    <3> HIDE DEF pools
    <3>3. QED
      BY <2>1, <2>2, <2>4, <3>1, <3>2
  <2>5. QED
    BY <2>3, <2>4
<1> HIDE DEF pools
<1>5. slot' = <<c, 1>> /\ pool' = [pools EXCEPT ![<<c, 1>>].state = "fetching"]
      /\ Set(c, l)
  BY <1>2, <1>3 DEF GetPool
<1> HIDE DEF b
<1>6. l \in Call /\ l.pc = "waiting" /\ l.on = <<c, 1>> /\ l.op = "query" /\ l.try = 1
      /\ l.conn = "none"
  BY <1>2, PoolNames DEF Call
<1> HIDE DEF l
<1>7. pool[<<c, 1>>] = NoPool
  BY <1>1 DEF Inv, Fresh
<1>8. Creates(c, l, pools)
  BY <1>1, <1>3, <1>4, <1>5, <1>6, <1>7 DEF Creates
<1>9. QED
  BY <1>8, CreateStep

-----------------------------------------------------------------------------
(* Who waits for a pool goes on when it opens, and fails when it fails.    *)
LEMMA FetchOkStep ==
    ASSUME Inv, NEW p \in Pools, FetchOk(p)
    PROVE  Inv'
<1> DEFINE woken(c) == call[c].pc = "waiting" /\ call[c].on = p
<1>1. /\ pool[p].state = "fetching" /\ pool[p] \in Pool
      /\ pool \in [Pools -> Pool] /\ secret \in 0 .. Rotations
      /\ UNCHANGED <<slot, password, secret, begun>>
  BY DEF FetchOk, Inv, TypeOK
<1>2. /\ pool' \in [Pools -> Pool]
      /\ \A q \in Pools \ {p} : pool'[q] = pool[q]
      /\ pool'[p].state = "open" /\ pool'[p].creds = secret
      /\ pool'[p].ending = pool[p].ending /\ pool'[p].idle = pool[p].idle
  BY <1>1 DEF FetchOk, Pool
<1>3. \A c \in Calls :
         /\ woken(c) => call'[c] = [call[c] EXCEPT !.pc = Entry(call[c].op), !.conn = "new"]
         /\ ~ woken(c) => call'[c] = call[c]
  BY DEF FetchOk
<1>4. call \in [Calls -> Call] /\ call' = [c \in Calls |-> call'[c]]
  BY DEF FetchOk, Inv, TypeOK
<1>5. \A c \in Calls : woken(c) =>
         /\ call'[c] \in Call /\ call'[c].on = p /\ call'[c].op = call[c].op
         /\ call'[c].try = call[c].try /\ call'[c].conn = "new"
         /\ call'[c].pc = Entry(call[c].op)
  <2> SUFFICES ASSUME NEW c \in Calls, woken(c)
               PROVE  /\ call'[c] \in Call /\ call'[c].on = p /\ call'[c].op = call[c].op
                      /\ call'[c].try = call[c].try /\ call'[c].conn = "new"
                      /\ call'[c].pc = Entry(call[c].op)
    OBVIOUS
  <2>1. Entry(call[c].op) \in Running
    BY DEF Entry, Running
  <2>2. call[c] \in Call
    BY <1>4
  <2>3. call'[c] = [call[c] EXCEPT !.pc = Entry(call[c].op), !.conn = "new"]
    BY <1>3
  <2> HIDE DEF woken
  <2>4. call[c].on = p
    BY DEF woken
  <2>5. QED
    BY <2>1, <2>2, <2>3, <2>4 DEF Call
<1>6. \A c \in Calls : woken(c) => call[c].pc = "waiting" /\ call[c].on = p
  OBVIOUS
<1> HIDE DEF woken
<1>7. call' \in [Calls -> Call]
  BY <1>3, <1>4, <1>5
<1>8. TypeOK'
  BY <1>1, <1>2, <1>7 DEF Inv, TypeOK
<1>9. SlotIsUsable'
  BY <1>1, <1>2 DEF Inv, TypeOK, SlotIsUsable
<1>10. Fresh'
  <2> SUFFICES ASSUME NEW c \in Calls
               PROVE  /\ call'[c].pc = "idle" => call'[c].try = 0 /\ pool'[<<c, 0>>] = NoPool
                      /\ call'[c].try = 0 => pool'[<<c, 1>>] = NoPool
    BY DEF Fresh
  <2>1. <<c, 0>> \in Pools /\ <<c, 1>> \in Pools
    BY PoolNames
  <2>2. \A q \in Pools : pool[q] = NoPool => pool'[q] = NoPool
    BY <1>1, <1>2 DEF NoPool
  <2>3. call'[c].pc = "idle" => call[c].pc = "idle"
    BY <1>3, <1>5 DEF Entry
  <2>4. call'[c].try = call[c].try
    BY <1>3, <1>5
  <2>5. /\ call[c].pc = "idle" => call[c].try = 0 /\ pool[<<c, 0>>] = NoPool
        /\ call[c].try = 0 => pool[<<c, 1>>] = NoPool
    BY DEF Inv, Fresh
  <2>6. QED
    BY <2>1, <2>2, <2>3, <2>4, <2>5
<1>11. OnOpenPool'
  <2> SUFFICES ASSUME NEW c \in Calls, call'[c].pc \in Running
               PROVE  call'[c].on \in Pools /\ pool'[call'[c].on].state = "open"
    BY DEF OnOpenPool
  <2>1. CASE woken(c)
    BY <1>2, <1>5, <2>1
  <2>2. CASE ~ woken(c)
    <3>1. call'[c] = call[c]
      BY <1>3, <2>2
    <3>2. call[c].on \in Pools /\ pool[call[c].on].state = "open"
      BY <3>1 DEF Inv, OnOpenPool
    <3>3. call[c].on # p
      BY <1>1, <3>2
    <3>4. QED
      BY <1>2, <3>1, <3>2, <3>3
  <2>3. QED
    BY <2>1, <2>2
<1>12. Clean'
  <2>1. \A q \in Pools : pool'[q].idle \subseteq {"clean"}
    BY <1>2 DEF Inv, Clean
  <2>2. \A c \in Calls :
          /\ call'[c].op = "query" => call'[c].conn \in {"none", "new", "clean"}
          /\ At(c, "query", "query")' => call'[c].conn \in {"new", "clean"}
          /\ At(c, "transaction", "connect")' => call'[c].conn \in {"new", "clean"}
          /\ At(c, "transaction", "release")' => call'[c].conn \in {"clean", "broken"}
    BY <1>3, <1>5 DEF Inv, Clean, At, Entry
  <2>3. QED
    BY <2>1, <2>2 DEF Clean
<1>13. Answered'
  BY <1>3, <1>5 DEF Inv, Answered, At, Entry
<1>14. LeakNeedsLostFailure'
  <2>1. \A q \in Pools : pool'[q].ending = pool[q].ending
    BY <1>2
  <2>2. \A q \in Pools : pool[q].state = "failed" => pool'[q].state = "failed"
    BY <1>1, <1>2
  <2>3. \A q \in Pools : pool'[q].state \in {"fetching", "open"}
                            => pool[q].state \in {"fetching", "open"}
    BY <1>1, <1>2
  <2>4. QED
    BY <1>1, <2>1, <2>2, <2>3 DEF Inv, LeakNeedsLostFailure
<1>15. Retried'
  <2> SUFFICES ASSUME NEW c \in Calls
               PROVE  /\ call'[c].try = 1 => call'[c].on = <<c, 1>>
                      /\ pool'[<<c, 1>>].state = "open"
                           => begun[c].secret <= pool'[<<c, 1>>].creds
    BY <1>1 DEF Retried
  <2>1. <<c, 1>> \in Pools
    BY PoolNames
  <2>2. call'[c].try = 1 => call'[c].on = <<c, 1>>
    BY <1>3, <1>5, <1>6 DEF Inv, Retried
  <2>3. CASE <<c, 1>> = p
    BY <1>2, <2>2, <2>3 DEF Inv, Ordered
  <2>4. CASE <<c, 1>> # p
    BY <1>2, <2>1, <2>2, <2>4 DEF Inv, Retried
  <2>5. QED
    BY <2>3, <2>4
<1>16. Ordered'
  <2>1. secret \in Nat
    BY <1>1, DatabaseAssumption
  <2>2. QED
    BY <1>1, <1>2, <2>1 DEF Inv, Ordered
<1>17. RotationIsInvisible'
  BY <1>1, <1>3, <1>5 DEF Inv, RotationIsInvisible, Entry
<1>18. QED
  BY <1>8, <1>9, <1>10, <1>11, <1>12, <1>13, <1>14, <1>15, <1>16, <1>17 DEF Inv

(* A failed creation empties the slot whichever pool is in it: if it is    *)
(* another one, the failed promise had been taken out, to be ended.        *)
LEMMA FetchFailStep ==
    ASSUME Inv, NEW p \in Pools, FetchFail(p)
    PROVE  Inv'
<1> DEFINE woken(c) == call[c].pc = "waiting" /\ call[c].on = p
<1>1. /\ pool[p].state = "fetching" /\ pool[p] \in Pool
      /\ pool \in [Pools -> Pool] /\ slot' = Null
      /\ UNCHANGED <<password, secret, begun>>
  BY DEF FetchFail, Inv, TypeOK
<1>2. /\ pool' \in [Pools -> Pool]
      /\ \A q \in Pools \ {p} : pool'[q] = pool[q]
      /\ pool'[p].state = "failed" /\ pool'[p].creds = pool[p].creds
      /\ pool'[p].ending = pool[p].ending /\ pool'[p].idle = pool[p].idle
  BY <1>1 DEF FetchFail, Pool
<1>3. \A c \in Calls :
         /\ woken(c) => call'[c] = [call[c] EXCEPT !.pc = "failed"]
         /\ ~ woken(c) => call'[c] = call[c]
  BY DEF FetchFail, FailWaiters
<1>4. call \in [Calls -> Call] /\ call' = [c \in Calls |-> call'[c]]
  BY DEF FetchFail, FailWaiters, Inv, TypeOK
<1>5. \A c \in Calls : woken(c) =>
         /\ call'[c] \in Call /\ call'[c].on = call[c].on /\ call'[c].op = call[c].op
         /\ call'[c].try = call[c].try /\ call'[c].conn = call[c].conn
         /\ call'[c].pc = "failed"
  BY <1>3, <1>4 DEF Call, Final
<1> HIDE DEF woken
<1>6. TypeOK'
  <2>1. call' \in [Calls -> Call]
    BY <1>3, <1>4, <1>5
  <2>2. QED
    BY <1>1, <1>2, <2>1 DEF Inv, TypeOK
<1>7. SlotIsUsable'
  BY <1>1 DEF SlotIsUsable
<1>8. Fresh'
  <2> SUFFICES ASSUME NEW c \in Calls
               PROVE  /\ call'[c].pc = "idle" => call'[c].try = 0 /\ pool'[<<c, 0>>] = NoPool
                      /\ call'[c].try = 0 => pool'[<<c, 1>>] = NoPool
    BY DEF Fresh
  <2>1. <<c, 0>> \in Pools /\ <<c, 1>> \in Pools
    BY PoolNames
  <2>2. \A q \in Pools : pool[q] = NoPool => pool'[q] = NoPool
    BY <1>1, <1>2 DEF NoPool
  <2>3. call'[c].try = call[c].try /\ (call'[c].pc = "idle" => call[c].pc = "idle")
    BY <1>3, <1>5
  <2>4. /\ call[c].pc = "idle" => call[c].try = 0 /\ pool[<<c, 0>>] = NoPool
        /\ call[c].try = 0 => pool[<<c, 1>>] = NoPool
    BY DEF Inv, Fresh
  <2>5. QED
    BY <2>1, <2>2, <2>3, <2>4
<1>9. OnOpenPool'
  <2> SUFFICES ASSUME NEW c \in Calls, call'[c].pc \in Running
               PROVE  call'[c].on \in Pools /\ pool'[call'[c].on].state = "open"
    BY DEF OnOpenPool
  <2>1. call'[c] = call[c]
    BY <1>3, <1>5 DEF Running
  <2>2. QED
    BY <1>1, <1>2, <2>1 DEF Inv, OnOpenPool
<1>10. Clean'
  <2>1. \A q \in Pools : pool'[q].idle \subseteq {"clean"}
    BY <1>2 DEF Inv, Clean
  <2>2. \A c \in Calls :
          /\ call'[c].op = "query" => call'[c].conn \in {"none", "new", "clean"}
          /\ At(c, "query", "query")' => call'[c].conn \in {"new", "clean"}
          /\ At(c, "transaction", "connect")' => call'[c].conn \in {"new", "clean"}
          /\ At(c, "transaction", "release")' => call'[c].conn \in {"clean", "broken"}
    BY <1>3, <1>5 DEF Inv, Clean, At
  <2>3. QED
    BY <2>1, <2>2 DEF Clean
<1>11. Answered'
  BY <1>3, <1>5 DEF Inv, Answered, At
<1>12. LeakNeedsLostFailure'
  <2> SUFFICES ASSUME NEW q \in Pools, pool'[q].state \in {"fetching", "open"},
                      ~ pool'[q].ending
               PROVE  Excuse'
    BY DEF LeakNeedsLostFailure, Excuse
  <2>1. q # p /\ pool[q].state \in {"fetching", "open"} /\ ~ pool[q].ending
    BY <1>2
  <2>2. CASE slot = q
    <3>1. slot # p
      BY <2>1, <2>2
    <3>2. CASE pool[p].ending
      BY <1>2, <3>2 DEF Excuse
    <3>3. CASE ~ pool[p].ending
      <4>1. PICK r \in Pools : pool[r].state = "failed" /\ pool[r].ending
        BY <1>1, <3>1, <3>3 DEF Inv, LeakNeedsLostFailure
      <4>2. QED
        BY <1>1, <1>2, <4>1 DEF Excuse
    <3>4. QED
      BY <3>2, <3>3
  <2>3. CASE slot # q
    <3>1. PICK r \in Pools : pool[r].state = "failed" /\ pool[r].ending
      BY <2>1, <2>3 DEF Inv, LeakNeedsLostFailure
    <3>2. QED
      BY <1>1, <1>2, <3>1 DEF Excuse
  <2>4. QED
    BY <2>2, <2>3
<1>13. Retried'
  <2> SUFFICES ASSUME NEW c \in Calls
               PROVE  /\ call'[c].try = 1 => call'[c].on = <<c, 1>>
                      /\ pool'[<<c, 1>>].state = "open"
                           => begun[c].secret <= pool'[<<c, 1>>].creds
    BY <1>1 DEF Retried
  <2>1. <<c, 1>> \in Pools
    BY PoolNames
  <2>2. call'[c].try = call[c].try /\ call'[c].on = call[c].on
    BY <1>3, <1>5
  <2>3. QED
    BY <1>2, <2>1, <2>2 DEF Inv, Retried
<1>14. Ordered'
  BY <1>1, <1>2 DEF Inv, Ordered
<1>15. RotationIsInvisible'
  BY <1>1, <1>3, <1>5 DEF Inv, RotationIsInvisible
<1>16. QED
  BY <1>6, <1>7, <1>8, <1>9, <1>10, <1>11, <1>12, <1>13, <1>14, <1>15 DEF Inv

-----------------------------------------------------------------------------
LEMMA DestroyStep ==
    ASSUME Inv, Destroy
    PROVE  Inv'
<1> DEFINE p == slot
           e == Ended(pool[slot])
<1>1. /\ p \in Pools /\ pool \in [Pools -> Pool] /\ pool[p] \in Pool
      /\ slot' = Null /\ UNCHANGED <<password, secret, call, begun>>
  BY DEF Destroy, Inv, TypeOK
<1>2. pool' = [pool EXCEPT ![p] = e]
  BY DEF Destroy
<1>3. /\ e \in Pool /\ e.state = pool[p].state /\ e.creds = pool[p].creds
      /\ e.ending /\ e.idle = {}
  BY <1>1 DEF Ended, Pool
<1>4. pool[p].state \in {"fetching", "open"}
  BY DEF Destroy, Inv, SlotIsUsable
<1> HIDE DEF e
<1>5. /\ pool' \in [Pools -> Pool]
      /\ \A q \in Pools : /\ pool'[q].state = pool[q].state
                          /\ pool'[q].creds = pool[q].creds
                          /\ pool[q].ending => pool'[q].ending
                          /\ pool'[q].idle \subseteq pool[q].idle
                          /\ q # p => pool'[q] = pool[q]
                          /\ q = p => pool'[q].ending
  BY <1>1, <1>2, <1>3
<1> HIDE DEF p
<1>6. TypeOK'
  BY <1>1, <1>5 DEF Inv, TypeOK
<1>7. SlotIsUsable'
  BY <1>1 DEF SlotIsUsable
<1>8. Fresh'
  <2> SUFFICES ASSUME NEW c \in Calls
               PROVE  /\ call[c].pc = "idle" => call[c].try = 0 /\ pool'[<<c, 0>>] = NoPool
                      /\ call[c].try = 0 => pool'[<<c, 1>>] = NoPool
    BY <1>1 DEF Fresh
  <2>1. <<c, 0>> \in Pools /\ <<c, 1>> \in Pools
    BY PoolNames
  <2>2. \A q \in Pools : pool[q] = NoPool => pool'[q] = NoPool
    BY <1>4, <1>5 DEF NoPool
  <2>3. QED
    BY <2>1, <2>2 DEF Inv, Fresh
<1>9. OnOpenPool'
  BY <1>1, <1>5 DEF Inv, OnOpenPool
<1>10. Clean'
  <2>1. \A q \in Pools : pool'[q].idle \subseteq {"clean"}
    BY <1>5 DEF Inv, Clean
  <2>2. QED
    BY <1>1, <2>1 DEF Inv, Clean, At
<1>11. Answered'
  BY <1>1 DEF Inv, Answered, At
<1>12. LeakNeedsLostFailure'
  <2> SUFFICES ASSUME NEW q \in Pools, pool'[q].state \in {"fetching", "open"},
                      ~ pool'[q].ending
               PROVE  Excuse'
    BY DEF LeakNeedsLostFailure, Excuse
  <2>1. q # slot /\ pool[q].state \in {"fetching", "open"} /\ ~ pool[q].ending
    BY <1>5 DEF p
  <2>2. Excuse
    BY <2>1 DEF Inv, LeakNeedsLostFailure, Excuse
  <2>3. QED
    BY <1>5, <2>2 DEF Excuse
<1>13. Retried'
  <2>1. \A c \in Calls : <<c, 1>> \in Pools
    BY PoolNames
  <2>2. QED
    BY <1>1, <1>5, <2>1 DEF Inv, Retried
<1>14. Ordered'
  BY <1>1, <1>5 DEF Inv, Ordered
<1>15. RotationIsInvisible'
  BY <1>1 DEF Inv, RotationIsInvisible
<1>16. QED
  BY <1>6, <1>7, <1>8, <1>9, <1>10, <1>11, <1>12, <1>13, <1>14, <1>15 DEF Inv

(* A rotation only moves password and secret forwards.                     *)
LEMMA RotationStep ==
    ASSUME Inv, Rotate \/ Publish
    PROVE  Inv'
<1>1. UNCHANGED <<slot, pool, call, begun>>
  BY DEF Rotate, Publish
<1>2. /\ password \in Nat /\ secret \in Nat /\ Rotations \in Nat
      /\ secret <= password /\ password <= Rotations
  BY DatabaseAssumption DEF Inv, TypeOK, Ordered
<1>3. /\ password' \in 0 .. Rotations /\ secret' \in 0 .. Rotations
      /\ secret <= secret' /\ secret' <= password' /\ password <= password'
  BY <1>2 DEF Rotate, Publish
<1>4. /\ \A p \in Pools : pool[p].creds \in Nat
      /\ \A c \in Calls : begun[c].password \in Nat /\ begun[c].secret \in Nat
  BY DatabaseAssumption DEF Inv, TypeOK, Pool
<1>5. TypeOK'
  BY <1>1, <1>3 DEF Inv, TypeOK
<1>6. SlotIsUsable' /\ LeakNeedsLostFailure'
  BY <1>1 DEF Inv, SlotIsUsable, LeakNeedsLostFailure
<1>7. Fresh' /\ OnOpenPool' /\ Retried'
  BY <1>1 DEF Inv, Fresh, OnOpenPool, Retried
<1>8. Clean' /\ Answered'
  BY <1>1 DEF Inv, Clean, Answered, At
<1>9. Ordered'
  <2>1. password' \in Nat /\ secret' \in Nat
    BY <1>2, <1>3
  <2>2. \A p \in Pools : pool'[p].creds <= secret'
    BY <1>1, <1>2, <1>3, <1>4, <2>1 DEF Inv, Ordered
  <2>3. \A c \in Calls : begun'[c].secret <= secret' /\ begun'[c].password <= password'
    BY <1>1, <1>2, <1>3, <1>4, <2>1 DEF Inv, Ordered
  <2>4. QED
    BY <1>3, <2>2, <2>3 DEF Ordered
<1>10. RotationIsInvisible'
  <2>1. \A c \in Calls : begun[c].password <= password
    BY DEF Inv, Ordered
  <2>2. password' = password \/ password' = password + 1
    BY DEF Rotate, Publish
  <2>3. \A c \in Calls : begun[c].password # password => begun[c].password # password'
    BY <1>2, <1>3, <1>4, <2>1, <2>2
  <2>4. QED
    BY <1>1, <2>3 DEF Inv, RotationIsInvisible
<1>11. QED
  BY <1>5, <1>6, <1>7, <1>8, <1>9, <1>10 DEF Inv

LEMMA StutterStep ==
    ASSUME Inv, UNCHANGED vars
    PROVE  Inv'
<1>1. UNCHANGED <<slot, pool, password, secret, call, begun>>
  BY DEF vars
<1>2. TypeOK' /\ SlotIsUsable' /\ LeakNeedsLostFailure'
  BY <1>1 DEF Inv, TypeOK, SlotIsUsable, LeakNeedsLostFailure
<1>3. Fresh' /\ OnOpenPool' /\ Retried'
  BY <1>1 DEF Inv, Fresh, OnOpenPool, Retried
<1>4. Clean' /\ Answered'
  BY <1>1 DEF Inv, Clean, Answered, At
<1>5. Ordered' /\ RotationIsInvisible'
  BY <1>1 DEF Inv, Ordered, RotationIsInvisible
<1>6. QED
  BY <1>2, <1>3, <1>4, <1>5 DEF Inv

LEMMA InitInv == Init => Inv
<1> SUFFICES ASSUME Init
             PROVE  Inv
  OBVIOUS
<1>1. /\ slot = Null /\ password = 0 /\ secret = 0
      /\ pool \in [Pools -> Pool] /\ \A p \in Pools : pool[p] = NoPool
      /\ call \in [Calls -> Call] /\ \A c \in Calls : call[c] = NoCall
      /\ begun \in [Calls -> [password : 0 .. Rotations, secret : 0 .. Rotations]]
      /\ \A c \in Calls : begun[c].password = 0 /\ begun[c].secret = 0
  <2>1. NoPool \in Pool
    BY DatabaseAssumption DEF NoPool, Pool
  <2>2. [password |-> 0, secret |-> 0] \in [password : 0 .. Rotations, secret : 0 .. Rotations]
    BY DatabaseAssumption
  <2>3. QED
    BY <2>1, <2>2, NoCallFields DEF Init
<1>2. NoPool.state = "none" /\ NoPool.idle = {} /\ NoPool.creds = 0
  BY DEF NoPool
<1>3. QED
  <2>1. TypeOK
    BY <1>1, DatabaseAssumption DEF TypeOK
  <2>2. SlotIsUsable /\ LeakNeedsLostFailure
    BY <1>1, <1>2 DEF SlotIsUsable, LeakNeedsLostFailure
  <2>3. Fresh /\ Retried
    <3>1. \A c \in Calls : <<c, 0>> \in Pools /\ <<c, 1>> \in Pools
      BY PoolNames
    <3>2. \A c \in Calls : /\ call[c].try = 0 /\ pool[<<c, 0>>] = NoPool
                            /\ pool[<<c, 1>>] = NoPool
      BY <1>1, <3>1, NoCallFields
    <3>3. Fresh
      BY <3>2 DEF Fresh
    <3>4. Retried
      <4>1. \A c \in Calls : call[c].try # 1
        <5> SUFFICES ASSUME NEW c \in Calls, call[c].try = 1
                     PROVE  FALSE
          OBVIOUS
        <5>1. call[c].try = 0
          BY <3>2
        <5>2. QED
          BY <5>1
      <4>2. \A c \in Calls : pool[<<c, 1>>].state # "open"
        BY <1>2, <3>2
      <4>3. QED
        BY <4>1, <4>2 DEF Retried
    <3>5. QED
      BY <3>3, <3>4
  <2>4. OnOpenPool
    BY <1>1, NoCallFields DEF OnOpenPool, Running
  <2>5. Clean /\ Answered
    BY <1>1, <1>2, NoCallFields DEF Clean, Answered, At
  <2>6. Ordered /\ RotationIsInvisible
    BY <1>1, <1>2, NoCallFields DEF Ordered, RotationIsInvisible
  <2>7. QED
    BY <2>1, <2>2, <2>3, <2>4, <2>5, <2>6 DEF Inv

-----------------------------------------------------------------------------
(* The invariant holds in every reachable state, whatever the calls, the   *)
(* rotations and the order in which promises settle.                       *)
THEOREM Invariance == Spec => []Inv
<1>1. Init => Inv
  BY InitInv
<1>2. Inv /\ [Next]_vars => Inv'
  <2> SUFFICES ASSUME Inv, [Next]_vars
               PROVE  Inv'
    OBVIOUS
  <2>1. ASSUME NEW c \in Calls, Begin(c, "query") \/ Begin(c, "transaction")
        PROVE  Inv'
    BY <2>1, BeginStep
  <2>2. ASSUME NEW c \in Calls, Query(c)
        PROVE  Inv'
    BY <2>2, QueryOkLocal, QueryErrorLocal, QueryRetryStep, QueryStaleLocal DEF Query
  <2>3. ASSUME NEW c \in Calls, Transaction(c)
        PROVE  Inv'
    BY <2>3, TransactionLocal
  <2>4. ASSUME NEW p \in Pools, FetchOk(p) \/ FetchFail(p)
        PROVE  Inv'
    BY <2>4, FetchOkStep, FetchFailStep
  <2>5. CASE Destroy
    BY <2>5, DestroyStep
  <2>6. CASE Rotate \/ Publish
    BY <2>6, RotationStep
  <2>7. CASE UNCHANGED vars
    BY <2>7, StutterStep
  <2>8. QED
    BY <2>1, <2>2, <2>3, <2>4, <2>5, <2>6, <2>7 DEF Next
<1>3. QED
  BY <1>1, <1>2, PTL DEF Spec

(* Every variable holds the kind of value its field or local has.          *)
THEOREM TypeCorrectness == Spec => []TypeOK
<1>1. Inv => TypeOK
  BY DEF Inv
<1>2. QED
  BY <1>1, Invariance, PTL

(* getPool() never hands out a promise that was rejected, or a pool whose  *)
(* end() was called: a failed creation leaves the next caller a new try.   *)
THEOREM SlotStaysUsable == Spec => []SlotIsUsable
<1>1. Inv => SlotIsUsable
  BY DEF Inv
<1>2. QED
  BY <1>1, Invariance, PTL

(* However many calls arrive together, and however many find the password  *)
(* stale at once, a pool is lost only after a creation failed that had     *)
(* been replaced already, and emptied the slot of its successor.           *)
THEOREM LeaksAreExcused == Spec => []LeakNeedsLostFailure
<1>1. Inv => LeakNeedsLostFailure
  BY DEF Inv
<1>2. QED
  BY <1>1, Invariance, PTL

(* One retry is enough: query() reports a wrong password only if the       *)
(* password was being rotated when it was called, or was rotated since.    *)
THEOREM RotationStaysInvisible == Spec => []RotationIsInvisible
<1>1. Inv => RotationIsInvisible
  BY DEF Inv
<1>2. QED
  BY <1>1, Invariance, PTL

(* Every transaction is over when its connection goes back to the pool, or *)
(* the connection does not go back: no query() runs inside somebody else's *)
(* transaction.                                                            *)
THEOREM NoTransactionIsLeftBegun == Spec => []NothingLeftBegun
<1>1. Inv => NothingLeftBegun
  BY DEF Inv, Clean, NothingLeftBegun
<1>2. QED
  BY <1>1, Invariance, PTL
=============================================================================
