------------------------------ MODULE Database ------------------------------
(***************************************************************************)
(* DatabaseService (apps/api/src/database/database.service.ts): one cached *)
(* promise of a connection pool, created on first use, torn down and       *)
(* created again when the server refuses its password, which is rotated    *)
(* from outside.  Node runs one callback at a time: an action is what runs *)
(* between two awaits, with every continuation of a promise it resolves.   *)
(* Continuations run in the order they were attached, so that whoever      *)
(* waits for a pool starts on it before an end() attached later.           *)
(***************************************************************************)
EXTENDS Naturals

CONSTANTS
    Calls,      \* calls of query() or withTransaction(), each made once
    SecretArn,  \* whether credentials come from Secrets Manager
    Rotations,  \* bound on the rotations of the password
    Stops,      \* whether the module may be destroyed: never, under Lambda
    Null

(* A pool is named by the call that created it and whether that was the    *)
(* call's first attempt or its retry.                                      *)
Pools == Calls \X {0, 1}

ASSUME DatabaseAssumption ==
    /\ SecretArn \in BOOLEAN /\ Stops \in BOOLEAN /\ Rotations \in Nat
    /\ Null \notin Calls \cup Pools

VARIABLES
    slot,       \* this.pool: the promise everybody shares
    pool,       \* the promises and what they resolved to
    password,   \* the server's password, by the number of rotations
    secret,     \* the password Secrets Manager hands out
    call,       \* the calls and their local variables
    begun       \* history: password and secret when a call began

vars == <<slot, pool, password, secret, call, begun>>

-----------------------------------------------------------------------------
(* ending: end() was called on the pool, or is attached to its promise.    *)
(* idle: the states a connection it keeps may be in.                       *)
Pool == [state  : {"none", "fetching", "open", "failed"},
         ending : BOOLEAN,
         creds  : 0 .. Rotations,
         idle   : SUBSET {"clean", "begun"}]

(* conn: the connection a call holds: being made, in no transaction, in    *)
(* one that was begun, or broken.                                          *)
Running == {"query", "connect", "begin", "work", "commit", "rollback",
            "release"}
Final   == {"ok", "stale", "failed"}

Call == [op   : {"query", "transaction", Null},
         pc   : {"idle", "waiting"} \cup Running \cup Final,
         try  : {0, 1},
         on   : Pools \cup {Null},
         conn : {"none", "new", "clean", "begun", "broken"},
         then : Final \cup {Null}]     \* what to answer after release()

NoPool == [state |-> "none", ending |-> FALSE, creds |-> 0, idle |-> {}]
NoCall == [op |-> Null, pc |-> "idle", try |-> 0, on |-> Null,
           conn |-> "none", then |-> Null]

Entry(op) == IF op = "query" THEN "query" ELSE "connect"

At(c, op, pc) == call[c].op = op /\ call[c].pc = pc

Set(c, local) == call' = [call EXCEPT ![c] = local]

(* end() stops new use at once and closes connections as they come back.   *)
Ended(p) == [p EXCEPT !.ending = TRUE, !.idle = {}]

(* The connection goes back to its pool, unless the pool ends or it broke. *)
Returned(p, conn) ==
    [pool EXCEPT ![p].idle =
        IF pool[p].ending \/ conn = "broken" THEN {} ELSE @ \cup {conn}]

(* Mutant: the resolved pool is cached, not the promise.                   *)
GetPoolTwice(c, local, s, pools) ==
    LET p == <<c, local.try>> IN
    \/ /\ IF s = Null THEN TRUE ELSE pools[s].state # "open"
       /\ slot' = p
       /\ pool' = [pools EXCEPT ![p].state = "fetching"]
       /\ Set(c, [local EXCEPT !.pc = "waiting", !.on = p])
    \/ /\ s # Null /\ pools[s].state = "open"
       /\ slot' = s /\ pool' = pools
       /\ Set(c, [local EXCEPT !.pc = Entry(local.op), !.on = s, !.conn = "new"])

(* getPool() and what follows it at once: the slot is filled before        *)
(* anything is awaited; an open pool gives a connection it has or makes    *)
(* one.                                                                    *)
GetPool(c, local, s, pools) ==
    LET p == <<c, local.try>> IN
    \/ /\ s = Null
       /\ slot' = p
       /\ pool' = [pools EXCEPT ![p].state = "fetching"]
       /\ Set(c, [local EXCEPT !.pc = "waiting", !.on = p])
    \/ /\ s # Null
       /\ slot' = s /\ pool' = pools
       /\ \/ /\ pools[s].state # "open"
             /\ Set(c, [local EXCEPT !.pc = "waiting", !.on = s])
          \/ /\ pools[s].state = "open"
             /\ \E conn \in pools[s].idle \cup {"new"} :
                   Set(c, [local EXCEPT !.pc = Entry(local.op), !.on = s,
                                        !.conn = conn])

Begin(c, op) ==
    /\ call[c].pc = "idle"
    /\ GetPool(c, [NoCall EXCEPT !.op = op], slot, pool)
    /\ begun' = [begun EXCEPT ![c] = [password |-> password, secret |-> secret]]
    /\ UNCHANGED <<password, secret>>

-----------------------------------------------------------------------------
(* createPool: the secret is fetched, or is not.  Everybody waiting starts *)
(* on the pool, even if an end() is attached behind them.                  *)

(* Mutant: whoever waits for a pool that is being torn down is forgotten.  *)
FetchOkUnlessEnding(p) ==
    /\ pool[p].state = "fetching"
    /\ pool' = [pool EXCEPT ![p].state = "open", ![p].creds = secret]
    /\ call' = [c \in Calls |->
                  IF call[c].pc = "waiting" /\ call[c].on = p /\ ~ pool[p].ending
                    THEN [call[c] EXCEPT !.pc = Entry(call[c].op), !.conn = "new"]
                    ELSE call[c]]
    /\ UNCHANGED <<slot, password, secret, begun>>

FetchOk(p) ==
    /\ pool[p].state = "fetching"
    /\ pool' = [pool EXCEPT ![p].state = "open", ![p].creds = secret]
    /\ call' = [c \in Calls |->
                  IF call[c].pc = "waiting" /\ call[c].on = p
                    THEN [call[c] EXCEPT !.pc = Entry(call[c].op), !.conn = "new"]
                    ELSE call[c]]
    /\ UNCHANGED <<slot, password, secret, begun>>

FailWaiters(p) ==
    call' = [c \in Calls |->
               IF call[c].pc = "waiting" /\ call[c].on = p
                 THEN [call[c] EXCEPT !.pc = "failed"] ELSE call[c]]

(* Mutant: the slot keeps the rejected promise.                            *)
FetchFailKept(p) ==
    /\ SecretArn /\ pool[p].state = "fetching"
    /\ pool' = [pool EXCEPT ![p].state = "failed"]
    /\ FailWaiters(p)
    /\ UNCHANGED <<slot, password, secret, begun>>

(* The slot is cleared, whichever promise is in it by now.                 *)
FetchFail(p) ==
    /\ SecretArn /\ pool[p].state = "fetching"
    /\ pool' = [pool EXCEPT ![p].state = "failed"]
    /\ slot' = Null
    /\ FailWaiters(p)
    /\ UNCHANGED <<password, secret, begun>>

-----------------------------------------------------------------------------
(* query(): one statement on any connection of the pool.                   *)

Refused(c) == call[c].conn = "new" /\ pool[call[c].on].creds # password

(* Mutant: a connection still being made counts as idle.                   *)
HeldAsIs(c) == call[c].conn

Held(c) == IF call[c].conn = "new" THEN "clean" ELSE call[c].conn

QueryOk(c) ==
    /\ At(c, "query", "query") /\ ~ Refused(c)
    /\ pool' = Returned(call[c].on, Held(c))
    /\ Set(c, [call[c] EXCEPT !.pc = "ok", !.conn = "none"])
    /\ UNCHANGED <<slot, password, secret, begun>>

(* The statement is refused, or the connection breaks or cannot be made.   *)
QueryError(c) ==
    /\ At(c, "query", "query")
    /\ \/ ~ Refused(c) /\ pool' = Returned(call[c].on, Held(c))
       \/ UNCHANGED pool
    /\ Set(c, [call[c] EXCEPT !.pc = "failed", !.conn = "none"])
    /\ UNCHANGED <<slot, password, secret, begun>>

(* Mutant: the retry finds the stale pool where it was.                    *)
QueryRetrySame(c) ==
    /\ At(c, "query", "query") /\ Refused(c)
    /\ call[c].try = 0 /\ SecretArn
    /\ GetPool(c, [call[c] EXCEPT !.try = 1, !.conn = "none"], slot, pool)
    /\ UNCHANGED <<password, secret, begun>>

(* 28P01: whatever is in the slot is taken out and ended, and a new pool   *)
(* created for the second and last attempt.                                *)
QueryRetry(c) ==
    /\ At(c, "query", "query") /\ Refused(c)
    /\ call[c].try = 0 /\ SecretArn
    /\ GetPool(c, [call[c] EXCEPT !.try = 1, !.conn = "none"], Null,
               IF slot = Null THEN pool
                              ELSE [pool EXCEPT ![slot] = Ended(@)])
    /\ UNCHANGED <<password, secret, begun>>

QueryStale(c) ==
    /\ At(c, "query", "query") /\ Refused(c)
    /\ call[c].try = 1 \/ ~ SecretArn
    /\ Set(c, [call[c] EXCEPT !.pc = "stale", !.conn = "none"])
    /\ UNCHANGED <<slot, pool, password, secret, begun>>

Query(c) == QueryOk(c) \/ QueryError(c) \/ QueryRetry(c) \/ QueryStale(c)

-----------------------------------------------------------------------------
(* withTransaction(): connect, BEGIN, the work, COMMIT; ROLLBACK on any    *)
(* error; release() in any case.  No attempt is repeated.                  *)

Step(c, local) == /\ Set(c, local)
                  /\ UNCHANGED <<slot, pool, password, secret, begun>>

TransactionConnect(c) ==
    /\ At(c, "transaction", "connect")
    /\ \/ ~ Refused(c) /\ Step(c, [call[c] EXCEPT !.pc = "begin", !.conn = Held(c)])
       \/ Refused(c) /\ Step(c, [call[c] EXCEPT !.pc = "stale", !.conn = "none"])
       \/ call[c].conn = "new" /\ Step(c, [call[c] EXCEPT !.pc = "failed",
                                                         !.conn = "none"])

TransactionBegin(c) ==
    /\ At(c, "transaction", "begin")
    /\ Step(c, [call[c] EXCEPT !.pc = "work", !.conn = "begun"])

TransactionWork(c) ==
    /\ At(c, "transaction", "work")
    /\ Step(c, [call[c] EXCEPT !.pc = "commit"])

TransactionCommit(c) ==
    /\ At(c, "transaction", "commit")
    /\ Step(c, [call[c] EXCEPT !.pc = "release", !.conn = "clean", !.then = "ok"])

TransactionThrow(c) ==
    /\ \E pc \in {"begin", "work", "commit"} : At(c, "transaction", pc)
    /\ \E conn \in {call[c].conn, "broken"} :
          Step(c, [call[c] EXCEPT !.pc = "rollback", !.conn = conn])

(* Mutant: no ROLLBACK.                                                    *)
TransactionRollbackNothing(c) ==
    /\ At(c, "transaction", "rollback")
    /\ Step(c, [call[c] EXCEPT !.pc = "release", !.then = "failed"])

(* A rollback that fails, fails because the connection broke.              *)
TransactionRollback(c) ==
    /\ At(c, "transaction", "rollback")
    /\ \E conn \in IF call[c].conn = "broken" THEN {"broken"}
                                              ELSE {"clean", "broken"} :
          Step(c, [call[c] EXCEPT !.pc = "release", !.conn = conn,
                                  !.then = "failed"])

TransactionRelease(c) ==
    /\ At(c, "transaction", "release")
    /\ pool' = Returned(call[c].on, call[c].conn)
    /\ Set(c, [call[c] EXCEPT !.pc = call[c].then, !.conn = "none"])
    /\ UNCHANGED <<slot, password, secret, begun>>

Transaction(c) ==
    \/ TransactionConnect(c) \/ TransactionBegin(c) \/ TransactionWork(c)
    \/ TransactionCommit(c) \/ TransactionThrow(c) \/ TransactionRollback(c)
    \/ TransactionRelease(c)

-----------------------------------------------------------------------------
(* onModuleDestroy, while calls may still be running.                      *)
Destroy ==
    /\ Stops /\ slot # Null
    /\ slot' = Null
    /\ pool' = [pool EXCEPT ![slot] = Ended(@)]
    /\ UNCHANGED <<password, secret, call, begun>>

(* The rotation changes the server's password before the secret that       *)
(* applications read.                                                      *)
Rotate ==
    /\ password = secret /\ password < Rotations
    /\ password' = password + 1
    /\ UNCHANGED <<slot, pool, secret, call, begun>>

Publish ==
    /\ secret # password
    /\ secret' = password
    /\ UNCHANGED <<slot, pool, password, call, begun>>

Init ==
    /\ slot = Null
    /\ pool = [p \in Pools |-> NoPool]
    /\ password = 0 /\ secret = 0
    /\ call = [c \in Calls |-> NoCall]
    /\ begun = [c \in Calls |-> [password |-> 0, secret |-> 0]]

Next ==
    \/ \E c \in Calls : \/ Begin(c, "query") \/ Begin(c, "transaction")
                        \/ Query(c) \/ Transaction(c)
    \/ \E p \in Pools : FetchOk(p) \/ FetchFail(p)
    \/ Destroy \/ Rotate \/ Publish

(* Every answer comes in the end: Secrets Manager's, the server's, or the  *)
(* error of a connection that timed out.                                   *)
Fairness ==
    /\ \A c \in Calls : WF_vars(Query(c) \/ Transaction(c))
    /\ \A p \in Pools : WF_vars(FetchOk(p) \/ FetchFail(p))

Spec == Init /\ [][Next]_vars /\ Fairness

-----------------------------------------------------------------------------
(* Every variable holds the kind of value its field or local has.          *)
TypeOK ==
    /\ slot \in Pools \cup {Null}
    /\ pool \in [Pools -> Pool]
    /\ password \in 0 .. Rotations /\ secret \in 0 .. Rotations
    /\ call \in [Calls -> Call]
    /\ begun \in [Calls -> [password : 0 .. Rotations, secret : 0 .. Rotations]]

(* The slot never holds a promise that was rejected: the next caller       *)
(* retries rather than inheriting the failure.                             *)
SlotIsUsable == slot # Null => pool[slot].state \in {"fetching", "open"}
                               /\ ~ pool[slot].ending

(* A pool that is neither in the slot nor ended was pushed out by a failed *)
(* creation that had itself been replaced before: nothing else leaks one,  *)
(* neither callers arriving together nor several finding the password      *)
(* stale at once.                                                          *)
LeakNeedsLostFailure ==
    \A p \in Pools :
        pool[p].state \in {"fetching", "open"} /\ ~ pool[p].ending /\ slot # p
            => \E q \in Pools : pool[q].state = "failed" /\ pool[q].ending

(* A query() answers "password authentication failed" only if a rotation   *)
(* was going on when it was made, or one came after; if the password comes *)
(* from Secrets Manager, that is.                                          *)
RotationIsInvisible ==
    \A c \in Calls :
        SecretArn /\ call[c].op = "query" /\ call[c].pc = "stale"
            => \/ begun[c].password # begun[c].secret
               \/ begun[c].password # password

(* No statement runs in somebody else's transaction: a connection comes    *)
(* back to the pool committed, rolled back or not at all.                  *)
NothingLeftBegun ==
    /\ \A p \in Pools : "begun" \notin pool[p].idle
    /\ \A c \in Calls : call[c].op = "query" => call[c].conn # "begun"

(* Every call of query() and withTransaction() returns, one waiting for a  *)
(* pool somebody else is tearing down included.                            *)
EveryCallReturns ==
    \A c \in Calls : call[c].pc # "idle" ~> call[c].pc \in Final

-----------------------------------------------------------------------------
(* The comment on the cached promise: two first queries must not each      *)
(* build a pool of which one is "never assigned, never end()ed, holding    *)
(* its connections": no pool is ever open, not ended and out of the slot.  *)
NoPoolLeaks ==
    \A p \in Pools : pool[p].state = "open" /\ ~ pool[p].ending => slot = p
=============================================================================
