---------------------------- MODULE CachedTable ----------------------------
(***************************************************************************)
(* What bookstore and shorturl have in common: an HTTP call becomes one    *)
(* RPC, whose server runs one operation of a goctl model, a MySQL table    *)
(* behind a Redis cache (go-zero's sqlc.CachedConn, which is not part of   *)
(* the repository).  Modules Bookstore and ShortUrl say which operations   *)
(* there are and how each one treats the cache.                            *)
(*                                                                         *)
(* FindOne runs under a per-process, per-key barrier (singleflight): the   *)
(* first caller takes off, callers that arrive before it lands share its   *)
(* outcome.  A flight asks the cache, on a miss the table, and then fills  *)
(* the cache, with the row or with a not-found placeholder.                *)
(***************************************************************************)
CONSTANTS Call,      \* HTTP clients, each with one call at a time
          Again,     \* bound: those that make one call after another
          ModelCall, \* those whose calls may run the model's Update or Delete instead
          Server,    \* RPC server processes; each has its own barrier
          Key,       \* primary keys of the table
          Row,       \* what a row holds besides its key
          None,      \* no row, nothing cached, no reply yet
          NotFound,  \* ErrNotFound; in the cache, the placeholder for it
          Failed,    \* any other error
          Ok         \* success of a statement

ASSUME CallAssumption == ModelCall \subseteq Call /\ Again \subseteq Call

ASSUME OutcomeAssumption ==
    /\ None \notin Row /\ NotFound \notin Row /\ Failed \notin Row /\ Ok \notin Row
    /\ None # NotFound /\ None # Failed /\ None # Ok
    /\ NotFound # Failed /\ NotFound # Ok /\ Failed # Ok

VARIABLES
    db,      \* the table
    cache,   \* Redis
    flight,  \* per server and key: where the flight under way is
    got,     \* per server and key: what the flight read from the table
    srv,     \* per call: where its RPC is
    at,      \* per call: the server that has it
    key,     \* per call: the key it asks for
    row,     \* per call: the row it inserts
    reply,   \* per call: the outcome at the server
    answer,  \* per call: the outcome at the API, None while it waits
    changed, \* the keys whose rows an update or delete may have changed
    accident \* the keys whose cached entry may be stale: a change of the row met a
             \* failure or a flight (both are history variables, for the properties)

storeVars  == <<db, cache, changed, accident>>
flightVars == <<flight, got>>
callVars   == <<srv, at, key, row, reply, answer>>
vars       == <<storeVars, flightVars, callVars>>

Outcome == Row \cup {NotFound, Failed, Ok}
Flights == Server \X Key

TypeOK ==
    /\ db \in [Key -> Row \cup {None}]
    /\ cache \in [Key -> Row \cup {None, NotFound}]
    /\ flight \in [Flights -> {"idle", "get", "query", "fill"}]
    /\ got \in [Flights -> Row \cup {None, NotFound}]
    /\ srv \in [Call -> {"idle", "insert", "update", "delete", "delcache",
                         "find", "wait", "lookup", "lookupwait", "replied"}]
    /\ at \in [Call -> Server \cup {None}]
    /\ key \in [Call -> Key \cup {None}]
    /\ row \in [Call -> Row \cup {None}]
    /\ reply \in [Call -> Outcome \cup {None}]
    /\ answer \in [Call -> Outcome \cup {None}]
    /\ changed \subseteq Key
    /\ accident \subseteq Key

\* The table may hold rows already (init.sql); Redis starts empty.
Init ==
    /\ db \in [Key -> Row \cup {None}]
    /\ cache = [k \in Key |-> None]
    /\ flight = [f \in Flights |-> "idle"]
    /\ got = [f \in Flights |-> None]
    /\ srv = [c \in Call |-> "idle"]
    /\ at = [c \in Call |-> None]
    /\ key = [c \in Call |-> None]
    /\ row = [c \in Call |-> None]
    /\ reply = [c \in Call |-> None]
    /\ answer = [c \in Call |-> None]
    /\ changed = {}
    /\ accident = {}

-----------------------------------------------------------------------------
(* The API process *)

\* The RPC of call c reaches server s, where `step' is its first step.
Send(c, s, k, r, step) ==
    /\ srv[c] = "idle" /\ answer[c] = None
    /\ srv' = [srv EXCEPT ![c] = step]
    /\ at' = [at EXCEPT ![c] = s]
    /\ key' = [key EXCEPT ![c] = k]
    /\ row' = [row EXCEPT ![c] = r]
    /\ UNCHANGED <<storeVars, flightVars, reply, answer>>

\* The server's reply arrives and is passed on to the HTTP client.
Answer(c) ==
    /\ srv[c] = "replied" /\ answer[c] = None
    /\ answer' = [answer EXCEPT ![c] = reply[c]]
    /\ UNCHANGED <<storeVars, flightVars, srv, at, key, row, reply>>

\* The request was refused by the parser, or the RPC is rejected, times out or
\* loses its server.  Whatever the server is doing goes on.
GiveUp(c) ==
    /\ answer[c] = None
    /\ answer' = [answer EXCEPT ![c] = Failed]
    /\ UNCHANGED <<storeVars, flightVars, srv, at, key, row, reply>>

\* The client has had its answer, the server is done, and the next call may
\* follow.
NextCall(c) ==
    /\ c \in Again /\ answer[c] # None /\ srv[c] \in {"idle", "replied"}
    /\ srv' = [srv EXCEPT ![c] = "idle"]
    /\ at' = [at EXCEPT ![c] = None]
    /\ key' = [key EXCEPT ![c] = None]
    /\ row' = [row EXCEPT ![c] = None]
    /\ reply' = [reply EXCEPT ![c] = None]
    /\ answer' = [answer EXCEPT ![c] = None]
    /\ UNCHANGED <<storeVars, flightVars>>

-----------------------------------------------------------------------------
(* The RPC server: changing the table *)

\* A flight has read the row of k and may yet cache what it read.
Carried(k) == \E s \in Server : flight[<<s, k>>] = "fill"

\* The row of k has changed; `known' says whether the server learnt that it has.
Spoils(k, known) ==
    accident' = IF known /\ ~Carried(k) THEN accident ELSE accident \cup {k}

\* The entry of k has left the cache.
Dropped(k) ==
    /\ cache' = [cache EXCEPT ![k] = None]
    /\ accident' = IF Carried(k) THEN accident ELSE accident \ {k}

\* Mutant of InsertRow: the statement replaces a row that is there already.
InsertOrReplace(c, afterwards) ==
    /\ srv[c] = "insert"
    /\ db' = [db EXCEPT ![key[c]] = row[c]]
    /\ srv' = [srv EXCEPT ![c] = afterwards]
    /\ reply' = [reply EXCEPT ![c] = Ok]
    /\ Spoils(key[c], TRUE)
    /\ UNCHANGED <<cache, changed, flightVars, at, key, row, answer>>

\* The insert statement.  A duplicate key is an error; so is a connection
\* that fails before the row is stored, or after.
InsertRow(c, afterwards) ==
    /\ srv[c] = "insert"
    /\ \/ /\ db[key[c]] = None
          /\ db' = [db EXCEPT ![key[c]] = row[c]]
          /\ \/ /\ srv' = [srv EXCEPT ![c] = afterwards]
                /\ reply' = [reply EXCEPT ![c] = Ok]
                /\ Spoils(key[c], TRUE)
             \/ /\ srv' = [srv EXCEPT ![c] = "replied"]
                /\ reply' = [reply EXCEPT ![c] = Failed]
                /\ Spoils(key[c], FALSE)
       \/ /\ UNCHANGED <<db, accident>>
          /\ srv' = [srv EXCEPT ![c] = "replied"]
          /\ reply' = [reply EXCEPT ![c] = Failed]
    /\ UNCHANGED <<cache, changed, flightVars, at, key, row, answer>>

\* An update (to row r) or a delete (to None).  A key that has no row keeps
\* none, and that is no error; failures are as for an insert.
ExecRow(c, step, r, afterwards) ==
    /\ srv[c] = step
    /\ \/ /\ db' = [db EXCEPT ![key[c]] = IF @ = None THEN None ELSE r]
          /\ changed' = changed \cup {key[c]}
          /\ \/ /\ srv' = [srv EXCEPT ![c] = afterwards]
                /\ reply' = [reply EXCEPT ![c] = Ok]
                /\ Spoils(key[c], TRUE)
             \/ /\ srv' = [srv EXCEPT ![c] = "replied"]
                /\ reply' = [reply EXCEPT ![c] = Failed]
                /\ Spoils(key[c], FALSE)
       \/ /\ UNCHANGED <<db, changed, accident>>
          /\ srv' = [srv EXCEPT ![c] = "replied"]
          /\ reply' = [reply EXCEPT ![c] = Failed]
    /\ UNCHANGED <<cache, flightVars, at, key, row, answer>>

\* Mutant of UpdateRow: the statement runs with ExecNoCache.
UpdateRowNoCache(c, afterwards) == ExecRow(c, "update", row[c], "replied")

UpdateRow(c, afterwards) == ExecRow(c, "update", row[c], afterwards)
DeleteRow(c, afterwards) == ExecRow(c, "delete", None, afterwards)

\* RawFieldNames quotes the column names, and the older models remove an
\* unquoted one from them: the statement of their Update keeps the key among
\* its columns, has three placeholders for two arguments, and never runs.
MisboundUpdate(c) ==
    /\ srv[c] = "update"
    /\ srv' = [srv EXCEPT ![c] = "replied"]
    /\ reply' = [reply EXCEPT ![c] = Failed]
    /\ UNCHANGED <<storeVars, flightVars, at, key, row, answer>>

\* DelCache after a successful statement.  A failure is not reported (it is
\* retried in the background, which is an early Expire).
DelCache(c) ==
    /\ srv[c] = "delcache"
    /\ \/ Dropped(key[c])
       \/ accident' = accident \cup {key[c]} /\ UNCHANGED cache
    /\ srv' = [srv EXCEPT ![c] = "replied"]
    /\ UNCHANGED <<db, changed, flightVars, at, key, row, reply, answer>>

-----------------------------------------------------------------------------
(* The RPC server: finding *)

\* Mutant of Waiters: the barrier is keyed by the table, not by the row.
WaitersOfTable(s, k) == {c \in Call : srv[c] \in {"wait", "lookupwait"} /\ at[c] = s}

Waiters(s, k) ==
    {c \in Call : srv[c] \in {"wait", "lookupwait"} /\ at[c] = s /\ key[c] = k}

\* The call takes off, or joins the flight under way for its key.  A delete
\* may look its row up first ("lookup").
Join(c) ==
    /\ srv[c] \in {"find", "lookup"}
    /\ srv' = [srv EXCEPT ![c] = IF @ = "find" THEN "wait" ELSE "lookupwait"]
    /\ flight' = [flight EXCEPT ![<<at[c], key[c]>>] =
                     IF @ = "idle" THEN "get" ELSE @]
    /\ UNCHANGED <<storeVars, got, at, key, row, reply, answer>>

\* What FindOne's caller does with its outcome v: reply, or delete the row.
Returns(c, v) == IF srv[c] = "lookupwait" /\ v \in Row THEN "delete" ELSE "replied"

\* Mutant of Land: only the caller that took off returns.
LandAlone(s, k, v) ==
    LET leader == CHOOSE c \in Waiters(s, k) : TRUE IN
    /\ flight' = [flight EXCEPT ![<<s, k>>] = "idle"]
    /\ got' = [got EXCEPT ![<<s, k>>] = None]
    /\ srv' = [srv EXCEPT ![leader] = Returns(leader, v)]
    /\ reply' = [reply EXCEPT ![leader] = v]
    /\ UNCHANGED <<at, key, row, answer>>

\* The flight's outcome v goes to everyone who waits for it.
Land(s, k, v) ==
    /\ flight' = [flight EXCEPT ![<<s, k>>] = "idle"]
    /\ got' = [got EXCEPT ![<<s, k>>] = None]
    /\ srv' = [c \in Call |-> IF c \in Waiters(s, k) THEN Returns(c, v) ELSE srv[c]]
    /\ reply' = [c \in Call |-> IF c \in Waiters(s, k) THEN v ELSE reply[c]]
    /\ UNCHANGED <<at, key, row, answer>>

\* A cached row is the answer, and so is a cached placeholder.
CacheHit(s, k) ==
    /\ flight[<<s, k>>] = "get"
    /\ cache[k] # None
    /\ Land(s, k, cache[k])
    /\ UNCHANGED storeVars

CacheMiss(s, k) ==
    /\ flight[<<s, k>>] = "get"
    /\ cache[k] = None
    /\ flight' = [flight EXCEPT ![<<s, k>>] = "query"]
    /\ UNCHANGED <<storeVars, got, callVars>>

\* Mutant of QueryRow: FindOne takes any error of the query for sqlc.ErrNotFound.
QueryErrorIsNotFound(s, k) ==
    /\ flight[<<s, k>>] = "query"
    /\ flight' = [flight EXCEPT ![<<s, k>>] = "fill"]
    /\ got' \in {[got EXCEPT ![<<s, k>>] = v] : v \in {db[k], NotFound} \ {None}}
    /\ UNCHANGED <<storeVars, callVars>>

QueryRow(s, k) ==
    /\ flight[<<s, k>>] = "query"
    /\ flight' = [flight EXCEPT ![<<s, k>>] = "fill"]
    /\ got' = [got EXCEPT ![<<s, k>>] = IF db[k] = None THEN NotFound ELSE db[k]]
    /\ UNCHANGED <<storeVars, callVars>>

\* Redis does not answer (the table is then not asked), or the table does not.
TakeFails(s, k) ==
    /\ flight[<<s, k>>] \in {"get", "query"}
    /\ Land(s, k, Failed)
    /\ UNCHANGED storeVars

\* The row replaces what is cached, the placeholder only fills a gap (SETNX).
\* A failure to write the cache is logged and changes nothing.
Fill(s, k) ==
    /\ flight[<<s, k>>] = "fill"
    /\ \/ cache' = [cache EXCEPT ![k] =
                       IF got[<<s, k>>] = NotFound /\ @ # None
                       THEN @ ELSE got[<<s, k>>]]
       \/ UNCHANGED cache
    /\ Land(s, k, got[<<s, k>>])
    /\ UNCHANGED <<db, changed, accident>>

\* An entry's time to live passes, or Redis drops it.
Expire(k) ==
    /\ cache[k] # None
    /\ Dropped(k)
    /\ UNCHANGED <<db, changed, flightVars, callVars>>

\* The server process dies with all its flights and is started again; the
\* calls it had not answered fail.
Crash(s) ==
    LET dies(c) == at[c] = s /\ srv[c] # "replied" IN
    /\ flight' = [f \in Flights |-> IF f[1] = s THEN "idle" ELSE flight[f]]
    /\ got' = [f \in Flights |-> IF f[1] = s THEN None ELSE got[f]]
    /\ srv' = [c \in Call |-> IF dies(c) THEN "replied" ELSE srv[c]]
    /\ reply' = [c \in Call |-> IF dies(c) THEN Failed ELSE reply[c]]
    /\ accident' = accident \cup {key[c] : c \in {d \in Call : dies(d) /\ srv[d] = "delcache"}}
    /\ UNCHANGED <<db, cache, changed, at, key, row, answer>>

FlightNext(s, k) ==
    CacheHit(s, k) \/ CacheMiss(s, k) \/ QueryRow(s, k) \/ TakeFails(s, k)
    \/ Fill(s, k)

-----------------------------------------------------------------------------
(* Properties every such service shares.  The services insert rows and never *)
(* change them; for a row that was changed through the model's Update or     *)
(* Delete only ServerFinishes and OnlyByAccident hold.                       *)
Unchanged == Key \ changed

\* A row that an HTTP client was given is the row stored under its key.
FoundIsStored ==
    \A c \in Call : answer[c] \in Row /\ key[c] \in Unchanged => answer[c] = db[key[c]]

\* A success is only reported for a row that is stored under its key, and for
\* one call per key, though the same key is inserted by several clients and
\* again by one whose first attempt failed.
InsertedOnce ==
    \A c \in Call : answer[c] = Ok /\ key[c] \in Unchanged =>
        /\ db[key[c]] = row[c]
        /\ \A d \in Call : answer[d] = Ok /\ key[d] = key[c] => d = c

\* A call for k can still be answered that there is no row.
MayMiss(k) ==
    \/ cache[k] = NotFound
    \/ \E s \in Server : got[<<s, k>>] = NotFound

\* A stored row becomes visible for good, though clients go on checking it: a
\* placeholder cached before the insert, or by a flight that raced with it, is
\* not cached anew once it has expired, because no flight that starts after the
\* insert comes back with not-found.
BecomesVisible ==
    \A k \in Key : db[k] # None ~> [](~MayMiss(k) \/ k \notin Unchanged)

\* What a flight that asks the table now comes back with.
Truth(k) == IF db[k] = None THEN NotFound ELSE db[k]

\* The cache agrees with the table, but while the server that changed the row
\* is about to drop the entry, and after an accident: dropping it failed, the
\* server died or lost the connection after the statement had run, or a flight
\* had read the row before.  Where Insert leaves the cache alone (`hides'), a
\* placeholder may hide a stored row as well.
OnlyByAccident(hides) ==
    \A k \in Key : cache[k] \notin {None, Truth(k)} =>
        \/ \E c \in Call : srv[c] = "delcache" /\ key[c] = k
        \/ k \in accident
        \/ hides /\ cache[k] = NotFound

\* A call that has reached a server has an outcome there, sooner or later:
\* those that share a flight are all released when it ends, however it ends.
ServerFinishes == \A c \in Call : srv[c] # "idle" ~> srv[c] = "replied"
=============================================================================
