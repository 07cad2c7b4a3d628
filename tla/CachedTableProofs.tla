------------------------- MODULE CachedTableProofs -------------------------
(***************************************************************************)
(* Proofs about the operations of module CachedTable, for any calls,       *)
(* servers, keys and rows: each of them preserves CacheInv, from which     *)
(* FoundIsStored and InsertedOnce follow, and Coherent, from which it      *)
(* follows that the cache is stale only by accident.  The steps of         *)
(* Bookstore and ShortUrl are composed of them.                            *)
(***************************************************************************)
EXTENDS Bookstore, ShortUrl, TLAPS

USE OutcomeAssumption

\* What a call needs before its next step at the server.
Accepted ==
    \A c \in Call :
        /\ srv[c] = "idle" => reply[c] = None
        /\ srv[c] \notin {"idle", "replied"} => key[c] \in Key
        /\ srv[c] = "insert" => row[c] \in Row

\* Wherever a row of an unchanged key is on its way to a client, it is the
\* row in the table: in the cache, in a flight, in a reply and in an answer.
RowsAreStored ==
    /\ \A k \in Unchanged : cache[k] \in Row => cache[k] = db[k]
    /\ \A f \in Flights :
          got[f] \in Row /\ f[2] \in Unchanged => got[f] = db[f[2]]
    /\ \A c \in Call : key[c] \in Unchanged =>
          /\ reply[c] \in Row => reply[c] = db[key[c]]
          /\ answer[c] \in Row => answer[c] = db[key[c]]

\* The call was told that its statement ran.
Succeeded(c) == reply[c] = Ok \/ answer[c] = Ok

\* At most one call per unchanged key is told so, and the row is its row.
SuccessIsStored ==
    \A c \in Call : Succeeded(c) /\ key[c] \in Unchanged =>
        /\ row[c] \in Row /\ db[key[c]] = row[c]
        /\ \A d \in Call : Succeeded(d) /\ key[d] = key[c] => d = c

\* A flight that is about to fill the cache has read something.
HasRead == \A f \in Flights : flight[f] = "fill" => got[f] # None

CacheInv == TypeOK /\ Accepted /\ HasRead /\ RowsAreStored /\ SuccessIsStored

USE DEF storeVars, flightVars, callVars

-----------------------------------------------------------------------------
\* A table that holds rows already, and nothing cached or asked for.
LEMMA InitCacheInv == Init => CacheInv
BY DEF Init, CacheInv, TypeOK, Accepted, HasRead, RowsAreStored, SuccessIsStored,
       Succeeded, Unchanged, Outcome

\* The invariant gives the two properties of the services.
LEMMA CacheInvImplies == CacheInv => FoundIsStored /\ InsertedOnce
BY DEF CacheInv, RowsAreStored, SuccessIsStored, Succeeded, FoundIsStored,
       InsertedOnce

-----------------------------------------------------------------------------
(* The API process *)

\* A call that has not been sent has no outcome that its new key could belie.
LEMMA SendCacheInv ==
    ASSUME CacheInv, NEW c \in Call, NEW s \in Server, NEW k \in Key,
           NEW r \in Row \cup {None},
           NEW step \in {"insert", "update", "delete", "find", "lookup"},
           step = "insert" => r \in Row,
           Send(c, s, k, r, step)
    PROVE  CacheInv'
<1> USE DEF CacheInv, Send
<1>1. TypeOK'
  BY DEF TypeOK
<1>2. Accepted'
  BY DEF Accepted, TypeOK
<1>3. RowsAreStored'
  BY DEF RowsAreStored, Accepted, TypeOK, Unchanged
<1>4. SuccessIsStored'
  BY DEF SuccessIsStored, Succeeded, Accepted, TypeOK, Unchanged
<1>5. HasRead'
  BY DEF HasRead
<1> QED  BY <1>5, <1>1, <1>2, <1>3, <1>4

\* An answer is the server's reply or a failure, and is forgotten by the next call.
LEMMA AnswerCacheInv ==
    ASSUME CacheInv, NEW c \in Call, Answer(c) \/ GiveUp(c) \/ NextCall(c)
    PROVE  CacheInv'
<1> USE DEF CacheInv, Answer, GiveUp, NextCall
<1>1. TypeOK'
  BY DEF TypeOK, Outcome
<1>2. Accepted'
  BY DEF Accepted, TypeOK
<1>3. RowsAreStored'
  BY DEF RowsAreStored, Accepted, TypeOK, Unchanged
<1>4. SuccessIsStored'
  BY DEF SuccessIsStored, Succeeded, Accepted, TypeOK, Unchanged
<1>5. HasRead'
  BY DEF HasRead
<1> QED  BY <1>5, <1>1, <1>2, <1>3, <1>4

-----------------------------------------------------------------------------
(* The RPC server: changing the table *)

\* The statement only stores a row where there is none, so that nobody can
\* have been given another row of that key or told that it was inserted.
LEMMA InsertCacheInv ==
    ASSUME CacheInv, NEW c \in Call, NEW afterwards \in {"replied", "delcache"},
           InsertRow(c, afterwards)
    PROVE  CacheInv'
<1> USE DEF CacheInv
<1>1. key[c] \in Key /\ row[c] \in Row
  BY DEF InsertRow, Accepted
<1>2. /\ UNCHANGED <<cache, changed, got, at, key, row, answer>>
      /\ reply' \in {[reply EXCEPT ![c] = Ok], [reply EXCEPT ![c] = Failed]}
      /\ srv' \in {[srv EXCEPT ![c] = afterwards], [srv EXCEPT ![c] = "replied"]}
  BY DEF InsertRow
<1>3. TypeOK'
  BY <1>1 DEF TypeOK, Outcome, InsertRow, Spoils
<1>4. Accepted'
  BY <1>1, <1>2 DEF Accepted, TypeOK
<1>5. \/ db' = db /\ reply' = [reply EXCEPT ![c] = Failed]
      \/ db[key[c]] = None /\ db' = [db EXCEPT ![key[c]] = row[c]]
  BY DEF InsertRow
<1>6. \A k \in Key : db[k] # None => db'[k] = db[k]
  BY <1>5 DEF TypeOK
<1>7. RowsAreStored'
  BY <1>2, <1>6 DEF RowsAreStored, TypeOK, Unchanged, Flights
<1>8. SuccessIsStored'
  BY <1>1, <1>2, <1>5, <1>6 DEF SuccessIsStored, Succeeded, TypeOK, Unchanged
<1>9. HasRead'
  BY DEF HasRead, InsertRow
<1> QED  BY <1>9, <1>3, <1>4, <1>7, <1>8

\* An update or delete only touches a row of a key that is changed from now
\* on, whether or not its caller learns that it ran.
LEMMA ExecCacheInv ==
    ASSUME CacheInv, NEW c \in Call, NEW step \in {"update", "delete"},
           NEW r \in Row \cup {None}, ExecRow(c, step, r, "delcache")
    PROVE  CacheInv'
<1> USE DEF CacheInv
<1>1. key[c] \in Key
  BY DEF ExecRow, Accepted
<1>2. /\ UNCHANGED <<cache, got, at, key, row, answer>>
      /\ reply' \in {[reply EXCEPT ![c] = Ok], [reply EXCEPT ![c] = Failed]}
      /\ srv' \in {[srv EXCEPT ![c] = "delcache"], [srv EXCEPT ![c] = "replied"]}
  BY DEF ExecRow
<1>3. TypeOK'
  BY <1>1 DEF TypeOK, Outcome, ExecRow, Spoils
<1>4. Accepted'
  BY <1>1, <1>2 DEF Accepted, TypeOK
<1>5. /\ Unchanged' \subseteq Unchanged
      /\ \A k \in Unchanged' : db'[k] = db[k]
      /\ key[c] \in Unchanged' => reply' = [reply EXCEPT ![c] = Failed]
  BY <1>1 DEF ExecRow, Unchanged, TypeOK
<1>6. RowsAreStored'
  BY <1>2, <1>5 DEF RowsAreStored, TypeOK, Unchanged
<1>7. SuccessIsStored'
  BY <1>1, <1>2, <1>5 DEF SuccessIsStored, Succeeded, TypeOK
<1>8. HasRead'
  BY DEF HasRead, ExecRow
<1> QED  BY <1>8, <1>3, <1>4, <1>6, <1>7

\* The misbound update fails and touches nothing.
LEMMA MisboundCacheInv ==
    ASSUME CacheInv, NEW c \in Call, MisboundUpdate(c)
    PROVE  CacheInv'
<1> USE DEF CacheInv, MisboundUpdate
<1>1. TypeOK'
  BY DEF TypeOK, Outcome
<1>2. Accepted'
  BY DEF Accepted, TypeOK
<1>3. RowsAreStored'
  BY DEF RowsAreStored, TypeOK, Unchanged
<1>4. SuccessIsStored'
  BY DEF SuccessIsStored, Succeeded, TypeOK, Unchanged
<1>5. HasRead'
  BY DEF HasRead
<1> QED  BY <1>5, <1>1, <1>2, <1>3, <1>4

\* Entries that leave the cache, through DelCache or their time to live.
LEMMA DropCacheInv ==
    ASSUME CacheInv,
           (\E c \in Call : DelCache(c)) \/ (\E k \in Key : Expire(k))
    PROVE  CacheInv'
<1> USE DEF CacheInv, DelCache, Expire, Dropped
<1>1. /\ UNCHANGED <<db, changed, flight, got, at, key, row, reply, answer>>
      /\ \A k \in Key : cache'[k] \in {cache[k], None}
  BY DEF TypeOK
<1>2. TypeOK'
  BY DEF TypeOK, Accepted
<1>3. Accepted'
  BY <1>1 DEF Accepted, TypeOK
<1>4. RowsAreStored'
  BY <1>1 DEF RowsAreStored, Unchanged
<1>5. SuccessIsStored'
  BY <1>1 DEF SuccessIsStored, Succeeded, Unchanged
<1>6. HasRead'
  BY <1>1 DEF HasRead
<1> QED  BY <1>6, <1>2, <1>3, <1>4, <1>5

-----------------------------------------------------------------------------
(* The RPC server: finding *)

\* Taking off and joining move program counters only.
LEMMA JoinCacheInv ==
    ASSUME CacheInv, NEW c \in Call, Join(c)
    PROVE  CacheInv'
<1> USE DEF CacheInv, Join
<1>1. TypeOK'
  BY DEF TypeOK
<1>2. Accepted'
  BY DEF Accepted, TypeOK
<1>3. RowsAreStored'
  BY DEF RowsAreStored, Unchanged
<1>4. SuccessIsStored'
  BY DEF SuccessIsStored, Succeeded, Unchanged
<1>5. HasRead'
  BY DEF HasRead, TypeOK
<1> QED  BY <1>5, <1>1, <1>2, <1>3, <1>4

\* An outcome that may be handed out for key k.
Deliverable(k, v) ==
    v \in Row \cup {NotFound, Failed} /\ (v \in Row /\ k \in Unchanged => v = db[k])

\* A flight hands such an outcome to calls that wait for this very key.
LEMMA LandCacheInv ==
    ASSUME CacheInv, NEW s \in Server, NEW k \in Key, NEW v,
           Deliverable(k, v), Land(s, k, v), UNCHANGED <<db, changed, accident>>,
           cache' \in [Key -> Row \cup {None, NotFound}],
           \A x \in Unchanged : cache'[x] \in Row => cache'[x] = db[x]
    PROVE  CacheInv'
<1> USE DEF CacheInv
<1>1. /\ UNCHANGED <<at, key, row, answer, db, changed, accident>>
      /\ reply' = [c \in Call |-> IF c \in Waiters(s, k) THEN v ELSE reply[c]]
      /\ got' = [got EXCEPT ![<<s, k>>] = None]
  BY DEF Land
<1>2. \A c \in Waiters(s, k) : srv[c] \in {"wait", "lookupwait"} /\ key[c] = k
  BY DEF Waiters
<1>3. v \in Row \cup {NotFound, Failed} /\ v # Ok
  BY DEF Deliverable
<1>4. \A c \in Call :
          \/ srv'[c] = srv[c]
          \/ c \in Waiters(s, k) /\ srv'[c] \in {"delete", "replied"}
  BY DEF Land, Returns
<1>5. TypeOK'
  <2>1. srv' \in [Call -> {"idle", "insert", "update", "delete", "delcache",
                           "find", "wait", "lookup", "lookupwait", "replied"}]
    BY DEF Land, Returns, TypeOK
  <2>2. reply' \in [Call -> Outcome \cup {None}]
    BY <1>1, <1>3 DEF TypeOK, Outcome
  <2>3. flight' \in [Flights -> {"idle", "get", "query", "fill"}]
    BY DEF Land, TypeOK
  <2> QED  BY <1>1, <2>1, <2>2, <2>3 DEF TypeOK
<1>6. Accepted'
  BY <1>1, <1>2, <1>4 DEF Accepted, TypeOK
<1>7. RowsAreStored'
  BY <1>1, <1>2 DEF RowsAreStored, Deliverable, Unchanged, TypeOK
<1>8. SuccessIsStored'
  BY <1>1, <1>3 DEF SuccessIsStored, Succeeded, Unchanged
<1>9. HasRead'
  BY DEF HasRead, Land, TypeOK
<1> QED  BY <1>9, <1>5, <1>6, <1>7, <1>8

\* Every step of a flight: what it lands with was read from the table, by it
\* or by the flight that filled the cache.
LEMMA FlightCacheInv ==
    ASSUME CacheInv, NEW s \in Server, NEW k \in Key, FlightNext(s, k)
    PROVE  CacheInv'
<1>0. /\ TypeOK /\ HasRead /\ RowsAreStored /\ <<s, k>> \in Flights
      /\ cache[k] \in Row \cup {None, NotFound}
      /\ got[<<s, k>>] \in Row \cup {None, NotFound}
  BY DEF CacheInv, TypeOK, Flights
<1>1. CASE CacheHit(s, k)
  <2>1. Deliverable(k, cache[k])
    BY <1>0, <1>1 DEF Deliverable, CacheHit, RowsAreStored
  <2> QED
    BY <1>0, <1>1, <2>1, LandCacheInv DEF CacheHit, RowsAreStored, TypeOK
<1>2. CASE CacheMiss(s, k)
  <2>1. UNCHANGED <<db, cache, changed, got, callVars>>
    BY <1>2 DEF CacheMiss
  <2>2. TypeOK'
    BY <1>0, <1>2 DEF CacheMiss, TypeOK
  <2>3. HasRead'
    BY <1>0, <1>2 DEF CacheMiss, HasRead, TypeOK
  <2> QED
    BY <2>1, <2>2, <2>3 DEF CacheInv, Accepted, RowsAreStored, SuccessIsStored,
                            Succeeded, Unchanged
<1>3. CASE QueryRow(s, k)
  <2>1. UNCHANGED <<db, cache, changed, callVars>>
    BY <1>3 DEF QueryRow
  <2>2. TypeOK'
    BY <1>0, <1>3 DEF QueryRow, TypeOK
  <2>3. Accepted' /\ SuccessIsStored'
    BY <2>1 DEF CacheInv, Accepted, SuccessIsStored, Succeeded, Unchanged
  <2>4. RowsAreStored'
    BY <1>0, <1>3, <2>1 DEF QueryRow, RowsAreStored, Unchanged, TypeOK
  <2>5. HasRead'
    BY <1>0, <1>3 DEF QueryRow, HasRead, TypeOK
  <2> QED  BY <2>2, <2>3, <2>4, <2>5 DEF CacheInv
<1>4. CASE TakeFails(s, k)
  <2>1. Deliverable(k, Failed)
    BY DEF Deliverable
  <2> QED
    BY <1>0, <1>4, <2>1, LandCacheInv DEF TakeFails, RowsAreStored, TypeOK
<1>5. CASE Fill(s, k)
  <2>1. got[<<s, k>>] # None
    BY <1>0, <1>5 DEF Fill, HasRead
  <2>2. Deliverable(k, got[<<s, k>>])
    BY <1>0, <2>1 DEF Deliverable, RowsAreStored
  <2>3. cache' \in [Key -> Row \cup {None, NotFound}]
    BY <1>0, <1>5 DEF Fill, TypeOK
  <2>4. \A x \in Unchanged : cache'[x] \in Row => cache'[x] = db[x]
    BY <1>0, <1>5, <2>2 DEF Fill, RowsAreStored, Deliverable, TypeOK, Unchanged
  <2> QED
    BY <1>5, <2>2, <2>3, <2>4, LandCacheInv DEF Fill
<1> QED  BY <1>1, <1>2, <1>3, <1>4, <1>5 DEF FlightNext

\* A crash fails the calls of its server and forgets its flights.
LEMMA CrashCacheInv ==
    ASSUME CacheInv, NEW s \in Server, Crash(s)
    PROVE  CacheInv'
<1> DEFINE dies(c) == at[c] = s /\ srv[c] # "replied"
<1>1. /\ UNCHANGED <<at, key, row, answer, db, cache, changed>>
      /\ flight' = [f \in Flights |-> IF f[1] = s THEN "idle" ELSE flight[f]]
      /\ got' = [f \in Flights |-> IF f[1] = s THEN None ELSE got[f]]
      /\ srv' = [c \in Call |-> IF dies(c) THEN "replied" ELSE srv[c]]
      /\ reply' = [c \in Call |-> IF dies(c) THEN Failed ELSE reply[c]]
  BY DEF Crash
<1>0. accident' \subseteq Key
  BY DEF Crash, CacheInv, TypeOK, Accepted
<1> HIDE DEF dies
<1> USE DEF CacheInv
<1>2. TypeOK'
  BY <1>0, <1>1 DEF TypeOK, Outcome
<1>3. Accepted'
  BY <1>1 DEF Accepted
<1>4. RowsAreStored'
  BY <1>1 DEF RowsAreStored, Unchanged
<1>5. SuccessIsStored'
  BY <1>1 DEF SuccessIsStored, Succeeded, Unchanged
<1>6. HasRead'
  BY <1>1 DEF HasRead
<1> QED  BY <1>6, <1>2, <1>3, <1>4, <1>5

\* Nothing happens.
LEMMA StutterCacheInv ==
    ASSUME CacheInv, UNCHANGED vars
    PROVE  CacheInv'
BY DEF vars, CacheInv, TypeOK, Accepted, HasRead, RowsAreStored, SuccessIsStored,
       Succeeded, Unchanged

-----------------------------------------------------------------------------
(* The cache and the table: OnlyByAccident is not inductive, because a flight *)
(* that has read the row may still cache it.                                  *)

\* What a flight is about to cache is true, or its key has met an accident.
CarriedIsTrue ==
    \A s \in Server, k \in Key : flight[<<s, k>>] = "fill" =>
        got[<<s, k>>] = Truth(k) \/ k \in accident

Coherent(hides) == OnlyByAccident(hides) /\ CarriedIsTrue

\* An empty cache agrees with every table.
LEMMA InitCoherent ==
    ASSUME NEW hides \in BOOLEAN, Init
    PROVE  Coherent(hides)
BY DEF Init, Coherent, OnlyByAccident, CarriedIsTrue, Flights

\* Steps that leave table and cache alone, drop no call that is about to clear
\* the cache, and give a flight nothing but what is in the table.
LEMMA QuietCoherent ==
    ASSUME NEW hides \in BOOLEAN, Coherent(hides), UNCHANGED storeVars,
           \A c \in Call : srv[c] = "delcache" => srv'[c] = "delcache" /\ key'[c] = key[c],
           \A s \in Server, k \in Key : flight'[<<s, k>>] = "fill" =>
              \/ flight[<<s, k>>] = "fill" /\ got'[<<s, k>>] = got[<<s, k>>]
              \/ got'[<<s, k>>] = Truth(k)
    PROVE  Coherent(hides)'
<1>1. OnlyByAccident(hides)'
  BY DEF Coherent, OnlyByAccident, Truth
<1>2. CarriedIsTrue'
  BY DEF Coherent, CarriedIsTrue, Truth
<1> QED  BY <1>1, <1>2 DEF Coherent

\* A call is sent, answered, given up or forgotten, or its statement is refused.
LEMMA ApiCoherent ==
    ASSUME NEW hides \in BOOLEAN, Coherent(hides), CacheInv, NEW c \in Call,
           \/ \E s \in Server, k \in Key, r \in Row \cup {None},
                 step \in {"insert", "update", "delete", "find", "lookup"} :
                 Send(c, s, k, r, step)
           \/ Answer(c) \/ GiveUp(c) \/ NextCall(c) \/ MisboundUpdate(c) \/ Join(c)
    PROVE  Coherent(hides)'
<1>1. UNCHANGED storeVars
  BY DEF Send, Answer, GiveUp, NextCall, MisboundUpdate, Join
<1>2. \A d \in Call : srv[d] = "delcache" => srv'[d] = "delcache" /\ key'[d] = key[d]
  BY DEF Send, Answer, GiveUp, NextCall, MisboundUpdate, Join, CacheInv, TypeOK
<1>3. \A s \in Server, k \in Key : flight'[<<s, k>>] = "fill" =>
         flight[<<s, k>>] = "fill" /\ got'[<<s, k>>] = got[<<s, k>>]
  BY DEF Send, Answer, GiveUp, NextCall, MisboundUpdate, Join, CacheInv, TypeOK, Flights
<1> QED  BY <1>1, <1>2, <1>3, QuietCoherent

\* A statement of call c ran, or failed without effect: of the cache only the
\* entry of its key can have become stale.
LEMMA StatementCoherent ==
    ASSUME NEW hides \in BOOLEAN, Coherent(hides), CacheInv, NEW c \in Call,
           key[c] \in Key, srv[c] # "delcache",
           UNCHANGED <<cache, flight, got, key>>,
           \A d \in Call : d # c => srv'[d] = srv[d],
           \/ UNCHANGED <<db, accident>>
           \/ /\ \A k \in Key : k # key[c] => db'[k] = db[k]
              /\ \/ /\ Spoils(key[c], TRUE)
                    /\ \/ srv'[c] = "delcache"
                       \/ hides /\ db[key[c]] = None
                 \/ Spoils(key[c], FALSE)
    PROVE  Coherent(hides)'
<1>1. accident \subseteq accident' 
  BY DEF Spoils
<1>2. \A d \in Call : srv[d] = "delcache" => srv'[d] = "delcache" /\ key'[d] = key[d]
  OBVIOUS
<1>3. CASE UNCHANGED <<db, accident>>
  BY <1>2, <1>3 DEF Coherent, OnlyByAccident, CarriedIsTrue, Truth
<1>4. CASE \A k \in Key : k # key[c] => db'[k] = db[k]
  <2>1. \A k \in Key : k # key[c] => Truth(k)' = Truth(k)
    BY <1>4 DEF Truth
  <2>2. \A s \in Server : flight[<<s, key[c]>>] = "fill" =>
           key[c] \in accident' \/ UNCHANGED <<db, accident>>
    BY DEF Spoils, Carried
  <2>3. CarriedIsTrue'
    BY <1>1, <1>4, <2>1, <2>2 DEF Coherent, CarriedIsTrue, Truth
  <2>4. ASSUME NEW k \in Key, cache'[k] \notin {None, Truth(k)'}
        PROVE  \/ \E d \in Call : srv'[d] = "delcache" /\ key'[d] = k
               \/ k \in accident'
               \/ hides /\ cache'[k] = NotFound
    <3>1. CASE cache[k] \notin {None, Truth(k)}
      BY <1>1, <1>2, <3>1 DEF Coherent, OnlyByAccident
    <3>2. CASE cache[k] \in {None, Truth(k)}
      <4>1. k = key[c] /\ cache[k] = Truth(k)
        BY <2>1, <2>4, <3>2
      <4>2. CASE db[k] = None
        BY <2>4, <4>1, <4>2 DEF Spoils, Truth
      <4>3. CASE db[k] # None
        BY <2>4, <4>1, <4>3 DEF Spoils, Truth
      <4> QED  BY <4>2, <4>3
    <3> QED  BY <3>1, <3>2
  <2>5. OnlyByAccident(hides)'
    BY <2>4 DEF OnlyByAccident
  <2> QED  BY <2>3, <2>5 DEF Coherent
<1> QED  BY <1>3, <1>4

\* An insert only makes a placeholder stale, which is dropped next or stays.
LEMMA InsertCoherent ==
    ASSUME NEW hides \in BOOLEAN, Coherent(hides), CacheInv, NEW c \in Call,
           NEW afterwards \in {"replied", "delcache"}, InsertRow(c, afterwards),
           afterwards = "delcache" \/ hides
    PROVE  Coherent(hides)'
<1>1. /\ key[c] \in Key /\ srv[c] # "delcache" /\ UNCHANGED <<cache, flight, got, key>>
      /\ \A d \in Call : d # c => srv'[d] = srv[d]
  BY DEF InsertRow, CacheInv, Accepted, TypeOK
<1>2. \/ UNCHANGED <<db, accident>>
      \/ /\ \A k \in Key : k # key[c] => db'[k] = db[k]
         /\ db[key[c]] = None
         /\ \/ Spoils(key[c], TRUE) /\ srv'[c] = afterwards
            \/ Spoils(key[c], FALSE)
  BY <1>1 DEF InsertRow, CacheInv, TypeOK
<1> QED  BY <1>1, <1>2, StatementCoherent

\* An update or delete goes on to drop the entry.
LEMMA ExecCoherent ==
    ASSUME NEW hides \in BOOLEAN, Coherent(hides), CacheInv, NEW c \in Call,
           NEW step \in {"update", "delete"}, NEW r \in Row \cup {None},
           ExecRow(c, step, r, "delcache")
    PROVE  Coherent(hides)'
<1>1. /\ key[c] \in Key /\ srv[c] # "delcache" /\ UNCHANGED <<cache, flight, got, key>>
      /\ \A d \in Call : d # c => srv'[d] = srv[d]
  BY DEF ExecRow, CacheInv, Accepted, TypeOK
<1>2. \/ UNCHANGED <<db, accident>>
      \/ /\ \A k \in Key : k # key[c] => db'[k] = db[k]
         /\ \/ Spoils(key[c], TRUE) /\ srv'[c] = "delcache"
            \/ Spoils(key[c], FALSE)
  BY <1>1 DEF ExecRow, CacheInv, TypeOK
<1> QED  BY <1>1, <1>2, StatementCoherent

\* An entry that is dropped cannot be stale; unless a flight carries the row
\* nothing can bring it back.
LEMMA DropCoherent ==
    ASSUME NEW hides \in BOOLEAN, Coherent(hides), CacheInv,
           (\E c \in Call : DelCache(c)) \/ (\E k \in Key : Expire(k))
    PROVE  Coherent(hides)'
<1>1. PICK k \in Key :
         /\ Dropped(k) \/ (accident' = accident \cup {k} /\ UNCHANGED cache)
         /\ \A d \in Call : srv[d] = "delcache" /\ key[d] # k => srv'[d] = "delcache"
         /\ (\E d \in Call : srv[d] = "delcache" /\ srv'[d] # "delcache") =>
               cache'[k] = None \/ k \in accident'
         /\ UNCHANGED <<db, flight, got, key>>
  <2>1. CASE \E c \in Call : DelCache(c)
    BY <2>1 DEF DelCache, Dropped, CacheInv, Accepted, TypeOK
  <2>2. CASE \E k \in Key : Expire(k)
    BY <2>2 DEF Expire, Dropped
  <2> QED  BY <2>1, <2>2
<1>2. \A x \in Key : Truth(x)' = Truth(x)
  BY <1>1 DEF Truth
<1>3. CarriedIsTrue'
  BY <1>1, <1>2 DEF Coherent, CarriedIsTrue, Dropped, Carried
<1>4. CASE Dropped(k)
  <2>1. cache'[k] = None /\ \A x \in Key : x # k => cache'[x] = cache[x]
    BY <1>4 DEF Dropped, CacheInv, TypeOK
  <2>2. \A x \in Key : x # k => (x \in accident' <=> x \in accident)
    BY <1>4 DEF Dropped
  <2>3. OnlyByAccident(hides)'
    BY <1>1, <1>2, <2>1, <2>2 DEF Coherent, OnlyByAccident
  <2> QED  BY <1>3, <2>3 DEF Coherent
<1>5. CASE accident' = accident \cup {k} /\ UNCHANGED cache
  <2>1. OnlyByAccident(hides)'
    BY <1>1, <1>2, <1>5 DEF Coherent, OnlyByAccident
  <2> QED  BY <1>3, <2>1 DEF Coherent
<1> QED  BY <1>1, <1>4, <1>5

\* A flight hits, misses, reads, fails or fills.
LEMMA FlightCoherent ==
    ASSUME NEW hides \in BOOLEAN, Coherent(hides), CacheInv,
           NEW s \in Server, NEW k \in Key, FlightNext(s, k)
    PROVE  Coherent(hides)'
<1>0. TypeOK /\ <<s, k>> \in Flights
  BY DEF CacheInv, Flights
<1>1. \A d \in Call : srv[d] = "delcache" => srv'[d] = "delcache" /\ key'[d] = key[d]
  BY <1>0 DEF FlightNext, CacheHit, CacheMiss, QueryRow, TakeFails, Fill, Land, Waiters,
              TypeOK
<1>2. CASE CacheHit(s, k) \/ CacheMiss(s, k) \/ QueryRow(s, k) \/ TakeFails(s, k)
  <2>1. UNCHANGED storeVars
    BY <1>2 DEF CacheHit, CacheMiss, QueryRow, TakeFails
  <2>2. \A t \in Server, x \in Key : flight'[<<t, x>>] = "fill" =>
           \/ flight[<<t, x>>] = "fill" /\ got'[<<t, x>>] = got[<<t, x>>]
           \/ got'[<<t, x>>] = Truth(x)
    BY <1>0, <1>2 DEF CacheHit, CacheMiss, QueryRow, TakeFails, Land, TypeOK, Flights, Truth
  <2> QED  BY <1>1, <2>1, <2>2, QuietCoherent
<1>3. CASE Fill(s, k)
  <2>1. /\ flight[<<s, k>>] = "fill" /\ UNCHANGED <<db, accident, key>>
        /\ \A x \in Key : x # k => cache'[x] = cache[x]
        /\ cache'[k] \in {cache[k], got[<<s, k>>]}
    BY <1>0, <1>3 DEF Fill, Land, TypeOK
  <2>2. \A t \in Server, x \in Key : flight'[<<t, x>>] = "fill" =>
           flight[<<t, x>>] = "fill" /\ got'[<<t, x>>] = got[<<t, x>>]
    BY <1>0, <1>3 DEF Fill, Land, TypeOK, Flights
  <2>3. \A x \in Key : Truth(x)' = Truth(x)
    BY <2>1 DEF Truth
  <2>4. CarriedIsTrue'
    BY <2>1, <2>2, <2>3 DEF Coherent, CarriedIsTrue
  <2>5. OnlyByAccident(hides)'
    <3> SUFFICES ASSUME NEW x \in Key, cache'[x] \notin {None, Truth(x)}
                 PROVE  \/ \E d \in Call : srv'[d] = "delcache" /\ key'[d] = x
                        \/ x \in accident'
                        \/ hides /\ cache'[x] = NotFound
      BY <2>3 DEF OnlyByAccident
    <3>1. CASE cache'[x] = cache[x]
      BY <1>1, <2>1, <3>1 DEF Coherent, OnlyByAccident
    <3>2. CASE x = k /\ cache'[x] = got[<<s, k>>]
      BY <2>1, <3>2 DEF Coherent, CarriedIsTrue
    <3> QED  BY <2>1, <3>1, <3>2
  <2> QED  BY <2>4, <2>5 DEF Coherent
<1> QED  BY <1>2, <1>3 DEF FlightNext

\* A crash before DelCache is an accident; its flights cache nothing any more.
LEMMA CrashCoherent ==
    ASSUME NEW hides \in BOOLEAN, Coherent(hides), CacheInv, NEW s \in Server, Crash(s)
    PROVE  Coherent(hides)'
<1>1. /\ UNCHANGED <<db, cache, key>> /\ accident \subseteq accident'
      /\ \A d \in Call : srv[d] = "delcache" => srv'[d] = "delcache" \/ key[d] \in accident'
  BY DEF Crash
<1>2. \A t \in Server, x \in Key : flight'[<<t, x>>] = "fill" =>
         flight[<<t, x>>] = "fill" /\ got'[<<t, x>>] = got[<<t, x>>]
  BY DEF Crash, Flights
<1>3. \A x \in Key : Truth(x)' = Truth(x)
  BY <1>1 DEF Truth
<1>4. CarriedIsTrue'
  BY <1>1, <1>2, <1>3 DEF Coherent, CarriedIsTrue
<1>5. OnlyByAccident(hides)'
  BY <1>1, <1>3 DEF Coherent, OnlyByAccident
<1> QED  BY <1>4, <1>5 DEF Coherent

-----------------------------------------------------------------------------
(* The bookstore, with any number of clients, processes of the two services, *)
(* books and prices, and with the model's Update and Delete beside them.     *)

USE ServiceAssumption

\* Every step of the bookstore is one of CachedTable's operations.
LEMMA BookNextCacheInv ==
    ASSUME CacheInv, [BookNext]_vars
    PROVE  CacheInv'
<1>1. ASSUME NEW c \in Call, Add(c)
      PROVE  CacheInv'
  <2>1. PICK s \in Adder, book \in Key, price \in Row : Send(c, s, book, price, "insert")
    BY <1>1 DEF Add
  <2> QED  BY <2>1, SendCacheInv
<1>2. ASSUME NEW c \in Call, Check(c)
      PROVE  CacheInv'
  <2>1. PICK s \in Checker, book \in Key : Send(c, s, book, None, "find")
    BY <1>2 DEF Check
  <2> QED  BY <2>1, SendCacheInv
<1>3. ASSUME NEW c \in Call, BookChange(c)
      PROVE  CacheInv'
  <2>1. PICK s \in Adder, book \in Key, step \in {"update", "delete"} :
               Send(c, s, book, None, step)
    BY <1>3 DEF BookChange
  <2> QED  BY <2>1, SendCacheInv
<1>4. ASSUME NEW c \in Call, BookServer(c)
      PROVE  CacheInv'
  BY <1>4, InsertCacheInv, JoinCacheInv, MisboundCacheInv, ExecCacheInv, DropCacheInv
     DEF BookServer, BookInsert, CheckRpc, BookUpdate, BookDelete, DeleteRow
<1>5. ASSUME NEW c \in Call, Answer(c) \/ GiveUp(c) \/ NextCall(c)
      PROVE  CacheInv'
  BY <1>5, AnswerCacheInv
<1>6. ASSUME NEW s \in Checker, NEW book \in Key, BookFindOne(s, book)
      PROVE  CacheInv'
  BY <1>6, FlightCacheInv DEF BookFindOne
<1>7. ASSUME NEW book \in Key, Expire(book)
      PROVE  CacheInv'
  BY <1>7, DropCacheInv
<1>8. ASSUME NEW s \in Server, Crash(s)
      PROVE  CacheInv'
  BY <1>8, CrashCacheInv
<1>9. CASE UNCHANGED vars
  BY <1>9, StutterCacheInv
<1> QED
  BY <1>1, <1>2, <1>3, <1>4, <1>5, <1>6, <1>7, <1>8, <1>9 DEF BookNext

\* CacheInv is an invariant of the bookstore.
THEOREM BookInductive == BookSpec => []CacheInv
<1>1. Init => CacheInv
  BY InitCacheInv
<1>2. CacheInv /\ [BookNext]_vars => CacheInv'
  BY BookNextCacheInv
<1> QED  BY <1>1, <1>2, PTL DEF BookSpec

\* A client that checks a book is given the price in the table, whichever of
\* the cache, a shared flight and the table it came from, and whatever inserts,
\* expirations, failed attempts and crashes happen meanwhile.
THEOREM CheckedIsStored == BookSpec => []FoundIsStored
BY BookInductive, CacheInvImplies, PTL

\* An add that is reported to have succeeded did store its price, and no other
\* client's add of the same book is reported so.
THEOREM AddedOnce == BookSpec => []InsertedOnce
BY BookInductive, CacheInvImplies, PTL

\* Every step of the bookstore keeps the cache and the table together.
LEMMA BookNextCoherent ==
    ASSUME CacheInv, Coherent(TRUE), [BookNext]_vars
    PROVE  Coherent(TRUE)'
<1>1. ASSUME NEW c \in Call, Add(c) \/ Check(c) \/ BookChange(c)
      PROVE  Coherent(TRUE)'
  BY <1>1, ApiCoherent DEF Add, Check, BookChange
<1>2. ASSUME NEW c \in Call, BookServer(c)
      PROVE  Coherent(TRUE)'
  BY <1>2, InsertCoherent, ApiCoherent, ExecCoherent, DropCoherent
     DEF BookServer, BookInsert, CheckRpc, BookUpdate, BookDelete, DeleteRow
<1>3. ASSUME NEW c \in Call, Answer(c) \/ GiveUp(c) \/ NextCall(c)
      PROVE  Coherent(TRUE)'
  BY <1>3, ApiCoherent
<1>4. ASSUME NEW s \in Checker, NEW book \in Key, BookFindOne(s, book)
      PROVE  Coherent(TRUE)'
  BY <1>4, FlightCoherent DEF BookFindOne
<1>5. ASSUME NEW book \in Key, Expire(book)
      PROVE  Coherent(TRUE)'
  BY <1>5, DropCoherent
<1>6. ASSUME NEW s \in Server, Crash(s)
      PROVE  Coherent(TRUE)'
  BY <1>6, CrashCoherent
<1>7. CASE UNCHANGED vars
  BY <1>7, QuietCoherent DEF vars
<1> QED  BY <1>1, <1>2, <1>3, <1>4, <1>5, <1>6, <1>7 DEF BookNext

\* In the bookstore a cached price is the table's, but while a delete is about to
\* drop it and after an accident; a placeholder may hide a book added later.
THEOREM BookCacheCoherent == BookSpec => []OnlyByAccident(TRUE)
<1>1. Init => Coherent(TRUE)
  BY InitCoherent
<1>2. CacheInv /\ Coherent(TRUE) /\ [BookNext]_vars => Coherent(TRUE)'
  BY BookNextCoherent
<1>3. Coherent(TRUE) => OnlyByAccident(TRUE)
  BY DEF Coherent
<1> QED  BY <1>1, <1>2, <1>3, BookInductive, PTL DEF BookSpec

-----------------------------------------------------------------------------
(* Both URL shorteners, whatever function Md5Key is: no step relies on keys  *)
(* being distinct.                                                          *)

USE Md5KeyAssumption

\* The rows of unchanged keys, and those about to be inserted, have the URL
\* whose key they are stored under.
KeysFit ==
    /\ \A k \in Unchanged : db[k] \in Row => Md5Key[db[k]] = k
    /\ \A c \in Call : srv[c] = "insert" => Md5Key[row[c]] = key[c]

UrlInv == CacheInv /\ KeysFit

\* Only a request for Shorten starts with an insert, under the URL's key.
LEMMA SendUrlInv ==
    ASSUME UrlInv, NEW c \in Call, NEW s \in Server, NEW k \in Key,
           NEW r \in Row \cup {None},
           NEW step \in {"insert", "update", "delete", "find", "lookup"},
           step = "insert" => r \in Row /\ k = Md5Key[r],
           Send(c, s, k, r, step)
    PROVE  UrlInv'
<1>1. CacheInv'
  BY SendCacheInv DEF UrlInv
<1>2. KeysFit'
  BY DEF UrlInv, KeysFit, CacheInv, TypeOK, Send, Unchanged
<1> QED  BY <1>1, <1>2 DEF UrlInv

\* An insert stores a URL under its key.
LEMMA InsertUrlInv ==
    ASSUME UrlInv, NEW c \in Call, NEW afterwards \in {"replied", "delcache"},
           InsertRow(c, afterwards)
    PROVE  UrlInv'
<1>1. CacheInv'
  BY InsertCacheInv DEF UrlInv
<1>2. /\ UNCHANGED <<changed, key, row>>
      /\ db' \in {db, [db EXCEPT ![key[c]] = row[c]]}
      /\ srv' \in {[srv EXCEPT ![c] = afterwards], [srv EXCEPT ![c] = "replied"]}
      /\ Md5Key[row[c]] = key[c]
  BY DEF UrlInv, KeysFit, InsertRow
<1>3. KeysFit'
  BY <1>2 DEF UrlInv, KeysFit, CacheInv, TypeOK, Unchanged
<1> QED  BY <1>1, <1>3 DEF UrlInv

\* An update or delete touches no row of a key that stays unchanged.
LEMMA ExecUrlInv ==
    ASSUME UrlInv, NEW c \in Call, NEW step \in {"update", "delete"},
           NEW r \in Row \cup {None}, ExecRow(c, step, r, "delcache")
    PROVE  UrlInv'
<1>1. CacheInv'
  BY ExecCacheInv DEF UrlInv
<1>2. /\ UNCHANGED <<key, row>>
      /\ Unchanged' \subseteq Unchanged
      /\ \A k \in Unchanged' : db'[k] = db[k]
      /\ srv' \in {[srv EXCEPT ![c] = "delcache"], [srv EXCEPT ![c] = "replied"]}
  BY DEF ExecRow, UrlInv, CacheInv, TypeOK, Unchanged
<1>3. KeysFit'
  BY <1>2 DEF UrlInv, KeysFit, CacheInv, TypeOK
<1> QED  BY <1>1, <1>3 DEF UrlInv

\* No other step stores a row or starts an insert.
LEMMA OtherUrlInv ==
    ASSUME UrlInv, CacheInv', UNCHANGED <<db, changed>>,
           \A c \in Call : srv'[c] = "insert" =>
              srv[c] = "insert" /\ key'[c] = key[c] /\ row'[c] = row[c]
    PROVE  UrlInv'
BY DEF UrlInv, KeysFit, Unchanged

\* Every step of the two services preserves the invariant.
LEMMA NextUrlInv ==
    ASSUME UrlInv, [Next]_urlVars
    PROVE  UrlInv'
<1>0. CacheInv /\ TypeOK
  BY DEF UrlInv, CacheInv
<1>1. ASSUME NEW c \in Call, Shorten(c) \/ TlsShorten(c)
      PROVE  UrlInv'
  <2>1. PICK s \in Server, url \in Row : Send(c, s, Md5Key[url], url, "insert")
    BY <1>1 DEF Shorten, TlsShorten
  <2> QED  BY <2>1, SendUrlInv
<1>2. ASSUME NEW c \in Call, Expand(c) \/ TlsExpand(c)
      PROVE  UrlInv'
  <2>1. PICK s \in Server, shorten \in Key : Send(c, s, shorten, None, "find")
    BY <1>2 DEF Expand, TlsExpand
  <2> QED  BY <2>1, SendUrlInv
<1>3. ASSUME NEW c \in Call, Change(c) \/ TlsChange(c)
      PROVE  UrlInv'
  <2>1. PICK s \in Server, shorten \in Key, r \in Row \cup {None},
             step \in {"update", "delete", "lookup"} : Send(c, s, shorten, r, step)
    BY <1>3 DEF Change, TlsChange
  <2> QED  BY <2>1, SendUrlInv
<1>4. ASSUME NEW c \in Call, Insert(c) \/ TlsInsert(c)
      PROVE  UrlInv'
  BY <1>4, InsertUrlInv DEF Insert, TlsInsert
<1>5. ASSUME NEW c \in Call, Update(c) \/ Delete(c) \/ TlsDelete(c)
      PROVE  UrlInv'
  <2>1. row[c] \in Row \cup {None}
    BY <1>0 DEF TypeOK
  <2> QED
    BY <1>5, <2>1, ExecUrlInv DEF Update, Delete, TlsDelete, UpdateRow, DeleteRow
<1>6. ASSUME NEW c \in Call, ExpandRpc(c) \/ TlsExpandRpc(c)
      PROVE  UrlInv'
  <2>1. Join(c)
    BY <1>6 DEF ExpandRpc, TlsExpandRpc
  <2>2. /\ UNCHANGED <<db, changed, key, row>>
        /\ \A x \in Call : srv'[x] = "insert" => srv[x] = "insert"
    BY <1>0, <2>1 DEF Join, TypeOK
  <2> QED  BY <1>0, <2>1, <2>2, JoinCacheInv, OtherUrlInv
<1>7. ASSUME NEW c \in Call, \/ DelCache(c) \/ TlsUpdate(c)
                            \/ Answer(c) \/ GiveUp(c) \/ NextCall(c)
      PROVE  UrlInv'
  <2>1. CacheInv'
    BY <1>0, <1>7, DropCacheInv, MisboundCacheInv, AnswerCacheInv DEF TlsUpdate
  <2>2. /\ UNCHANGED <<db, changed>>
        /\ \A x \in Call : srv'[x] = "insert" =>
              srv[x] = "insert" /\ key'[x] = key[x] /\ row'[x] = row[x]
    BY <1>0, <1>7 DEF DelCache, TlsUpdate, MisboundUpdate, Answer, GiveUp, NextCall, TypeOK
  <2> QED  BY <2>1, <2>2, OtherUrlInv
<1>8. ASSUME NEW s \in Server, NEW shorten \in Key, FlightStep(s, shorten)
      PROVE  UrlInv'
  <2>1. FlightNext(s, shorten)
    BY <1>8 DEF FlightStep, FindOne, TlsFindOne
  <2>2. CacheInv'
    BY <1>0, <2>1, FlightCacheInv
  <2>3. /\ UNCHANGED <<db, changed, key, row>>
        /\ \A x \in Call : srv'[x] = "insert" => srv[x] = "insert"
    BY <1>0, <2>1 DEF FlightNext, CacheHit, CacheMiss, QueryRow, TakeFails, Fill, Land,
                      Returns, TypeOK
  <2> QED  BY <2>2, <2>3, OtherUrlInv
<1>9. ASSUME NEW shorten \in Key, Expire(shorten)
      PROVE  UrlInv'
  BY <1>0, <1>9, DropCacheInv, OtherUrlInv DEF Expire
<1>10. ASSUME NEW s \in Server, Crash(s)
       PROVE  UrlInv'
  <2>1. CacheInv'
    BY <1>0, <1>10, CrashCacheInv
  <2>2. /\ UNCHANGED <<db, changed, key, row>>
        /\ \A x \in Call : srv'[x] = "insert" => srv[x] = "insert"
    BY <1>0, <1>10 DEF Crash
  <2> QED  BY <2>1, <2>2, OtherUrlInv
<1>11. CASE UNCHANGED urlVars
  BY <1>0, <1>11, StutterCacheInv, OtherUrlInv DEF urlVars, vars
<1> QED
  BY <1>1, <1>2, <1>3, <1>4, <1>5, <1>6, <1>7, <1>8, <1>9, <1>10, <1>11
     DEF Next, ServerNext

\* UrlInv is an invariant of the URL shorteners.
THEOREM UrlInductive == Spec => []UrlInv
<1>1. ShortUrlInit => UrlInv
  BY InitCacheInv DEF ShortUrlInit, UrlInv, KeysFit, Init, Unchanged
<1>2. UrlInv /\ [Next]_urlVars => UrlInv'
  BY NextUrlInv
<1> QED  BY <1>1, <1>2, PTL DEF Spec

\* A key that Expand resolved leads to a URL with that very key, and to the one
\* that was shortened to it: however URLs collide, and whether or not Insert
\* clears the cache.
THEOREM NoForeignUrl == Spec => []ExpandsToItsUrl
<1>1. UrlInv => ExpandsToItsUrl
  BY DEF UrlInv, KeysFit, CacheInv, RowsAreStored, SuccessIsStored, Succeeded,
         ExpandsToItsUrl
<1> QED  BY <1>1, UrlInductive, PTL

\* The two properties of the table hold for the shorteners as for the bookstore.
THEOREM ShortUrlTable == Spec => [](FoundIsStored /\ InsertedOnce)
<1>1. UrlInv => FoundIsStored /\ InsertedOnce
  BY CacheInvImplies DEF UrlInv
<1> QED  BY <1>1, UrlInductive, PTL

\* The cache of a service that clears it after an insert agrees with the table
\* placeholders included, that of the other one placeholders apart.
UrlCoherent == Coherent(TRUE) /\ (service = "shorturl" => Coherent(FALSE))

\* Every step of the two services keeps the cache and the table together.
LEMMA NextCoherent ==
    ASSUME CacheInv, NEW hides \in BOOLEAN, Coherent(hides), [Next]_urlVars,
           service = "tls" => hides
    PROVE  Coherent(hides)'
<1>1. ASSUME NEW c \in Call, \/ Shorten(c) \/ Expand(c) \/ Change(c)
                            \/ TlsShorten(c) \/ TlsExpand(c) \/ TlsChange(c)
      PROVE  Coherent(hides)'
  <2>1. \E s \in Server, k \in Key, r \in Row \cup {None},
            step \in {"insert", "update", "delete", "find", "lookup"} : Send(c, s, k, r, step)
    BY <1>1 DEF Shorten, Expand, Change, TlsShorten, TlsExpand, TlsChange
  <2> QED  BY <2>1, ApiCoherent
<1>2. ASSUME NEW c \in Call, Insert(c) \/ TlsInsert(c)
      PROVE  Coherent(hides)'
  BY <1>2, InsertCoherent DEF Insert, TlsInsert
<1>3. ASSUME NEW c \in Call, Update(c) \/ Delete(c) \/ TlsDelete(c)
      PROVE  Coherent(hides)'
  <2>1. row[c] \in Row \cup {None}
    BY DEF CacheInv, TypeOK
  <2> QED
    BY <1>3, <2>1, ExecCoherent DEF Update, Delete, TlsDelete, UpdateRow, DeleteRow
<1>4. ASSUME NEW c \in Call, \/ ExpandRpc(c) \/ TlsExpandRpc(c) \/ TlsUpdate(c)
                            \/ Answer(c) \/ GiveUp(c) \/ NextCall(c)
      PROVE  Coherent(hides)'
  BY <1>4, ApiCoherent DEF ExpandRpc, TlsExpandRpc, TlsUpdate
<1>5. ASSUME NEW s \in Server, NEW shorten \in Key, FlightStep(s, shorten)
      PROVE  Coherent(hides)'
  BY <1>5, FlightCoherent DEF FlightStep, FindOne, TlsFindOne
<1>6. ASSUME (\E c \in Call : DelCache(c)) \/ (\E shorten \in Key : Expire(shorten))
      PROVE  Coherent(hides)'
  BY <1>6, DropCoherent
<1>7. ASSUME NEW s \in Server, Crash(s)
      PROVE  Coherent(hides)'
  BY <1>7, CrashCoherent
<1>8. CASE UNCHANGED urlVars
  BY <1>8, QuietCoherent DEF urlVars, vars
<1> QED
  BY <1>1, <1>2, <1>3, <1>4, <1>5, <1>6, <1>7, <1>8 DEF Next, ServerNext

\* In both shorteners the cache is stale only while the entry is about to be
\* dropped or after an accident, for any clients, processes, keys and URLs.
THEOREM StaleByAccidentOnly == Spec => []StaleOnlyByAccident
<1>1. ShortUrlInit => UrlCoherent /\ service \in {"shorturl", "tls"}
  BY InitCoherent DEF ShortUrlInit, UrlCoherent
<1>2. UrlInv /\ UrlCoherent /\ service \in {"shorturl", "tls"} /\ [Next]_urlVars
         => UrlCoherent' /\ (service \in {"shorturl", "tls"})'
  <2> SUFFICES ASSUME UrlInv, UrlCoherent, service \in {"shorturl", "tls"}, [Next]_urlVars
               PROVE  UrlCoherent' /\ (service \in {"shorturl", "tls"})'
    OBVIOUS
  <2>1. service' = service
    BY DEF Next, urlVars, programVars
  <2>2. Coherent(TRUE)'
    BY NextCoherent DEF UrlInv, UrlCoherent
  <2>3. service = "shorturl" => Coherent(FALSE)'
    BY NextCoherent DEF UrlInv, UrlCoherent
  <2> QED  BY <2>1, <2>2, <2>3 DEF UrlCoherent
<1>3. UrlCoherent /\ service \in {"shorturl", "tls"} => StaleOnlyByAccident
  BY DEF UrlCoherent, Coherent, StaleOnlyByAccident, OnlyByAccident
<1> QED  BY <1>1, <1>2, <1>3, UrlInductive, PTL DEF Spec
=============================================================================
