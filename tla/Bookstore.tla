----------------------------- MODULE Bookstore -----------------------------
(***************************************************************************)
(* The bookstore: an API process, the add and check RPC services and the   *)
(* table `book'.  Key is the set of books and Row the set of prices.       *)
(*                                                                         *)
(* BookModel.Insert runs its statement with ExecNoCache: unlike shorturl's *)
(* it leaves the cache alone, so that a placeholder cached by an earlier   *)
(* check stays until it expires.                                           *)
(***************************************************************************)
EXTENDS CachedTable

CONSTANTS Adder,    \* processes of the add service
          Checker   \* processes of the check service

ASSUME ServiceAssumption == Adder \cup Checker = Server

\* POST /add -> AddLogic.Add -> Adder.Add
Add(c) ==
    \E s \in Adder, book \in Key, price \in Row : Send(c, s, book, price, "insert")

\* GET /check -> CheckLogic.Check -> Checker.Check
Check(c) ==
    \E s \in Checker, book \in Key : Send(c, s, book, None, "find")

\* BookModel.Update and Delete, which the package exports and no route reaches.
BookChange(c) ==
    /\ c \in ModelCall
    /\ \E s \in Adder, book \in Key, step \in {"update", "delete"} :
          Send(c, s, book, None, step)    \* an update's price goes nowhere
BookUpdate(c) == MisboundUpdate(c)
BookDelete(c) == DeleteRow(c, "delcache")

\* AddLogic.Add of the RPC service: the reply follows the statement.
BookInsert(c) == InsertRow(c, "replied")

\* CheckLogic.Check of the RPC service enters FindOne.
CheckRpc(c) == Join(c)

\* BookModel.FindOne, under the barrier of the check service's process.
BookFindOne(s, book) == FlightNext(s, book)

BookServer(c) == BookInsert(c) \/ CheckRpc(c) \/ BookUpdate(c) \/ BookDelete(c) \/ DelCache(c)

BookNext ==
    \/ \E c \in Call :
          Add(c) \/ Check(c) \/ BookChange(c) \/ BookServer(c) \/ Answer(c) \/ GiveUp(c)
          \/ NextCall(c)
    \/ \E s \in Checker, book \in Key : BookFindOne(s, book)
    \/ \E book \in Key : Expire(book)
    \/ \E s \in Server : Crash(s)

BookSpec == Init /\ [][BookNext]_vars

(***************************************************************************)
(* Fairness: a server runs what it has accepted (the statements and the    *)
(* cache commands have their own timeouts, and fail at the latest then),   *)
(* and a cache entry has a time to live.  HTTP clients, the network and    *)
(* crashes owe nothing.                                                    *)
(***************************************************************************)
BookFairness ==
    /\ \A c \in Call : WF_vars(BookServer(c))
    /\ \A s \in Checker, book \in Key : WF_vars(BookFindOne(s, book))
    /\ \A book \in Key : WF_vars(Expire(book))

FairBookSpec == BookSpec /\ BookFairness
=============================================================================
