------------------------------ MODULE ShortUrl ------------------------------
(***************************************************************************)
(* The URL shortener: an API process and the transform RPC service over    *)
(* the table `shorturl'.  Row is the set of URLs; the key of a URL is the  *)
(* first six hex digits of its MD5 sum, so that two URLs may share a key.  *)
(*                                                                         *)
(* It is there twice: shorturl and rpc/tls/shorturl.  The former's model   *)
(* runs Insert with ExecCtx and the row's cache key: a stored row drops    *)
(* what is cached for it.  The latter's leaves the cache alone, looks a    *)
(* row up before it deletes it, and its programs need certificates.        *)
(***************************************************************************)
EXTENDS CachedTable

CONSTANT Md5Key   \* Md5Key[url]: hash.Md5Hex([]byte(url))[:6]

ASSUME Md5KeyAssumption == Md5Key \in [Row -> Key]

VARIABLES service,   \* "shorturl" or "tls"
          certs      \* of the latter: the PEM files that can be loaded
programVars == <<service, certs>>
urlVars     == <<vars, programVars>>

\* The table only holds what earlier runs of the service have put there.
ShortUrlInit ==
    /\ Init /\ \A k \in Key : db[k] # None => Md5Key[db[k]] = k
    /\ \/ service = "shorturl" /\ certs = {}
       \/ service = "tls" /\ certs \in SUBSET {"ca", "pair"}

-----------------------------------------------------------------------------
(* shorturl *)

\* GET /shorten -> ShortenLogic.Shorten -> Transformer.Shorten
Shorten(c) ==
    /\ service = "shorturl"
    /\ \E s \in Server, url \in Row : Send(c, s, Md5Key[url], url, "insert")

\* GET /expand -> ExpandLogic.Expand -> Transformer.Expand
Expand(c) ==
    /\ service = "shorturl"
    /\ \E s \in Server, shorten \in Key : Send(c, s, shorten, None, "find")

\* ShorturlModel.Update and Delete, which no route leads to: the package
\* exports them, for a program with a model of its own.
Change(c) ==
    /\ service = "shorturl" /\ c \in ModelCall
    /\ \E s \in Server, shorten \in Key, url \in Row :
          Send(c, s, shorten, url, "update") \/ Send(c, s, shorten, None, "delete")

\* ShortenLogic.Shorten of the RPC service: the statement, then DelCache.
Insert(c) == service = "shorturl" /\ InsertRow(c, "delcache")

\* ExpandLogic.Expand of the RPC service enters FindOne.
ExpandRpc(c) == service = "shorturl" /\ Join(c)
FindOne(s, shorten) == service = "shorturl" /\ FlightNext(s, shorten)

Update(c) == service = "shorturl" /\ UpdateRow(c, "delcache")
Delete(c) == service = "shorturl" /\ DeleteRow(c, "delcache")

-----------------------------------------------------------------------------
(* rpc/tls/shorturl *)

\* A program that cannot load its credentials ends with log.Fatal.  The API
\* trusts the CA's certificate, the RPC service has its own and its key.
TlsApiStarts == "ca" \in certs
TlsRpcStarts == "pair" \in certs
TlsServes == service = "tls" /\ TlsApiStarts /\ TlsRpcStarts

TlsShorten(c) ==
    TlsServes /\ \E s \in Server, url \in Row : Send(c, s, Md5Key[url], url, "insert")
TlsExpand(c) ==
    TlsServes /\ \E s \in Server, shorten \in Key : Send(c, s, shorten, None, "find")
\* The model's Update and Delete again; Delete begins with a FindOne.
TlsChange(c) ==
    /\ TlsServes /\ c \in ModelCall
    /\ \E s \in Server, shorten \in Key, step \in {"update", "lookup"} :
          Send(c, s, shorten, None, step)

TlsInsert(c) == service = "tls" /\ InsertRow(c, "replied")
TlsExpandRpc(c) == service = "tls" /\ Join(c)
TlsFindOne(s, shorten) == service = "tls" /\ FlightNext(s, shorten)
TlsUpdate(c) == service = "tls" /\ MisboundUpdate(c)
TlsDelete(c) == service = "tls" /\ DeleteRow(c, "delcache")

-----------------------------------------------------------------------------
ServerNext(c) ==
    \/ Insert(c) \/ ExpandRpc(c) \/ Update(c) \/ Delete(c) \/ DelCache(c)
    \/ TlsInsert(c) \/ TlsExpandRpc(c) \/ TlsUpdate(c) \/ TlsDelete(c)
FlightStep(s, shorten) == FindOne(s, shorten) \/ TlsFindOne(s, shorten)

Next ==
    /\ \/ \E c \in Call :
             \/ Shorten(c) \/ Expand(c) \/ Change(c)
             \/ TlsShorten(c) \/ TlsExpand(c) \/ TlsChange(c)
             \/ ServerNext(c) \/ Answer(c) \/ GiveUp(c) \/ NextCall(c)
       \/ \E s \in Server, shorten \in Key : FlightStep(s, shorten)
       \/ \E shorten \in Key : Expire(shorten)
       \/ \E s \in Server : Crash(s)
    /\ UNCHANGED programVars

Spec == ShortUrlInit /\ [][Next]_urlVars

-----------------------------------------------------------------------------
\* A key that Expand resolved leads to a URL with that very key: colliding
\* URLs, retries and shared flights never lead to somebody else's page under
\* a key that was handed out for another one, with a cache that Insert clears
\* and with one it does not.
ExpandsToItsUrl ==
    \A c, d \in Call : answer[c] \in Row /\ key[c] \in Unchanged =>
        /\ Md5Key[answer[c]] = key[c]
        /\ answer[d] = Ok /\ key[c] = key[d] => answer[c] = row[d]

\* The cache of either service is stale only by accident: a change that ran to
\* its end, with no flight on the way, leaves nothing old behind, whatever was
\* cached, expired or retried before.  rpc/tls/shorturl's Insert leaves a
\* placeholder where it is.
StaleOnlyByAccident == OnlyByAccident(service = "tls")
=============================================================================
