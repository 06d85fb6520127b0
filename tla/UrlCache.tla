------------------------------ MODULE UrlCache ------------------------------
(***************************************************************************)
(* stream/factory/main.go: the stream factory of one node, which remembers *)
(* the media url the file server has handed out.  A url is the tick it was *)
(* issued at; one tick stands for minutes, so the few instructions between *)
(* an answer of the server and the assignment of cachedItem take none.     *)
(*                                                                         *)
(* cachedItem is a struct of two fields that is read and written without   *)
(* a lock: its fields are stored one after the other, in either order.     *)
(***************************************************************************)
EXTENDS Naturals

CONSTANTS
  TTL,        \* the fifteen minutes a url is reused for
  MaxTime,    \* bound: the last tick of a behaviour
  NoUrl       \* not a url: the empty string

ASSUME TimeAssumption == TTL \in Nat \ {0} /\ MaxTime \in Nat /\ NoUrl \notin Nat

VARIABLES
  now,             \* time.Now()
  cachedUrl,       \* factory.cachedItem.url
  expiration,      \* factory.cachedItem.expiration, 0 for the zero time
  factoryClosed    \* factory.closed

cacheVars == <<cachedUrl, expiration>>
factoryVars == <<cacheVars, factoryClosed>>

UrlInit ==
  /\ now = 0
  /\ cachedUrl = NoUrl
  /\ expiration = 0
  /\ factoryClosed = FALSE

\* Seeded fault: the comparison of the times is inverted.
CacheIsFresh_Before == cachedUrl # NoUrl /\ expiration <= now

\* expiration.After(time.Now())
CacheIsFresh == cachedUrl # NoUrl /\ expiration > now

StoreUrl(u) == cachedUrl' = u /\ UNCHANGED <<expiration, factoryClosed>>

StoreExpiration == expiration' = now + TTL /\ UNCHANGED <<cachedUrl, factoryClosed>>

FactoryClose == factoryClosed' = TRUE /\ UNCHANGED cacheVars

=============================================================================
