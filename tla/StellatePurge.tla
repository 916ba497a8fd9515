---------------------------- MODULE StellatePurge ---------------------------
(***************************************************************************)
(* stellate-plugin: purging a cache of the shop's answers.                 *)
(*                                                                         *)
(* An event of the catalog is buffered by its purge rule; when no further  *)
(* one has come for the buffer time, the rule turns the buffered events    *)
(* into purge requests (stellate-plugin.ts, default-purge-rules.ts), which *)
(* are sent at once and not repeated (StellateService.purge).  Meanwhile   *)
(* the cache asks the shop for pages it does not have.                     *)
(*                                                                         *)
(* Pages are those of each product, of a collection, and a listing: the    *)
(* answer of a search in that collection, which comes from a search index. *)
(* The index follows the catalog at its own pace.                          *)
(*                                                                         *)
(* Abstractions: a copy (in the cache or on the way there) is described by *)
(* what changed since it was read, not by its contents; a page of a        *)
(* product shows its variants, the listing shows all products (that a      *)
(* product comes into it is a change to the members); devMode, which sends *)
(* nothing, is off, and debugLogging may be on or off at any time.  The    *)
(* cache is external; its key fields are those the plugin's README         *)
(* configures.                                                             *)
(***************************************************************************)
EXTENDS Naturals, FiniteSets

CONSTANTS
    Products,
    KeyLimit,          \* keys that debugLogging leaves in a request
    MaxCopies,         \* bound on copies in the cache and on their way
    MaxChanges,        \* bound on changes to the catalog
    MaxCacheFaults     \* bound on failed purges and crashes

ASSUME CacheAssumption ==
    /\ Products \cap {"tax", "collection", "members", "listing", "none"} = {}
    /\ KeyLimit \in Nat \ {0}
    /\ {MaxCopies, MaxChanges, MaxCacheFaults} \subseteq Nat

VARIABLES
    cache,          \* the copies in the cache
    fetch,          \* the copies on their way there
    lag,            \* what changed since the index last read it
    buffer,         \* the events each rule has buffered
    purges,         \* purge requests on their way
    changes,        \* changes so far
    cacheFaults     \* failed purges and crashes so far

cacheVars == <<cache, fetch, lag, buffer, purges, changes, cacheFaults>>

-----------------------------------------------------------------------------
(* What changes: a product or its variants, the tax rates, the collection, *)
(* and which variants are in it.                                           *)
Source == Products \cup {"tax", "collection", "members"}

(* Of these the documents of the search index depend on: *)
Indexed == Source \ {"collection"}

Page == Products \cup {"collection", "listing"}

DependsOn(page) ==
    CASE page = "collection" -> {"collection", "members"}
      [] page = "listing" -> Source
      [] OTHER -> {page, "tax"}

(* The objects in a page, each with the key field the cache knows it by.   *)
(* The resolver of cacheIdentifier puts the last one into a search.        *)
Entities(page) ==
    CASE page = "collection" -> {<<"Collection", "id", "collection">>}
      [] page = "listing" ->
             {<<"SearchResponse", "none", "none">>,
              <<"SearchResponseCacheIdentifier", "collectionSlug", "collection">>}
             \cup {<<"SearchResult", "productId", p>> : p \in Products}
      [] OTHER -> {<<"Product", "id", page>>, <<"ProductVariant", "id", page>>}

(* A copy: what changed since it was read, and of that what no purge can   *)
(* be held to put right (see Excuse).                                      *)
None == [there |-> FALSE, stale |-> {}, excused |-> {}]

Copy == [there : BOOLEAN, stale : SUBSET Source, excused : SUBSET Source]

-----------------------------------------------------------------------------
(* Rules *)

Rules == {"product", "variant", "tax", "collection", "members"}

(* A request to purge objects of a type: all, or those with certain keys.  *)
ByKey(type, keys, keyName) ==
    [type |-> type, keyName |-> keyName, keys |-> keys]

AllOfType(type) == [type |-> type, keyName |-> "none", keys |-> {}]

Purge == {AllOfType(t) : t \in {"ProductVariant", "Product", "SearchResponse"}}
         \cup {ByKey(t, ks, n) : t \in {"Product", "ProductVariant", "SearchResult"},
                                 ks \in SUBSET Products, n \in {"id", "productId"}}
         \cup {ByKey("Collection", {"collection"}, "id"),
               ByKey("SearchResponseCacheIdentifier", {"collection"}, "id")}

(* Mutant: changes to variants purge no search results. *)
HandleVariantsOnly(rule, events) ==
    CASE rule = "product" -> {ByKey("Product", events, "id"),
                              ByKey("SearchResult", events, "productId")}
      [] rule = "variant" -> {ByKey("ProductVariant", events, "id")}
      [] rule = "tax" -> {AllOfType("ProductVariant"), AllOfType("Product"),
                          AllOfType("SearchResponse")}
      [] rule = "collection" -> {ByKey("Collection", events, "id")}
      [] rule = "members" -> {ByKey("Collection", events, "id"),
                              ByKey("SearchResponseCacheIdentifier", events, "id")}

(* The purges of each default rule.  "product" are the two rules of        *)
(* product events, "variant" the three of variants and their stock.        *)
Handle(rule, events) ==
    CASE rule = "product" -> {ByKey("Product", events, "id"),
                              ByKey("SearchResult", events, "productId")}
      [] rule = "variant" -> {ByKey("ProductVariant", events, "id"),
                              ByKey("SearchResult", events, "productId")}
      [] rule = "tax" -> {AllOfType("ProductVariant"), AllOfType("Product"),
                          AllOfType("SearchResponse")}
      [] rule = "collection" -> {ByKey("Collection", events, "id")}
      [] rule = "members" -> {ByKey("Collection", events, "id"),
                              ByKey("SearchResponseCacheIdentifier", events, "id")}

(* What the cache throws out for a purge. *)
Evicts(q, page) ==
    \E e \in Entities(page) :
        /\ e[1] = q.type
        /\ q.keys # {} => e[2] = q.keyName /\ e[3] \in q.keys

(* The keys that are sent for some events: all, or with debugLogging,      *)
(* which cuts the payload together with the log, KeyLimit of them.         *)
SentKeys(events) ==
    {events} \cup {keys \in SUBSET events : Cardinality(keys) = KeyLimit}

(* What changed, given the key of an event and the rule for it. *)
SourceOf(rule, key) == IF rule = "members" THEN "members" ELSE key

(* What a purge is for. *)
SourcesOf(q) ==
    IF q.keys = {} THEN {"tax"}
    ELSE IF q.keys = {"collection"} THEN {"collection", "members"}
    ELSE q.keys

(* A purge of the page, for a change of source, is buffered or on its way. *)
PurgeOwed(page, source) ==
    \/ \E rule \in Rules :
           /\ \E key \in buffer[rule] : SourceOf(rule, key) = source
           /\ \E q \in Handle(rule, buffer[rule]) : Evicts(q, page)
    \/ \E q \in purges : source \in SourcesOf(q) /\ Evicts(q, page)

CacheTypeOK ==
    /\ {cache, fetch} \subseteq [Page -> Copy]
    /\ \A page \in Page : \A c \in {cache[page], fetch[page]} :
           /\ c.excused \subseteq c.stale /\ c.stale \subseteq DependsOn(page)
           /\ ~c.there => c = None
    /\ lag \subseteq Indexed
    /\ buffer \in [Rules -> SUBSET (Products \cup {"tax", "collection"})]
    /\ purges \subseteq Purge
    /\ changes \in 0..MaxChanges /\ cacheFaults \in 0..MaxCacheFaults

-----------------------------------------------------------------------------
(* Copies *)

(* Mutant: a change spoils every page. *)
SpoilAny(c, page, source) ==
    IF c.there
    THEN [c EXCEPT !.stale = @ \cup {source}, !.excused = @ \ {source}]
    ELSE c

(* A copy of the page, after the source has changed. *)
Spoil(c, page, source) ==
    IF c.there /\ source \in DependsOn(page)
    THEN [c EXCEPT !.stale = @ \cup {source}, !.excused = @ \ {source}]
    ELSE c

(* For what has changed in these sources no purge is to be expected. *)
Excuse(c, sources) == [c EXCEPT !.excused = @ \cup (c.stale \cap sources)]

(* The cache asks the shop for a page; the shop reads the catalog, or for  *)
(* a search the index, which may lag.                                      *)
FetchPage(page) ==
    /\ ~cache[page].there /\ ~fetch[page].there
    /\ Cardinality({g \in Page : cache[g].there \/ fetch[g].there}) < MaxCopies
    /\ LET old == IF page = "listing" THEN lag ELSE {}
       IN  fetch' = [fetch EXCEPT ![page] =
                         [there |-> TRUE, stale |-> old, excused |-> old]]
    /\ UNCHANGED <<cache, lag, buffer, purges, changes, cacheFaults>>

(* The answer reaches the cache. *)
FillCache(page) ==
    /\ fetch[page].there
    /\ cache' = [cache EXCEPT ![page] = fetch[page]]
    /\ fetch' = [fetch EXCEPT ![page] = None]
    /\ UNCHANGED <<lag, buffer, purges, changes, cacheFaults>>

(* maxAge has passed. *)
ExpireCopy(page) ==
    /\ cache[page].there
    /\ cache' = [cache EXCEPT ![page] = None]
    /\ UNCHANGED <<fetch, lag, buffer, purges, changes, cacheFaults>>

(* A job of the index has read the source again. *)
IndexCatchesUp(source) ==
    /\ lag' = lag \ {source}
    /\ UNCHANGED <<cache, fetch, buffer, purges, changes, cacheFaults>>

-----------------------------------------------------------------------------
(* Events and purges *)

(* The catalog changes, and the event is buffered by its rule.             *)
ChangeCatalog(rule, key) ==
    LET source == SourceOf(rule, key)
    IN  /\ changes < MaxChanges
        /\ changes' = changes + 1
        /\ cache' = [page \in Page |-> Spoil(cache[page], page, source)]
        /\ fetch' = [page \in Page |-> Spoil(fetch[page], page, source)]
        /\ lag' = lag \cup ({source} \cap Indexed)
        /\ buffer' = [buffer EXCEPT ![rule] = @ \cup {key}]
        /\ UNCHANGED <<purges, cacheFaults>>

(* The keys of the events of a rule. *)
KeysOf(rule) ==
    CASE rule \in {"product", "variant"} -> Products
      [] rule = "tax" -> {"tax"}
      [] OTHER -> {"collection"}

(* No event has come for the buffer time: the events are handled, and the  *)
(* purges sent.                                                            *)
CloseBuffer(rule) ==
    /\ buffer[rule] # {}
    /\ \E keys \in SentKeys(buffer[rule]) :
           /\ purges' = purges \cup Handle(rule, keys)
           /\ cache' = [page \in Page |-> Excuse(cache[page], buffer[rule] \ keys)]
           /\ fetch' = [page \in Page |-> Excuse(fetch[page], buffer[rule] \ keys)]
    /\ buffer' = [buffer EXCEPT ![rule] = {}]
    /\ UNCHANGED <<lag, changes, cacheFaults>>

(* A purge takes effect.  An answer on its way is not in the cache yet, so *)
(* the purge misses it.                                                    *)
TakePurge(q) ==
    /\ q \in purges
    /\ purges' = purges \ {q}
    /\ cache' = [page \in Page |-> IF Evicts(q, page) THEN None ELSE cache[page]]
    /\ fetch' = [page \in Page |->
                     IF Evicts(q, page) THEN Excuse(fetch[page], SourcesOf(q))
                     ELSE fetch[page]]
    /\ UNCHANGED <<lag, buffer, changes, cacheFaults>>

(* A purge fails or times out: it is logged and not repeated. *)
LosePurge(q) ==
    /\ q \in purges /\ cacheFaults < MaxCacheFaults
    /\ purges' = purges \ {q}
    /\ cache' = [page \in Page |->
                     IF Evicts(q, page) THEN Excuse(cache[page], SourcesOf(q))
                     ELSE cache[page]]
    /\ fetch' = [page \in Page |->
                     IF Evicts(q, page) THEN Excuse(fetch[page], SourcesOf(q))
                     ELSE fetch[page]]
    /\ cacheFaults' = cacheFaults + 1
    /\ UNCHANGED <<lag, buffer, changes>>

(* The server stops: buffered events, purges and answers on their way are  *)
(* gone.                                                                   *)
StopServer ==
    /\ cacheFaults < MaxCacheFaults
    /\ buffer' = [rule \in Rules |-> {}]
    /\ purges' = {}
    /\ cache' = [page \in Page |-> Excuse(cache[page], Source)]
    /\ fetch' = [page \in Page |-> None]
    /\ cacheFaults' = cacheFaults + 1
    /\ UNCHANGED <<lag, changes>>

-----------------------------------------------------------------------------
CacheInit ==
    /\ cache = [page \in Page |-> None] /\ fetch = [page \in Page |-> None]
    /\ lag = {}
    /\ buffer = [rule \in Rules |-> {}]
    /\ purges = {}
    /\ changes = 0 /\ cacheFaults = 0

CacheNext ==
    \/ \E page \in Page : FetchPage(page) \/ FillCache(page) \/ ExpireCopy(page)
    \/ \E rule \in Rules : \E key \in KeysOf(rule) : ChangeCatalog(rule, key)
    \/ \E rule \in Rules : CloseBuffer(rule)
    \/ \E q \in purges : TakePurge(q) \/ LosePurge(q)
    \/ \E source \in Indexed : IndexCatchesUp(source)
    \/ StopServer

CacheSpec == CacheInit /\ [][CacheNext]_cacheVars

-----------------------------------------------------------------------------
(* Properties *)

(* What a page in the cache shows and the shop no longer does is about to  *)
(* be purged: every change is covered by the rules, through buffers,       *)
(* requests and answers that cross them.  Excused are copies whose purge   *)
(* failed, was cut by debugLogging or passed them on their way, listings   *)
(* read while the index lagged, and a listing after a change to its        *)
(* collection or the members of it (ListingIsPurged).                      *)
StaleIsOwed ==
    \A page \in Page : \A source \in cache[page].stale \ cache[page].excused :
        \/ PurgeOwed(page, source)
        \/ page = "listing" /\ source \in {"collection", "members"}

=============================================================================
