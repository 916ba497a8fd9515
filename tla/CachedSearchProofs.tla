-------------------------- MODULE CachedSearchProofs ------------------------
(***************************************************************************)
(* Theorems about CachedSearch and the queue and the cache it is made of,  *)
(* for every set of jobs, processes and products: the index never forgets  *)
(* a change, the queue delivers at least once, a stopped process is handed *)
(* nothing, and no stale copy escapes the purge rules, however buffers,    *)
(* requests and answers on their way cross.                                *)
(***************************************************************************)
EXTENDS CachedSearch, FiniteSetTheorems, TLAPS

-----------------------------------------------------------------------------
(* The cache, with every step of StellatePurge. *)

(* What holds of each copy of a page. *)
CopyOK(page, c) ==
    /\ c \in Copy
    /\ c.excused \subseteq c.stale /\ c.stale \subseteq DependsOn(page)
    /\ ~c.there => c = None

(* A rule is given the events it is for, and nothing else. *)
BuffersAreSorted == \A rule \in Rules : buffer[rule] \subseteq KeysOf(rule)

(* Some step from here on is to purge the page for a change of source:     *)
(* unlike PurgeOwed this does not ask which requests the buffered event    *)
(* will be turned into.                                                    *)
Pending(page, source) ==
    \/ \E rule \in Rules : \E key \in buffer[rule] : SourceOf(rule, key) = source
    \/ \E q \in purges : source \in SourcesOf(q) /\ Evicts(q, page)

(* The one gap of the default rules: ListingIsPurged. *)
NeverPurged(page, source) == page = "listing" /\ source \in {"collection", "members"}

CopyIsPending(page, c) ==
    \A source \in c.stale \ c.excused :
        Pending(page, source) \/ NeverPurged(page, source)

(* The inductive invariant.  An answer on its way may end up in the cache, *)
(* so that what is said of the copies there must be true of it as well.    *)
CacheInv ==
    /\ CacheTypeOK
    /\ BuffersAreSorted
    /\ \A page \in Page : CopyIsPending(page, cache[page])
                          /\ CopyIsPending(page, fetch[page])

-----------------------------------------------------------------------------
(* The rules *)

(* Every event a rule is given is among the purges the rule makes of it,   *)
(* for each page that depends on what the event is about; whatever other   *)
(* events come with it.                                                    *)
LEMMA RulesCover ==
    ASSUME NEW rule \in Rules, NEW events \in SUBSET KeysOf(rule),
           NEW key \in events, NEW page \in Page,
           SourceOf(rule, key) \in DependsOn(page),
           ~NeverPurged(page, SourceOf(rule, key))
    PROVE  \E q \in Handle(rule, events) :
               SourceOf(rule, key) \in SourcesOf(q) /\ Evicts(q, page)
<1>1. Products \cap {"tax", "collection", "members", "listing", "none"} = {}
  BY CacheAssumption
<1>2. CASE rule \in {"product", "variant"}
  <2> DEFINE type == IF rule = "product" THEN "Product" ELSE "ProductVariant"
             ofPage == ByKey(type, events, "id")
             ofListing == ByKey("SearchResult", events, "productId")
  <2>1. key \in Products /\ events \subseteq Products /\ SourceOf(rule, key) = key
    BY <1>2 DEF KeysOf, SourceOf
  <2>2. {ofPage, ofListing} \subseteq Handle(rule, events)
    BY <1>2 DEF Handle
  <2>3. events # {} /\ events # {"collection"}
    BY <1>1, <2>1
  <2>4. key \in SourcesOf(ofPage) /\ key \in SourcesOf(ofListing)
    BY <2>3 DEF SourcesOf, ByKey
  <2>5. page = key \/ page = "listing"
    BY <1>1, <2>1 DEF DependsOn, Page
  <2>6. page = key => Evicts(ofPage, page)
    <3> SUFFICES ASSUME page = key PROVE Evicts(ofPage, page)
      OBVIOUS
    <3>1. <<type, "id", page>> \in Entities(page)
      BY <1>1, <2>1 DEF Entities
    <3> QED
      BY <3>1 DEF Evicts, ByKey
  <2>7. page = "listing" => Evicts(ofListing, page)
    <3> SUFFICES ASSUME page = "listing" PROVE Evicts(ofListing, page)
      OBVIOUS
    <3>1. <<"SearchResult", "productId", key>> \in Entities(page)
      BY <2>1 DEF Entities
    <3> QED
      BY <3>1 DEF Evicts, ByKey
  <2> HIDE DEF ofPage, ofListing
  <2> QED
    BY <2>1, <2>2, <2>4, <2>5, <2>6, <2>7
<1>3. CASE rule = "tax"
  <2>1. key = "tax" /\ SourceOf(rule, key) = "tax"
    BY <1>3 DEF KeysOf, SourceOf
  <2>2. {AllOfType("Product"), AllOfType("SearchResponse")} \subseteq Handle(rule, events)
    BY <1>3 DEF Handle
  <2>3. \A type : SourcesOf(AllOfType(type)) = {"tax"}
    BY DEF SourcesOf, AllOfType
  <2>4. page \in Products \/ page = "listing"
    BY <2>1 DEF DependsOn, Page
  <2>5. page \in Products => Evicts(AllOfType("Product"), page)
    <3> SUFFICES ASSUME page \in Products PROVE Evicts(AllOfType("Product"), page)
      OBVIOUS
    <3>1. <<"Product", "id", page>> \in Entities(page)
      BY <1>1 DEF Entities
    <3> QED
      BY <3>1 DEF Evicts, AllOfType
  <2>6. page = "listing" => Evicts(AllOfType("SearchResponse"), page)
    <3> SUFFICES ASSUME page = "listing" PROVE Evicts(AllOfType("SearchResponse"), page)
      OBVIOUS
    <3>1. <<"SearchResponse", "none", "none">> \in Entities(page)
      BY DEF Entities
    <3> QED
      BY <3>1 DEF Evicts, AllOfType
  <2> QED
    BY <2>1, <2>2, <2>3, <2>4, <2>5, <2>6
<1>4. CASE rule \in {"collection", "members"}
  <2>1. key = "collection" /\ events = {"collection"}
    BY <1>4 DEF KeysOf
  <2>2. SourceOf(rule, key) \in {"collection", "members"}
    BY <1>4, <2>1 DEF SourceOf
  <2> DEFINE q == ByKey("Collection", events, "id")
  <2>3. q \in Handle(rule, events)
    BY <1>4 DEF Handle
  <2>4. SourcesOf(q) = {"collection", "members"}
    BY <2>1 DEF SourcesOf, ByKey
  <2>5. page = "collection"
    BY <1>1, <2>2 DEF DependsOn, Page, NeverPurged, Indexed, Source
  <2>6. Evicts(q, page)
    <3>1. <<"Collection", "id", "collection">> \in Entities(page)
      BY <2>5 DEF Entities
    <3> QED
      BY <2>1, <3>1 DEF Evicts, ByKey
  <2> QED
    BY <2>2, <2>3, <2>4, <2>6
<1> QED
  BY <1>2, <1>3, <1>4 DEF Rules

(* The requests a rule makes of its events are of the kinds in Purge.      *)
LEMMA RulesTyped ==
    ASSUME NEW rule \in Rules, NEW events \in SUBSET KeysOf(rule), events # {}
    PROVE  Handle(rule, events) \subseteq Purge
<1>1. CASE rule \in {"product", "variant"}
  BY <1>1 DEF KeysOf, Handle, Purge
<1>2. CASE rule = "tax"
  BY <1>2 DEF Handle, Purge
<1>3. CASE rule \in {"collection", "members"}
  <2>1. events = {"collection"}
    BY <1>3 DEF KeysOf
  <2> QED
    BY <1>3, <2>1 DEF Handle, Purge
<1> QED
  BY <1>1, <1>2, <1>3 DEF Rules

(* The keys that are sent are some of the buffered ones, and never none.   *)
LEMMA SomeKeysAreSent ==
    ASSUME NEW events, events # {}, NEW keys \in SentKeys(events)
    PROVE  keys \subseteq events /\ keys # {}
<1>1. Cardinality({}) # KeyLimit
  BY FS_EmptySet, CacheAssumption
<1> QED
  BY <1>1 DEF SentKeys

-----------------------------------------------------------------------------
(* Copies *)

(* No copy is a well-formed copy. *)
LEMMA NothingIsOK == ASSUME NEW page PROVE CopyOK(page, None)
BY DEF CopyOK, Copy, None

(* A change marks the copies that show it. *)
LEMMA SpoilOK ==
    ASSUME NEW page \in Page, NEW c, CopyOK(page, c), NEW source \in Source
    PROVE  /\ CopyOK(page, Spoil(c, page, source))
           /\ Spoil(c, page, source).stale \ Spoil(c, page, source).excused
                  \subseteq (c.stale \ c.excused) \cup ({source} \cap DependsOn(page))
BY DEF CopyOK, Copy, Spoil, None

(* Excusing sources leaves the other stale ones as they were. *)
LEMMA ExcuseOK ==
    ASSUME NEW page \in Page, NEW c, CopyOK(page, c), NEW sources
    PROVE  /\ CopyOK(page, Excuse(c, sources))
           /\ Excuse(c, sources).stale \ Excuse(c, sources).excused
                  = (c.stale \ c.excused) \ sources
<1> DEFINE e == Excuse(c, sources)
<1>1. c = [there |-> c.there, stale |-> c.stale, excused |-> c.excused]
  BY DEF CopyOK, Copy
<1>2. e = [there |-> c.there, stale |-> c.stale,
           excused |-> c.excused \cup (c.stale \cap sources)]
  <2>1. \A there, stale, excused :
            Excuse([there |-> there, stale |-> stale, excused |-> excused], sources)
                = [there |-> there, stale |-> stale,
                   excused |-> excused \cup (stale \cap sources)]
    BY DEF Excuse
  <2> QED
    BY <1>1, <2>1, Zenon
<1>3. ~e.there => e = None
  <2> SUFFICES ASSUME ~c.there PROVE e = None
    BY <1>2
  <2>1. c.stale = {} /\ c.excused = {} /\ c.there = FALSE
    BY DEF CopyOK, None
  <2>2. c.excused \cup (c.stale \cap sources) = {}
    BY <2>1
  <2> QED
    BY <1>2, <2>1, <2>2 DEF None
<1>4. e.there = c.there /\ e.stale = c.stale
      /\ e.excused = c.excused \cup (c.stale \cap sources)
  BY <1>2
<1> HIDE DEF e
<1>5. e.excused \subseteq e.stale
  BY <1>4 DEF CopyOK
<1>6. e \in Copy
  BY <1>2, <1>4, <1>5 DEF CopyOK, Copy
<1>7. CopyOK(page, e)
  BY <1>3, <1>4, <1>5, <1>6 DEF CopyOK
<1>8. e.stale \ e.excused = (c.stale \ c.excused) \ sources
  BY <1>4
<1> QED
  BY <1>7, <1>8 DEF e

-----------------------------------------------------------------------------
(* The type of the cache, as a statement about each copy. *)
LEMMA CopiesTyped ==
    CacheTypeOK <=>
        /\ {cache, fetch} \subseteq [Page -> Copy]
        /\ \A page \in Page : CopyOK(page, cache[page]) /\ CopyOK(page, fetch[page])
        /\ lag \subseteq Indexed
        /\ buffer \in [Rules -> SUBSET (Products \cup {"tax", "collection"})]
        /\ purges \subseteq Purge
        /\ changes \in 0..MaxChanges /\ cacheFaults \in 0..MaxCacheFaults
BY DEF CacheTypeOK, CopyOK

(* A rule collects events of products, tax rates or collections. *)
LEMMA KeysAreEvents ==
    ASSUME NEW rule \in Rules
    PROVE  KeysOf(rule) \subseteq Products \cup {"tax", "collection"}
BY DEF KeysOf, Rules

(* Each event changes one of the sources of copies. *)
LEMMA SourcesAreSources ==
    ASSUME NEW rule \in Rules, NEW key \in KeysOf(rule)
    PROVE  SourceOf(rule, key) \in Source
BY DEF KeysOf, Rules, SourceOf, Source

(* The invariant holds at the start. *)
LEMMA CacheInvInit == CacheInit => CacheInv
<1> SUFFICES ASSUME CacheInit PROVE CacheInv
  OBVIOUS
<1>1. \A page \in Page : cache[page] = None /\ fetch[page] = None
  BY DEF CacheInit
<1>2. \A page \in Page : CopyOK(page, None)
  BY NothingIsOK
<1>3. {cache, fetch} \subseteq [Page -> Copy]
  BY DEF CacheInit, Copy, None
<1>4. CacheTypeOK
  <2>1. lag = {} /\ buffer = [rule \in Rules |-> {}] /\ purges = {}
        /\ changes = 0 /\ cacheFaults = 0
    BY DEF CacheInit
  <2>2. changes \in 0..MaxChanges /\ cacheFaults \in 0..MaxCacheFaults
    BY <2>1, CacheAssumption
  <2> QED
    BY <1>1, <1>2, <1>3, <2>1, <2>2, CopiesTyped
<1>5. BuffersAreSorted
  BY DEF CacheInit, BuffersAreSorted
<1>6. \A page \in Page : CopyIsPending(page, None)
  BY DEF CopyIsPending, None
<1> QED
  BY <1>1, <1>4, <1>5, <1>6 DEF CacheInv

(* What a step has to leave in order. *)
LEMMA StaysTyped ==
    ASSUME cache' = [page \in Page |-> cache'[page]],
           fetch' = [page \in Page |-> fetch'[page]],
           \A page \in Page : CopyOK(page, cache'[page]) /\ CopyOK(page, fetch'[page]),
           lag' \subseteq Indexed,
           buffer' \in [Rules -> SUBSET (Products \cup {"tax", "collection"})],
           purges' \subseteq Purge,
           changes' \in 0..MaxChanges, cacheFaults' \in 0..MaxCacheFaults
    PROVE  CacheTypeOK'
<1>1. \A page \in Page : cache'[page] \in Copy /\ fetch'[page] \in Copy
  BY DEF CopyOK
<1> DEFINE f == cache'  g == fetch'
<1>2. {f, g} \subseteq [Page -> Copy]
  <2> HIDE DEF f, g
  <2>1. f = [page \in Page |-> f[page]] /\ g = [page \in Page |-> g[page]]
        /\ \A page \in Page : f[page] \in Copy /\ g[page] \in Copy
    BY <1>1 DEF f, g
  <2> QED
    BY <2>1
<1> QED
  BY <1>2 DEF CacheTypeOK, CopyOK

(* While buffers and requests only grow, what is pending stays so. *)
LEMMA StaysPending ==
    ASSUME \A rule \in Rules : buffer[rule] \subseteq buffer'[rule], purges \subseteq purges',
           NEW page, NEW source, Pending(page, source)
    PROVE  Pending(page, source)'
BY DEF Pending

-----------------------------------------------------------------------------
(* The invariant is kept by each action. *)

(* What is read now is stale only by the lag of the index, which is excused. *)
LEMMA FetchPageStep ==
    ASSUME CacheInv, NEW page \in Page, FetchPage(page)
    PROVE  CacheInv'
<1> DEFINE old == IF page = "listing" THEN lag ELSE {}
           c == [there |-> TRUE, stale |-> old, excused |-> old]
<1>1. /\ fetch' = [fetch EXCEPT ![page] = c]
      /\ UNCHANGED <<cache, lag, buffer, purges, changes, cacheFaults>>
  BY DEF FetchPage
<1>2. CopyOK(page, c)
  <2>1. old \subseteq DependsOn(page)
    BY DEF CacheInv, CacheTypeOK, DependsOn, Indexed
  <2>2. old \subseteq Source
    BY DEF CacheInv, CacheTypeOK, Indexed
  <2> HIDE DEF old
  <2> QED
    BY <2>1, <2>2 DEF CopyOK, Copy
<1>3. CacheTypeOK'
  <2>1. \A g \in Page : CopyOK(g, cache'[g]) /\ CopyOK(g, fetch'[g])
    <3> HIDE DEF c
    <3> QED
      BY <1>1, <1>2, CopiesTyped DEF CacheInv
  <2>2. cache' = [g \in Page |-> cache'[g]] /\ fetch' = [g \in Page |-> fetch'[g]]
    <3> HIDE DEF c
    <3> QED
      BY <1>1 DEF CacheInv, CacheTypeOK
  <2> QED
    BY <1>1, <2>1, <2>2, StaysTyped DEF CacheInv, CacheTypeOK
<1>4. BuffersAreSorted'
  BY <1>1 DEF CacheInv, BuffersAreSorted
<1>5. \A g \in Page : (CopyIsPending(g, cache[g]) /\ CopyIsPending(g, fetch[g]))'
  <2> TAKE g \in Page
  <2>1. \A source : Pending(g, source) => Pending(g, source)'
    BY <1>1 DEF Pending
  <2>2. CASE g = page
    <3>1. fetch'[g].stale \ fetch'[g].excused = {}
      BY <1>1, <2>2 DEF CacheInv, CacheTypeOK
    <3> QED
      BY <1>1, <2>1, <3>1 DEF CacheInv, CopyIsPending
  <2>3. CASE g # page
    BY <1>1, <2>1, <2>3 DEF CacheInv, CacheTypeOK, CopyIsPending
  <2> QED
    BY <2>2, <2>3
<1> QED
  BY <1>3, <1>4, <1>5 DEF CacheInv

(* The copy that arrives was on its way before. *)
LEMMA FillCacheStep ==
    ASSUME CacheInv, NEW page \in Page, FillCache(page)
    PROVE  CacheInv'
<1>1. /\ cache' = [cache EXCEPT ![page] = fetch[page]]
      /\ fetch' = [fetch EXCEPT ![page] = None]
      /\ UNCHANGED <<lag, buffer, purges, changes, cacheFaults>>
  BY DEF FillCache
<1>2. \A g \in Page : /\ cache'[g] \in {cache[g], fetch[g]}
                      /\ fetch'[g] \in {fetch[g], None}
  BY <1>1 DEF CacheInv, CacheTypeOK
<1>3. CacheTypeOK'
  <2>1. \A g \in Page : CopyOK(g, cache'[g]) /\ CopyOK(g, fetch'[g])
    BY <1>2, CopiesTyped, NothingIsOK DEF CacheInv
  <2>2. cache' = [g \in Page |-> cache'[g]] /\ fetch' = [g \in Page |-> fetch'[g]]
    BY <1>1 DEF CacheInv, CacheTypeOK
  <2> QED
    BY <1>1, <2>1, <2>2, StaysTyped DEF CacheInv, CacheTypeOK
<1>4. BuffersAreSorted'
  BY <1>1 DEF CacheInv, BuffersAreSorted
<1>5. \A g \in Page : (CopyIsPending(g, cache[g]) /\ CopyIsPending(g, fetch[g]))'
  <2> TAKE g \in Page
  <2>1. \A source : Pending(g, source) => Pending(g, source)'
    BY <1>1 DEF Pending
  <2>2. None.stale = {}
    BY DEF None
  <2> QED
    BY <1>2, <2>1, <2>2 DEF CacheInv, CopyIsPending
<1> QED
  BY <1>3, <1>4, <1>5 DEF CacheInv

(* A copy that ends is stale no more. *)
LEMMA ExpireCopyStep ==
    ASSUME CacheInv, NEW page \in Page, ExpireCopy(page)
    PROVE  CacheInv'
<1>1. /\ cache' = [cache EXCEPT ![page] = None]
      /\ UNCHANGED <<fetch, lag, buffer, purges, changes, cacheFaults>>
  BY DEF ExpireCopy
<1>2. \A g \in Page : cache'[g] \in {cache[g], None}
  BY <1>1 DEF CacheInv, CacheTypeOK
<1>3. CacheTypeOK'
  <2>1. \A g \in Page : CopyOK(g, cache'[g]) /\ CopyOK(g, fetch'[g])
    BY <1>1, <1>2, CopiesTyped, NothingIsOK DEF CacheInv
  <2>2. cache' = [g \in Page |-> cache'[g]] /\ fetch' = [g \in Page |-> fetch'[g]]
    BY <1>1 DEF CacheInv, CacheTypeOK
  <2> QED
    BY <1>1, <2>1, <2>2, StaysTyped DEF CacheInv, CacheTypeOK
<1>4. BuffersAreSorted'
  BY <1>1 DEF CacheInv, BuffersAreSorted
<1>5. \A g \in Page : (CopyIsPending(g, cache[g]) /\ CopyIsPending(g, fetch[g]))'
  <2> TAKE g \in Page
  <2>1. \A source : Pending(g, source) => Pending(g, source)'
    BY <1>1 DEF Pending
  <2>2. None.stale = {}
    BY DEF None
  <2> QED
    BY <1>1, <1>2, <2>1, <2>2 DEF CacheInv, CopyIsPending
<1> QED
  BY <1>3, <1>4, <1>5 DEF CacheInv

(* The lag of the index only shrinks. *)
LEMMA IndexCatchesUpStep ==
    ASSUME CacheInv, NEW source, IndexCatchesUp(source)
    PROVE  CacheInv'
<1>1. /\ lag' \subseteq lag
      /\ UNCHANGED <<cache, fetch, buffer, purges, changes, cacheFaults>>
  BY DEF IndexCatchesUp
<1>2. CacheTypeOK' /\ BuffersAreSorted'
  BY <1>1 DEF CacheInv, CacheTypeOK, BuffersAreSorted
<1>3. \A g \in Page : (CopyIsPending(g, cache[g]) /\ CopyIsPending(g, fetch[g]))'
  BY <1>1 DEF CacheInv, CopyIsPending, Pending
<1> QED
  BY <1>2, <1>3 DEF CacheInv

(* The change is pending at once: its event is in the buffer. *)
LEMMA ChangeCatalogStep ==
    ASSUME CacheInv, NEW rule \in Rules, NEW key \in KeysOf(rule), ChangeCatalog(rule, key)
    PROVE  CacheInv'
<1> DEFINE source == SourceOf(rule, key)
<1>0. source \in Source
  BY SourcesAreSources
<1>1. /\ cache' = [page \in Page |-> Spoil(cache[page], page, source)]
      /\ fetch' = [page \in Page |-> Spoil(fetch[page], page, source)]
      /\ lag' = lag \cup ({source} \cap Indexed)
      /\ buffer' = [buffer EXCEPT ![rule] = @ \cup {key}]
      /\ changes < MaxChanges /\ changes' = changes + 1
      /\ UNCHANGED <<purges, cacheFaults>>
  BY DEF ChangeCatalog
<1>2. /\ source \in {SourceOf(rule, k) : k \in buffer'[rule]}
      /\ \A r \in Rules : buffer[r] \subseteq buffer'[r]
      /\ buffer' \in [Rules -> SUBSET (Products \cup {"tax", "collection"})]
      /\ BuffersAreSorted'
  <2>1. key \in Products \cup {"tax", "collection"}
    BY KeysAreEvents
  <2> HIDE DEF source
  <2>2. buffer'[rule] = buffer[rule] \cup {key}
        /\ \A r \in Rules \ {rule} : buffer'[r] = buffer[r]
    BY <1>1 DEF CacheInv, CacheTypeOK
  <2>3. buffer' \in [Rules -> SUBSET (Products \cup {"tax", "collection"})]
    BY <1>1, <2>1 DEF CacheInv, CacheTypeOK
  <2> QED
    BY <2>2, <2>3 DEF CacheInv, BuffersAreSorted, source
<1> HIDE DEF source
<1>3. \A page \in Page :
          /\ CopyOK(page, cache'[page]) /\ CopyOK(page, fetch'[page])
          /\ cache'[page].stale \ cache'[page].excused
                 \subseteq (cache[page].stale \ cache[page].excused) \cup {source}
          /\ fetch'[page].stale \ fetch'[page].excused
                 \subseteq (fetch[page].stale \ fetch[page].excused) \cup {source}
  <2> TAKE page \in Page
  <2>1. CopyOK(page, cache[page]) /\ CopyOK(page, fetch[page])
    BY CopiesTyped DEF CacheInv
  <2>2. cache'[page] = Spoil(cache[page], page, source)
        /\ fetch'[page] = Spoil(fetch[page], page, source)
    BY <1>1
  <2>3. /\ CopyOK(page, Spoil(cache[page], page, source))
        /\ Spoil(cache[page], page, source).stale \ Spoil(cache[page], page, source).excused
               \subseteq (cache[page].stale \ cache[page].excused)
                         \cup ({source} \cap DependsOn(page))
    BY <1>0, <2>1, SpoilOK
  <2>4. /\ CopyOK(page, Spoil(fetch[page], page, source))
        /\ Spoil(fetch[page], page, source).stale \ Spoil(fetch[page], page, source).excused
               \subseteq (fetch[page].stale \ fetch[page].excused)
                         \cup ({source} \cap DependsOn(page))
    BY <1>0, <2>1, SpoilOK
  <2> QED
    BY <2>2, <2>3, <2>4
<1>4. CacheTypeOK'
  <2>1. cache' = [page \in Page |-> cache'[page]] /\ fetch' = [page \in Page |-> fetch'[page]]
    BY <1>1
  <2>2. lag' \subseteq Indexed /\ purges' \subseteq Purge /\ changes' \in 0..MaxChanges
        /\ cacheFaults' \in 0..MaxCacheFaults
    BY <1>1, CacheAssumption DEF CacheInv, CacheTypeOK
  <2> QED
    BY <1>2, <1>3, <2>1, <2>2, StaysTyped
<1>5. \A page \in Page : (CopyIsPending(page, cache[page]) /\ CopyIsPending(page, fetch[page]))'
  <2> TAKE page \in Page
  <2>1. \A s : Pending(page, s) => Pending(page, s)'
    BY <1>1, <1>2, StaysPending
  <2>2. Pending(page, source)'
    BY <1>2 DEF Pending
  <2> QED
    BY <1>3, <2>1, <2>2 DEF CacheInv, CopyIsPending
<1> QED
  BY <1>2, <1>4, <1>5 DEF CacheInv

(* Of the events of the buffer those whose keys are sent are now pending   *)
(* as requests (RulesCover), and the others are excused.                   *)
LEMMA CloseBufferStep ==
    ASSUME CacheInv, NEW rule \in Rules, CloseBuffer(rule)
    PROVE  CacheInv'
<1>1. PICK keys \in SentKeys(buffer[rule]) :
          /\ purges' = purges \cup Handle(rule, keys)
          /\ cache' = [page \in Page |-> Excuse(cache[page], buffer[rule] \ keys)]
          /\ fetch' = [page \in Page |-> Excuse(fetch[page], buffer[rule] \ keys)]
  BY DEF CloseBuffer
<1>2. /\ buffer[rule] # {}
      /\ buffer' = [buffer EXCEPT ![rule] = {}]
      /\ UNCHANGED <<lag, changes, cacheFaults>>
  BY DEF CloseBuffer
<1>3. keys \subseteq buffer[rule] /\ keys # {} /\ keys \subseteq KeysOf(rule)
  BY <1>2, SomeKeysAreSent DEF CacheInv, BuffersAreSorted
<1>4. /\ buffer' \in [Rules -> SUBSET (Products \cup {"tax", "collection"})]
      /\ BuffersAreSorted'
      /\ \A r \in Rules \ {rule} : buffer'[r] = buffer[r]
  BY <1>2 DEF CacheInv, CacheTypeOK, BuffersAreSorted
<1> DEFINE unsentKeys == buffer[rule] \ keys
<1>5. \A page \in Page :
          /\ CopyOK(page, cache'[page]) /\ CopyOK(page, fetch'[page])
          /\ cache'[page].stale \ cache'[page].excused
                 = (cache[page].stale \ cache[page].excused) \ unsentKeys
          /\ fetch'[page].stale \ fetch'[page].excused
                 = (fetch[page].stale \ fetch[page].excused) \ unsentKeys
  <2> HIDE DEF unsentKeys
  <2> TAKE page \in Page
  <2>1. CopyOK(page, cache[page]) /\ CopyOK(page, fetch[page])
    BY CopiesTyped DEF CacheInv
  <2>2. cache'[page] = Excuse(cache[page], unsentKeys)
        /\ fetch'[page] = Excuse(fetch[page], unsentKeys)
    BY <1>1 DEF unsentKeys
  <2> QED
    BY <2>1, <2>2, ExcuseOK
<1>6. CacheTypeOK'
  <2>1. purges' \subseteq Purge
    BY <1>1, <1>3, RulesTyped DEF CacheInv, CacheTypeOK
  <2>2. cache' = [page \in Page |-> cache'[page]] /\ fetch' = [page \in Page |-> fetch'[page]]
    BY <1>1
  <2> QED
    BY <1>2, <1>4, <1>5, <2>1, <2>2, StaysTyped DEF CacheInv, CacheTypeOK
<1>7. ASSUME NEW page \in Page, NEW source \in DependsOn(page) \ unsentKeys,
             Pending(page, source) \/ NeverPurged(page, source)
      PROVE  Pending(page, source)' \/ NeverPurged(page, source)
  <2>1. CASE \E r \in Rules \ {rule} : \E key \in buffer[r] : SourceOf(r, key) = source
    BY <1>4, <2>1 DEF Pending
  <2>2. CASE \E q \in purges : source \in SourcesOf(q) /\ Evicts(q, page)
    BY <1>1, <2>2 DEF Pending
  <2>3. ASSUME NEW key \in buffer[rule], SourceOf(rule, key) = source,
               ~NeverPurged(page, source)
        PROVE  Pending(page, source)'
    <3>1. key \in keys
      <4> SUFFICES ASSUME key \notin keys PROVE FALSE
        OBVIOUS
      <4>1. key # source
        BY <2>3
      <4>2. rule = "members"
        BY <2>3, <4>1 DEF SourceOf
      <4>3. buffer[rule] = {"collection"}
        BY <1>2, <4>2 DEF CacheInv, BuffersAreSorted, KeysOf
      <4> QED
        BY <1>3, <4>3
    <3>2. \E q \in Handle(rule, keys) : source \in SourcesOf(q) /\ Evicts(q, page)
      BY <1>3, <2>3, <3>1, RulesCover
    <3> QED
      BY <1>1, <3>2 DEF Pending
  <2> QED
    BY <1>7, <2>1, <2>2, <2>3 DEF Pending
<1>8. \A page \in Page : (CopyIsPending(page, cache[page]) /\ CopyIsPending(page, fetch[page]))'
  <2> HIDE DEF unsentKeys
  <2> TAKE page \in Page
  <2>1. cache[page].stale \subseteq DependsOn(page) /\ fetch[page].stale \subseteq DependsOn(page)
    BY DEF CacheInv, CacheTypeOK
  <2>2. CopyIsPending(page, cache[page]) /\ CopyIsPending(page, fetch[page])
    BY DEF CacheInv
  <2> QED
    BY <1>5, <1>7, <2>1, <2>2 DEF CopyIsPending
<1> QED
  BY <1>4, <1>6, <1>8 DEF CacheInv

(* A request that is gone was the hope of no change but its own. *)
LEMMA WithoutRequest ==
    ASSUME NEW q, purges' = purges \ {q}, UNCHANGED buffer, NEW page, NEW source,
           Pending(page, source), ~(source \in SourcesOf(q) /\ Evicts(q, page))
    PROVE  Pending(page, source)'
BY DEF Pending

(* What became of a page's copy when a request was taken or lost.          *)
AfterRequest(q, page, old, new) ==
    new \in {old, None} \cup (IF Evicts(q, page) THEN {Excuse(old, SourcesOf(q))} ELSE {})

(* A request may go once it has excused, or thrown out, what it evicts. *)
LEMMA RequestStep ==
    ASSUME CacheInv, NEW q \in purges, purges' = purges \ {q}, UNCHANGED <<lag, buffer, changes>>,
           cache' = [page \in Page |-> cache'[page]],
           fetch' = [page \in Page |-> fetch'[page]],
           \A page \in Page : /\ AfterRequest(q, page, cache[page], cache'[page])
                              /\ AfterRequest(q, page, fetch[page], fetch'[page])
                              /\ Evicts(q, page) => cache'[page] # cache[page]
                                                    \/ cache[page].stale \cap SourcesOf(q)
                                                           \subseteq cache[page].excused
                              /\ Evicts(q, page) => fetch'[page] # fetch[page]
                                                    \/ fetch[page].stale \cap SourcesOf(q)
                                                           \subseteq fetch[page].excused,
           cacheFaults' \in 0..MaxCacheFaults
    PROVE  CacheInv'
<1>1. \A page \in Page : CopyOK(page, cache[page]) /\ CopyOK(page, fetch[page])
  BY CopiesTyped DEF CacheInv
<1>2. ASSUME NEW page \in Page, NEW old, NEW new, CopyOK(page, old),
             AfterRequest(q, page, old, new),
             Evicts(q, page) => new # old \/ old.stale \cap SourcesOf(q) \subseteq old.excused
      PROVE  /\ CopyOK(page, new)
             /\ new.stale \ new.excused \subseteq old.stale \ old.excused
             /\ Evicts(q, page) => (new.stale \ new.excused) \cap SourcesOf(q) = {}
  <2>1. CASE new = old
    BY <1>2, <2>1
  <2>2. CASE new = None
    BY <2>2, NothingIsOK DEF None
  <2>3. CASE Evicts(q, page) /\ new = Excuse(old, SourcesOf(q))
    <3>1. CopyOK(page, Excuse(old, SourcesOf(q)))
          /\ Excuse(old, SourcesOf(q)).stale \ Excuse(old, SourcesOf(q)).excused
                = (old.stale \ old.excused) \ SourcesOf(q)
      BY <1>2, ExcuseOK
    <3> QED
      BY <2>3, <3>1
  <2> QED
    BY <1>2, <2>1, <2>2, <2>3 DEF AfterRequest
<1>3. \A page \in Page :
          /\ CopyOK(page, cache'[page]) /\ CopyOK(page, fetch'[page])
          /\ cache'[page].stale \ cache'[page].excused
                 \subseteq cache[page].stale \ cache[page].excused
          /\ fetch'[page].stale \ fetch'[page].excused
                 \subseteq fetch[page].stale \ fetch[page].excused
          /\ Evicts(q, page) =>
                 /\ (cache'[page].stale \ cache'[page].excused) \cap SourcesOf(q) = {}
                 /\ (fetch'[page].stale \ fetch'[page].excused) \cap SourcesOf(q) = {}
  BY <1>1, <1>2
<1>4. CacheTypeOK'
  <2>1. purges' \subseteq Purge /\ lag' \subseteq Indexed /\ changes' \in 0..MaxChanges
        /\ buffer' \in [Rules -> SUBSET (Products \cup {"tax", "collection"})]
    BY DEF CacheInv, CacheTypeOK
  <2> QED
    BY <1>3, <2>1, StaysTyped
<1>5. BuffersAreSorted'
  BY DEF CacheInv, BuffersAreSorted
<1>6. \A page \in Page : (CopyIsPending(page, cache[page]) /\ CopyIsPending(page, fetch[page]))'
  <2> TAKE page \in Page
  <2>1. \A source : Pending(page, source) /\ ~(source \in SourcesOf(q) /\ Evicts(q, page))
                         => Pending(page, source)'
    BY WithoutRequest
  <2> QED
    BY <1>3, <2>1 DEF CacheInv, CopyIsPending
<1> QED
  BY <1>4, <1>5, <1>6 DEF CacheInv

(* The copy in the cache is evicted, one on its way excused. *)
LEMMA TakePurgeStep ==
    ASSUME CacheInv, NEW q \in purges, TakePurge(q)
    PROVE  CacheInv'
<1>1. /\ purges' = purges \ {q}
      /\ cache' = [page \in Page |-> IF Evicts(q, page) THEN None ELSE cache[page]]
      /\ fetch' = [page \in Page |->
                       IF Evicts(q, page) THEN Excuse(fetch[page], SourcesOf(q))
                       ELSE fetch[page]]
      /\ UNCHANGED <<lag, buffer, changes, cacheFaults>>
  BY DEF TakePurge
<1>2. ASSUME NEW page \in Page
      PROVE  /\ AfterRequest(q, page, cache[page], cache'[page])
             /\ AfterRequest(q, page, fetch[page], fetch'[page])
             /\ Evicts(q, page) => cache'[page] # cache[page]
                                   \/ cache[page].stale \cap SourcesOf(q)
                                          \subseteq cache[page].excused
             /\ Evicts(q, page) => fetch'[page] # fetch[page]
                                   \/ fetch[page].stale \cap SourcesOf(q)
                                          \subseteq fetch[page].excused
  <2>1. CASE Evicts(q, page)
    <3>1. cache'[page] = None /\ fetch'[page] = Excuse(fetch[page], SourcesOf(q))
      BY <1>1, <2>1
    <3>2. None.stale = {}
      BY DEF None
    <3>3. CopyOK(page, fetch[page])
      BY CopiesTyped DEF CacheInv
    <3>4. Excuse(fetch[page], SourcesOf(q)).stale \ Excuse(fetch[page], SourcesOf(q)).excused
              = (fetch[page].stale \ fetch[page].excused) \ SourcesOf(q)
      BY <3>3, ExcuseOK
    <3> QED
      BY <2>1, <3>1, <3>2, <3>4 DEF AfterRequest
  <2>2. CASE ~Evicts(q, page)
    BY <1>1, <2>2 DEF AfterRequest
  <2> QED
    BY <2>1, <2>2
<1>3. cache' = [page \in Page |-> cache'[page]] /\ fetch' = [page \in Page |-> fetch'[page]]
  BY <1>1
<1>4. cacheFaults' \in 0..MaxCacheFaults
  BY <1>1 DEF CacheInv, CacheTypeOK
<1> QED
  BY <1>1, <1>2, <1>3, <1>4, RequestStep

(* Both copies are excused. *)
LEMMA LosePurgeStep ==
    ASSUME CacheInv, NEW q \in purges, LosePurge(q)
    PROVE  CacheInv'
<1>1. /\ purges' = purges \ {q} /\ cacheFaults < MaxCacheFaults
      /\ cache' = [page \in Page |->
                       IF Evicts(q, page) THEN Excuse(cache[page], SourcesOf(q))
                       ELSE cache[page]]
      /\ fetch' = [page \in Page |->
                       IF Evicts(q, page) THEN Excuse(fetch[page], SourcesOf(q))
                       ELSE fetch[page]]
      /\ cacheFaults' = cacheFaults + 1
      /\ UNCHANGED <<lag, buffer, changes>>
  BY DEF LosePurge
<1>2. ASSUME NEW page \in Page
      PROVE  /\ AfterRequest(q, page, cache[page], cache'[page])
             /\ AfterRequest(q, page, fetch[page], fetch'[page])
             /\ Evicts(q, page) => cache'[page] # cache[page]
                                   \/ cache[page].stale \cap SourcesOf(q)
                                          \subseteq cache[page].excused
             /\ Evicts(q, page) => fetch'[page] # fetch[page]
                                   \/ fetch[page].stale \cap SourcesOf(q)
                                          \subseteq fetch[page].excused
  <2>1. CASE Evicts(q, page)
    <3>1. cache'[page] = Excuse(cache[page], SourcesOf(q))
          /\ fetch'[page] = Excuse(fetch[page], SourcesOf(q))
      BY <1>1, <2>1
    <3>2. CopyOK(page, cache[page]) /\ CopyOK(page, fetch[page])
      BY CopiesTyped DEF CacheInv
    <3>3. /\ Excuse(cache[page], SourcesOf(q)).stale \ Excuse(cache[page], SourcesOf(q)).excused
                 = (cache[page].stale \ cache[page].excused) \ SourcesOf(q)
          /\ Excuse(fetch[page], SourcesOf(q)).stale \ Excuse(fetch[page], SourcesOf(q)).excused
                 = (fetch[page].stale \ fetch[page].excused) \ SourcesOf(q)
      BY <3>2, ExcuseOK
    <3> QED
      BY <2>1, <3>1, <3>3 DEF AfterRequest
  <2>2. CASE ~Evicts(q, page)
    BY <1>1, <2>2 DEF AfterRequest
  <2> QED
    BY <2>1, <2>2
<1>3. cache' = [page \in Page |-> cache'[page]] /\ fetch' = [page \in Page |-> fetch'[page]]
  BY <1>1
<1>4. cacheFaults' \in 0..MaxCacheFaults
  BY <1>1, CacheAssumption DEF CacheInv, CacheTypeOK
<1> QED
  BY <1>1, <1>2, <1>3, <1>4, RequestStep

(* Nothing is left to hope for, and every copy excused. *)
LEMMA StopServerStep ==
    ASSUME CacheInv, StopServer
    PROVE  CacheInv'
<1>1. /\ cacheFaults < MaxCacheFaults /\ cacheFaults' = cacheFaults + 1
      /\ buffer' = [rule \in Rules |-> {}] /\ purges' = {}
      /\ cache' = [page \in Page |-> Excuse(cache[page], Source)]
      /\ fetch' = [page \in Page |-> None]
      /\ UNCHANGED <<lag, changes>>
  BY DEF StopServer
<1>2. \A page \in Page :
          /\ CopyOK(page, cache'[page]) /\ CopyOK(page, fetch'[page])
          /\ cache'[page].stale \ cache'[page].excused = {} /\ fetch'[page].stale = {}
  <2> TAKE page \in Page
  <2>1. CopyOK(page, cache[page])
    BY CopiesTyped DEF CacheInv
  <2>2. /\ CopyOK(page, Excuse(cache[page], Source))
        /\ Excuse(cache[page], Source).stale \ Excuse(cache[page], Source).excused
               = (cache[page].stale \ cache[page].excused) \ Source
    BY <2>1, ExcuseOK
  <2>3. cache[page].stale \subseteq Source
    BY <2>1 DEF CopyOK, Copy
  <2>4. fetch'[page] = None /\ None.stale = {} /\ cache'[page] = Excuse(cache[page], Source)
    BY <1>1 DEF None
  <2> QED
    BY <2>2, <2>3, <2>4, NothingIsOK
<1>3. CacheTypeOK'
  <2>1. cache' = [page \in Page |-> cache'[page]] /\ fetch' = [page \in Page |-> fetch'[page]]
    BY <1>1
  <2>2. lag' \subseteq Indexed /\ purges' \subseteq Purge /\ changes' \in 0..MaxChanges
        /\ cacheFaults' \in 0..MaxCacheFaults
        /\ buffer' \in [Rules -> SUBSET (Products \cup {"tax", "collection"})]
    BY <1>1, CacheAssumption DEF CacheInv, CacheTypeOK
  <2> QED
    BY <1>2, <2>1, <2>2, StaysTyped
<1>4. BuffersAreSorted'
  BY <1>1 DEF BuffersAreSorted
<1>5. \A page \in Page : (CopyIsPending(page, cache[page]) /\ CopyIsPending(page, fetch[page]))'
  BY <1>2 DEF CopyIsPending
<1> QED
  BY <1>3, <1>4, <1>5 DEF CacheInv

(* The invariant is kept by every step of the cache. *)
LEMMA CacheInvStep == CacheInv /\ [CacheNext]_cacheVars => CacheInv'
<1> SUFFICES ASSUME CacheInv, [CacheNext]_cacheVars PROVE CacheInv'
  OBVIOUS
<1>1. ASSUME NEW page \in Page, FetchPage(page) \/ FillCache(page) \/ ExpireCopy(page)
      PROVE  CacheInv'
  BY <1>1, FetchPageStep, FillCacheStep, ExpireCopyStep
<1>2. ASSUME NEW rule \in Rules, NEW key \in KeysOf(rule), ChangeCatalog(rule, key)
      PROVE  CacheInv'
  BY <1>2, ChangeCatalogStep
<1>3. ASSUME NEW rule \in Rules, CloseBuffer(rule)
      PROVE  CacheInv'
  BY <1>3, CloseBufferStep
<1>4. ASSUME NEW q \in purges, TakePurge(q) \/ LosePurge(q)
      PROVE  CacheInv'
  BY <1>4, TakePurgeStep, LosePurgeStep
<1>5. ASSUME NEW source \in Indexed, IndexCatchesUp(source)
      PROVE  CacheInv'
  BY <1>5, IndexCatchesUpStep
<1>6. CASE StopServer
  BY <1>6, StopServerStep
<1>7. CASE UNCHANGED cacheVars
  BY <1>7 DEF cacheVars, CacheInv, CacheTypeOK, BuffersAreSorted, CopyIsPending, Pending
<1> QED
  BY <1>1, <1>2, <1>3, <1>4, <1>5, <1>6, <1>7 DEF CacheNext

(* What is pending of a page that depends on it is owed. *)
LEMMA PendingIsOwed ==
    ASSUME BuffersAreSorted, NEW page \in Page, NEW source \in DependsOn(page),
           Pending(page, source)
    PROVE  PurgeOwed(page, source) \/ NeverPurged(page, source)
<1>1. CASE \E q \in purges : source \in SourcesOf(q) /\ Evicts(q, page)
  BY <1>1 DEF PurgeOwed
<1>2. ASSUME NEW rule \in Rules, NEW key \in buffer[rule], SourceOf(rule, key) = source,
             ~NeverPurged(page, source)
      PROVE  PurgeOwed(page, source)
  <2>1. buffer[rule] \subseteq KeysOf(rule)
    BY DEF BuffersAreSorted
  <2>2. \E q \in Handle(rule, buffer[rule]) : Evicts(q, page)
    BY <1>2, <2>1, RulesCover
  <2> QED
    BY <1>2, <2>2 DEF PurgeOwed
<1> QED
  BY <1>1, <1>2 DEF Pending

(* So what the invariant says of the copies in the cache is StaleIsOwed. *)
LEMMA CacheInvCovers == CacheInv => StaleIsOwed
<1> SUFFICES ASSUME CacheInv, NEW page \in Page,
                    NEW source \in cache[page].stale \ cache[page].excused
             PROVE  PurgeOwed(page, source) \/ NeverPurged(page, source)
  BY DEF StaleIsOwed, NeverPurged
<1>1. source \in DependsOn(page)
  BY DEF CacheInv, CacheTypeOK
<1>2. Pending(page, source) \/ NeverPurged(page, source)
  BY DEF CacheInv, CopyIsPending
<1> QED
  BY <1>1, <1>2, PendingIsOwed DEF CacheInv

-----------------------------------------------------------------------------
(* Theorems *)

(* With an index that catches up whenever it likes (CacheSpec) every stale *)
(* copy in the cache, but for the excused ones and the gap of the listing, *)
(* is about to be purged.                                                  *)
THEOREM CacheIsPurged == CacheSpec => []StaleIsOwed
<1>1. CacheInit => CacheInv
  BY CacheInvInit
<1>2. CacheInv /\ [CacheNext]_cacheVars => CacheInv'
  BY CacheInvStep
<1>3. CacheInv => StaleIsOwed
  BY CacheInvCovers
<1> QED
  BY <1>1, <1>2, <1>3, PTL DEF CacheSpec

-----------------------------------------------------------------------------
(* The queue. *)

(* What holds of the strategy in a process: it listens only when it has a  *)
(* listener registered, and then at most once.                             *)
OneListener(s) == s.listeners \in {0, 1} /\ (~s.registered => s.listeners = 0)

(* The inductive invariant of the queue.  A run is of a job that was       *)
(* added.                                                                  *)
QueueInv ==
    /\ QueueTypeOK
    /\ jobOf \in [Jobs -> Indexed \cup {"none"}]
    /\ \A j \in Jobs : message[j] = "unsent" <=> jobOf[j] = "none"
    /\ \A r \in runs : message[r.job] # "unsent"
    /\ \A p \in Processes : OneListener(process[p])

-----------------------------------------------------------------------------
(* Steps *)

(* A step of the strategy in one process leaves messages and runs alone,   *)
(* but for a crash, which takes its runs with it.                          *)
StrategyStep ==
    /\ \E p \in Processes : InitStrategy(p) \/ StartQueue(p) \/ StopQueue(p)
                            \/ DestroyStrategy(p) \/ Crash(p)
    /\ QueueAlone

(* A step of the cache. *)
CacheStep ==
    /\ \/ \E page \in Page : FetchPage(page) \/ FillCache(page) \/ ExpireCopy(page)
       \/ \E rule \in Rules : CloseBuffer(rule)
       \/ \E q \in purges : TakePurge(q) \/ LosePurge(q)
       \/ StopServer
    /\ UNCHANGED <<queueVars, jobOf, unsent>>

(* Next, in eight parts. *)
LEMMA NextCases ==
    ASSUME [Next]_vars
    PROVE  \/ \E rule \in Rules : \E key \in KeysOf(rule) : ChangeAndUpdate(rule, key)
           \/ \E rule \in Rules : \E key \in KeysOf(rule) : ChangeWithoutJob(rule, key)
           \/ \E r \in runs : EndJob(r)
           \/ StrategyStep
           \/ \E p \in Processes : \E j \in Jobs : Deliver(p, j) /\ QueueAlone
           \/ \E r \in runs : FailRun(r) /\ QueueAlone
           \/ \E j \in Jobs : LeaseExpires(j) /\ QueueAlone
           \/ CacheStep
           \/ UNCHANGED vars
BY DEF Next, StrategyStep, CacheStep, CacheAlone

(* Taking the listener off leaves none, and no entry. *)
LEMMA UnlistenOK ==
    ASSUME NEW s \in Strategy, OneListener(s)
    PROVE  Unlisten(s) \in Strategy /\ OneListener(Unlisten(s))
<1> DEFINE rest == IF s.listeners = 0 THEN 0 ELSE s.listeners - 1
<1>1. rest = 0
  BY DEF OneListener
<1>2. Unlisten(s) = [initialized |-> s.initialized, started |-> s.started,
                     registered |-> FALSE, listeners |-> rest]
  BY DEF Unlisten
<1> HIDE DEF rest
<1> QED
  BY <1>1, <1>2 DEF Strategy, OneListener

(* destroy leaves no listener on. *)
LEMMA DestroyedOK ==
    ASSUME NEW s \in Strategy
    PROVE  Destroyed(s) \in Strategy /\ OneListener(Destroyed(s))
BY DEF Destroyed, Strategy, OneListener

(* One step in one process: it has no listener that is not registered.     *)
LEMMA StrategiesStep ==
    ASSUME QueueInv, StrategyStep
    PROVE  QueueInv' /\ UNCHANGED <<message, ran, jobOf, unsent, cacheVars>>
           /\ runs' \subseteq runs
<1>1. UNCHANGED <<message, ran, jobOf, unsent, cacheVars>>
  BY DEF StrategyStep, QueueAlone, InitStrategy, StartQueue, StopQueue, DestroyStrategy, Crash
<1>2. runs' \subseteq runs
  BY DEF StrategyStep, InitStrategy, StartQueue, StopQueue, DestroyStrategy, Crash
<1>3. queueFaults' \in 0..MaxQueueFaults
  BY QueueAssumption DEF StrategyStep, InitStrategy, StartQueue, StopQueue, DestroyStrategy,
     Crash, Fault, QueueInv, QueueTypeOK
<1>4. PICK p \in Processes, s \in Strategy :
          process' = [process EXCEPT ![p] = s] /\ OneListener(s)
  <2>1. \A p \in Processes : process[p] \in Strategy /\ OneListener(process[p])
    BY DEF QueueInv, QueueTypeOK
  <2>2. ASSUME NEW s \in Strategy, OneListener(s)
        PROVE  Listen(s) \in Strategy /\ OneListener(Listen(s))
    <3>1. CASE s.registered
      BY <2>2, <3>1 DEF Listen, Strategy, OneListener
    <3>2. CASE ~s.registered
      <4>1. s.listeners = 0
        BY <2>2, <3>2 DEF OneListener
      <4>2. Listen(s) = [initialized |-> s.initialized, started |-> FALSE,
                         registered |-> TRUE, listeners |-> 1]
        <5>1. s = [initialized |-> s.initialized, started |-> s.started,
                   registered |-> FALSE, listeners |-> 0]
          BY <3>2, <4>1 DEF Strategy
        <5>2. \A initialized, started :
                  Listen([initialized |-> initialized, started |-> started,
                          registered |-> FALSE, listeners |-> 0])
                      = [initialized |-> initialized, started |-> FALSE,
                         registered |-> TRUE, listeners |-> 0 + 1]
          BY DEF Listen
        <5>3. 0 + 1 = 1
          OBVIOUS
        <5> QED
          BY <5>1, <5>2, <5>3, Zenon
      <4> QED
        BY <4>2 DEF Strategy, OneListener
    <3> QED
      BY <3>1, <3>2
  <2>3. ASSUME NEW p \in Processes, InitStrategy(p)
        PROVE  \E s \in Strategy : process' = [process EXCEPT ![p] = s] /\ OneListener(s)
    <3> DEFINE t == [process[p] EXCEPT !.initialized = TRUE]
               s == IF t.started THEN Listen(t) ELSE t
    <3>1. t \in Strategy /\ OneListener(t)
      BY <2>1 DEF Strategy, OneListener
    <3>2. process' = [process EXCEPT ![p] = s]
      BY <2>3 DEF InitStrategy
    <3>3. s \in Strategy /\ OneListener(s)
      <4> HIDE DEF t
      <4> QED
        BY <2>2, <3>1
    <3> QED
      BY <3>2, <3>3
  <2>4. ASSUME NEW p \in Processes, StartQueue(p)
        PROVE  \E s \in Strategy : process' = [process EXCEPT ![p] = s] /\ OneListener(s)
    <3> DEFINE s == IF process[p].initialized THEN Listen(process[p])
                    ELSE [process[p] EXCEPT !.started = TRUE]
    <3>1. process' = [process EXCEPT ![p] = s]
      BY <2>4 DEF StartQueue
    <3>2. s \in Strategy /\ OneListener(s)
      <4>1. Listen(process[p]) \in Strategy /\ OneListener(Listen(process[p]))
        BY <2>1, <2>2
      <4>2. [process[p] EXCEPT !.started = TRUE] \in Strategy
            /\ OneListener([process[p] EXCEPT !.started = TRUE])
        BY <2>1 DEF Strategy, OneListener
      <4> QED
        BY <4>1, <4>2
    <3> QED
      BY <3>1, <3>2
  <2>5. ASSUME NEW p \in Processes, StopQueue(p)
        PROVE  \E s \in Strategy : process' = [process EXCEPT ![p] = s] /\ OneListener(s)
    <3>1. process' = [process EXCEPT ![p] = Unlisten(process[p])]
      BY <2>5 DEF StopQueue
    <3>2. Unlisten(process[p]) \in Strategy /\ OneListener(Unlisten(process[p]))
      BY <2>1, UnlistenOK
    <3> QED
      BY <3>1, <3>2
  <2>6. ASSUME NEW p \in Processes, DestroyStrategy(p)
        PROVE  \E s \in Strategy : process' = [process EXCEPT ![p] = s] /\ OneListener(s)
    <3>1. process' = [process EXCEPT ![p] = Destroyed(process[p])]
      BY <2>6 DEF DestroyStrategy
    <3>2. Destroyed(process[p]) \in Strategy /\ OneListener(Destroyed(process[p]))
      BY <2>1, DestroyedOK
    <3> QED
      BY <3>1, <3>2
  <2>7. ASSUME NEW p \in Processes, Crash(p)
        PROVE  \E s \in Strategy : process' = [process EXCEPT ![p] = s] /\ OneListener(s)
    <3>1. process' = [process EXCEPT ![p] = NotRunning]
      BY <2>7 DEF Crash
    <3>2. NotRunning \in Strategy /\ OneListener(NotRunning)
      BY DEF Strategy, NotRunning, OneListener
    <3> QED
      BY <3>1, <3>2
  <2> QED
    BY <2>3, <2>4, <2>5, <2>6, <2>7 DEF StrategyStep
<1>5. process' \in [Processes -> Strategy]
      /\ \A q \in Processes : OneListener(process'[q])
  BY <1>4 DEF QueueInv, QueueTypeOK
<1> QED
  BY <1>1, <1>2, <1>3, <1>5 DEF QueueInv, QueueTypeOK

(* A job leaves "unsent" only when it is added. *)
LEMMA DeliverStep ==
    ASSUME QueueInv, NEW p \in Processes, NEW j \in Jobs, Deliver(p, j), QueueAlone
    PROVE  /\ QueueInv' /\ UNCHANGED <<ran, jobOf, unsent, cacheVars>>
           /\ message[j] = "waiting" /\ message' = [message EXCEPT ![j] = "leased"]
           /\ \A r \in runs' \ runs : process[r.proc].registered
<1>1. /\ message[j] = "waiting" /\ message' = [message EXCEPT ![j] = "leased"]
      /\ runs' = runs \cup {[proc |-> p, job |-> j, leased |-> TRUE]}
      /\ UNCHANGED <<process, ran, queueFaults, jobOf, unsent, cacheVars>>
      /\ process[p].listeners > 0
  BY DEF Deliver, QueueAlone
<1>2. \A r \in runs' \ runs : process[r.proc].registered
  BY <1>1 DEF QueueInv, OneListener
<1>3. QueueTypeOK'
  <2>1. [proc |-> p, job |-> j, leased |-> TRUE] \in Run
    BY DEF Run
  <2>2. message' \in [Jobs -> MessageState]
    BY <1>1 DEF QueueInv, QueueTypeOK, MessageState
  <2> QED
    BY <1>1, <2>1, <2>2 DEF QueueInv, QueueTypeOK
<1>4. \A k \in Jobs : message'[k] = "unsent" <=> message[k] = "unsent"
  BY <1>1 DEF QueueInv, QueueTypeOK
<1>5. \A r \in runs' : message'[r.job] # "unsent"
  BY <1>1, <1>4 DEF QueueInv, QueueTypeOK, Run
<1> QED
  BY <1>1, <1>2, <1>3, <1>4, <1>5 DEF QueueInv

(* A failed run gives its message back, if its lease still holds. *)
LEMMA FailRunStep ==
    ASSUME QueueInv, NEW r \in runs, FailRun(r), QueueAlone
    PROVE  /\ QueueInv' /\ UNCHANGED <<ran, jobOf, unsent, cacheVars>>
           /\ \A j \in Jobs : \/ message'[j] = message[j]
                              \/ (message[j] = "leased" /\ message'[j] = "waiting")
           /\ runs' \subseteq runs
<1>1. /\ runs' = runs \ {r}
      /\ message' = IF r.leased /\ message[r.job] = "leased"
                    THEN [message EXCEPT ![r.job] = "waiting"] ELSE message
      /\ queueFaults < MaxQueueFaults /\ queueFaults' = queueFaults + 1
      /\ UNCHANGED <<process, ran, jobOf, unsent, cacheVars>>
  BY DEF FailRun, Fault, QueueAlone
<1>2. r.job \in Jobs
  BY DEF QueueInv, QueueTypeOK, Run
<1>3. QueueTypeOK'
  BY <1>1, <1>2, QueueAssumption DEF QueueInv, QueueTypeOK, MessageState
<1>4. \A j \in Jobs : \/ message'[j] = message[j]
                      \/ (message[j] = "leased" /\ message'[j] = "waiting")
  BY <1>1, <1>2 DEF QueueInv, QueueTypeOK
<1>5. \A k \in runs' : message'[k.job] # "unsent"
  BY <1>1, <1>4 DEF QueueInv, QueueTypeOK, Run
<1> QED
  BY <1>1, <1>3, <1>4, <1>5 DEF QueueInv

(* A lease that runs out gives the message back beside its run. *)
LEMMA LeaseExpiresStep ==
    ASSUME QueueInv, NEW j \in Jobs, LeaseExpires(j), QueueAlone
    PROVE  /\ QueueInv' /\ UNCHANGED <<ran, jobOf, unsent, cacheVars>>
           /\ message[j] = "leased" /\ message' = [message EXCEPT ![j] = "waiting"]
           /\ \A r \in runs' \ runs : ~r.leased
<1> DEFINE Later(r) == IF r.job = j THEN [r EXCEPT !.leased = FALSE] ELSE r
<1>1. /\ message[j] = "leased" /\ message' = [message EXCEPT ![j] = "waiting"]
      /\ runs' = {Later(r) : r \in runs}
      /\ UNCHANGED <<process, ran, jobOf, unsent, cacheVars>>
  BY DEF LeaseExpires, QueueAlone
<1>2. \A r \in runs : Later(r) \in Run /\ Later(r).job = r.job /\ (Later(r) = r \/ ~Later(r).leased)
  BY DEF QueueInv, QueueTypeOK, Run
<1>3. queueFaults' \in 0..MaxQueueFaults
  BY QueueAssumption DEF LeaseExpires, Fault, QueueInv, QueueTypeOK
<1> HIDE DEF Later
<1>4. QueueTypeOK'
  BY <1>1, <1>2, <1>3 DEF QueueInv, QueueTypeOK, MessageState
<1>5. \A k \in Jobs : message'[k] = "unsent" <=> message[k] = "unsent"
  BY <1>1 DEF QueueInv, QueueTypeOK
<1>6. \A r \in runs' : message'[r.job] # "unsent"
  BY <1>1, <1>2, <1>5 DEF QueueInv, QueueTypeOK, Run
<1> QED
  BY <1>1, <1>2, <1>4, <1>5, <1>6 DEF QueueInv

(* The message of a job that ended well is acknowledged, or not. *)
LEMMA EndJobStep ==
    ASSUME QueueInv, NEW r \in runs, EndJob(r)
    PROVE  /\ QueueInv' /\ UNCHANGED unsent /\ UNCHANGED jobOf
           /\ r.job \in Jobs /\ message[r.job] # "unsent" /\ jobOf[r.job] \in Indexed
           /\ ran' = ran \cup {r.job} /\ runs' \subseteq runs
           /\ message' = [message EXCEPT ![r.job] = "acked"] \/ message' = message
           /\ lag' = lag \ {jobOf[r.job]}
           /\ IndexCatchesUp(jobOf[r.job])
<1>1. /\ runs' = runs \ {r} /\ ran' = ran \cup {r.job}
      /\ message' = [message EXCEPT ![r.job] = "acked"] \/ message' = message
      /\ IndexCatchesUp(jobOf[r.job]) /\ lag' = lag \ {jobOf[r.job]}
      /\ UNCHANGED <<process, queueFaults, jobOf, unsent>>
  BY DEF EndJob, FinishRun, IndexCatchesUp
<1>2. r.job \in Jobs /\ message[r.job] # "unsent" /\ jobOf[r.job] \in Indexed
  BY DEF QueueInv, QueueTypeOK, Run
<1>3. QueueTypeOK'
  BY <1>1, <1>2 DEF QueueInv, QueueTypeOK, MessageState
<1>4. \A k \in Jobs : message'[k] = "unsent" <=> message[k] = "unsent"
  BY <1>1, <1>2 DEF QueueInv, QueueTypeOK
<1>5. \A k \in runs' : message'[k.job] # "unsent"
  BY <1>1, <1>4 DEF QueueInv, QueueTypeOK, Run
<1> QED
  BY <1>1, <1>2, <1>3, <1>4, <1>5 DEF QueueInv

(* The source of a change is no "none". *)
LEMMA SourcesAreNamed == "none" \notin Indexed
BY CacheAssumption DEF Indexed, Source

(* An indexed change adds one unused job for its source. *)
LEMMA ChangeAndUpdateStep ==
    ASSUME QueueInv, NEW rule \in Rules, NEW key \in KeysOf(rule), ChangeAndUpdate(rule, key)
    PROVE  /\ QueueInv' /\ UNCHANGED <<unsent, ran, runs>>
           /\ \E j \in Jobs : /\ message[j] = "unsent"
                              /\ message' = [message EXCEPT ![j] = "waiting"]
                              /\ jobOf' = [jobOf EXCEPT ![j] = SourceOf(rule, key)]
<1>1. /\ SourceOf(rule, key) \in Indexed
      /\ UNCHANGED <<process, runs, ran, queueFaults, unsent>>
  BY DEF ChangeAndUpdate, AddJob
<1>2. PICK j \in Jobs : /\ message[j] = "unsent"
                        /\ message' = [message EXCEPT ![j] = "waiting"]
                        /\ jobOf' = [jobOf EXCEPT ![j] = SourceOf(rule, key)]
  BY DEF ChangeAndUpdate, AddJob
<1>3. QueueTypeOK' /\ jobOf' \in [Jobs -> Indexed \cup {"none"}]
  BY <1>1, <1>2 DEF QueueInv, QueueTypeOK, MessageState
<1>4. \A k \in Jobs : message'[k] = "unsent" <=> jobOf'[k] = "none"
  BY <1>1, <1>2, SourcesAreNamed DEF QueueInv, QueueTypeOK
<1>5. \A r \in runs' : message'[r.job] # "unsent"
  BY <1>1, <1>2 DEF QueueInv, QueueTypeOK, Run
<1> QED
  BY <1>1, <1>2, <1>3, <1>4, <1>5 DEF QueueInv

(* A change whose job is not added leaves its source among the unsent. *)
LEMMA ChangeWithoutJobStep ==
    ASSUME QueueInv, NEW rule \in Rules, NEW key \in KeysOf(rule), ChangeWithoutJob(rule, key)
    PROVE  /\ QueueInv' /\ UNCHANGED <<message, ran, runs, jobOf>>
           /\ unsent' = unsent \cup ({SourceOf(rule, key)} \cap Indexed)
           /\ lag' = lag \cup ({SourceOf(rule, key)} \cap Indexed)
<1>1. /\ UNCHANGED <<message, process, runs, ran, jobOf>>
      /\ unsent' = unsent \cup ({SourceOf(rule, key)} \cap Indexed)
      /\ lag' = lag \cup ({SourceOf(rule, key)} \cap Indexed)
  BY DEF ChangeWithoutJob, ChangeCatalog
<1>2. queueFaults' \in 0..MaxQueueFaults
  BY QueueAssumption DEF ChangeWithoutJob, Fault, QueueInv, QueueTypeOK
<1> QED
  BY <1>1, <1>2 DEF QueueInv, QueueTypeOK

-----------------------------------------------------------------------------
(* The invariants *)

(* The invariant of the queue holds at the start. *)
LEMMA QueueInvInit == Init => QueueInv
BY QueueAssumption DEF Init, QueueInv, QueueTypeOK, MessageState, Strategy, NotRunning,
   OneListener

(* The invariant of the queue is kept by every step. *)
LEMMA QueueInvStep == QueueInv /\ [Next]_vars => QueueInv'
<1> SUFFICES ASSUME QueueInv, [Next]_vars PROVE QueueInv'
  OBVIOUS
<1>1. CASE CacheStep \/ UNCHANGED vars
  BY <1>1 DEF CacheStep, vars, queueVars, QueueInv, QueueTypeOK
<1> QED
  BY <1>1, NextCases, ChangeAndUpdateStep, ChangeWithoutJobStep, EndJobStep, StrategiesStep,
     DeliverStep, FailRunStep, LeaseExpiresStep

(* What the composition does to the cache is a step of the cache's own     *)
(* specification: so its invariant holds here too.                         *)
LEMMA CacheInvKept == QueueInv /\ CacheInv /\ [Next]_vars => CacheInv'
<1> SUFFICES ASSUME QueueInv, CacheInv, [Next]_vars PROVE [CacheNext]_cacheVars
  BY CacheInvStep
<1>1. ASSUME NEW rule \in Rules, NEW key \in KeysOf(rule),
             ChangeAndUpdate(rule, key) \/ ChangeWithoutJob(rule, key)
      PROVE  CacheNext
  BY <1>1 DEF ChangeAndUpdate, ChangeWithoutJob, CacheNext
<1>2. ASSUME NEW r \in runs, EndJob(r) PROVE CacheNext
  BY <1>2, EndJobStep DEF CacheNext
<1>3. CASE CacheStep
  BY <1>3 DEF CacheStep, CacheNext
<1>4. CASE UNCHANGED vars
  BY <1>4 DEF vars
<1> QED
  BY <1>1, <1>2, <1>3, <1>4, NextCases, StrategiesStep, DeliverStep, FailRunStep,
     LeaseExpiresStep

(* Only sources the index reads can lack a job. *)
LEMMA UnsentTyped == unsent \subseteq Indexed /\ [Next]_vars => unsent' \subseteq Indexed
BY DEF Next, vars, ChangeAndUpdate, ChangeWithoutJob, EndJob, QueueAlone, CacheAlone

(* The invariants of queue and cache hold in every reachable state. *)
LEMMA Invariants == Spec => [](QueueInv /\ CacheInv /\ unsent \subseteq Indexed)
<1>1. Init => QueueInv /\ CacheInv /\ unsent \subseteq Indexed
  BY QueueInvInit, CacheInvInit DEF Init
<1>2. QueueInv /\ CacheInv /\ unsent \subseteq Indexed /\ [Next]_vars
          => (QueueInv /\ CacheInv /\ unsent \subseteq Indexed)'
  BY QueueInvStep, CacheInvKept, UnsentTyped
<1> QED
  BY <1>1, <1>2, PTL DEF Spec

(* Every variable stays in its type, whatever processes do in between.     *)
THEOREM TypeInvariant == Spec => []TypeOK
<1>1. QueueInv /\ CacheInv /\ unsent \subseteq Indexed => TypeOK
  BY DEF QueueInv, CacheInv, TypeOK
<1> QED
  BY <1>1, Invariants, PTL

(* In the composition, too, no stale copy escapes the purge rules: a job   *)
(* that updates the index meanwhile takes nothing away that a purge needs. *)
THEOREM SearchIsPurged == Spec => []StaleIsOwed
<1>1. QueueInv /\ CacheInv /\ unsent \subseteq Indexed => StaleIsOwed
  BY CacheInvCovers
<1> QED
  BY <1>1, Invariants, PTL

(* What the index lags behind in has a job that will be run, for every     *)
(* number of processes that stop, crash or lose their leases.              *)
THEOREM IndexNeverForgets == Spec => []IndexIsOwed
<1>1. Init => IndexIsOwed
  BY DEF Init, CacheInit, IndexIsOwed
<1>2. QueueInv /\ IndexIsOwed /\ [Next]_vars => IndexIsOwed'
  <2> SUFFICES ASSUME QueueInv, IndexIsOwed, [Next]_vars,
                      NEW source \in lag' \ unsent'
               PROVE  \E j \in Jobs : jobOf'[j] = source /\ message'[j] \in {"waiting", "leased"}
    BY DEF IndexIsOwed
  <2> DEFINE Owed == \E j \in Jobs : jobOf[j] = source /\ message[j] \in {"waiting", "leased"}
  <2>1. source \in lag \ unsent => Owed
    BY DEF IndexIsOwed
  <2>2. ASSUME NEW rule \in Rules, NEW key \in KeysOf(rule), ChangeAndUpdate(rule, key)
        PROVE  \E j \in Jobs : jobOf'[j] = source /\ message'[j] \in {"waiting", "leased"}
    <3>1. PICK j \in Jobs : /\ message[j] = "unsent"
                            /\ message' = [message EXCEPT ![j] = "waiting"]
                            /\ jobOf' = [jobOf EXCEPT ![j] = SourceOf(rule, key)]
      BY <2>2, ChangeAndUpdateStep
    <3>2. lag' \subseteq lag \cup {SourceOf(rule, key)} /\ unsent' = unsent
      BY <2>2 DEF ChangeAndUpdate, ChangeCatalog
    <3>3. CASE source = SourceOf(rule, key)
      BY <3>1, <3>3 DEF QueueInv, QueueTypeOK
    <3>4. CASE source # SourceOf(rule, key)
      <4>1. PICK k \in Jobs : jobOf[k] = source /\ message[k] \in {"waiting", "leased"}
        BY <2>1, <3>2, <3>4
      <4>2. k # j
        BY <3>1, <4>1
      <4> QED
        BY <3>1, <4>1, <4>2 DEF QueueInv, QueueTypeOK
    <3> QED
      BY <3>3, <3>4
  <2>3. ASSUME NEW r \in runs, EndJob(r)
        PROVE  \E j \in Jobs : jobOf'[j] = source /\ message'[j] \in {"waiting", "leased"}
    <3>1. source \in lag \ unsent /\ source # jobOf[r.job]
      BY <2>3, EndJobStep
    <3>2. PICK k \in Jobs : jobOf[k] = source /\ message[k] \in {"waiting", "leased"}
      BY <2>1, <3>1
    <3>3. k # r.job
      BY <3>1, <3>2
    <3>4. /\ jobOf' = jobOf
          /\ message' = [message EXCEPT ![r.job] = "acked"] \/ message' = message
      BY <2>3, EndJobStep
    <3> QED
      BY <3>2, <3>3, <3>4 DEF QueueInv, QueueTypeOK
  <2>4. CASE \/ StrategyStep \/ CacheStep \/ UNCHANGED vars
             \/ \E rule \in Rules : \E key \in KeysOf(rule) : ChangeWithoutJob(rule, key)
    <3>1. source \in lag \ unsent /\ UNCHANGED <<message, jobOf>>
      <4>1. CASE StrategyStep
        BY <4>1, StrategiesStep DEF cacheVars
      <4>2. CASE CacheStep
        BY <4>2 DEF CacheStep, queueVars, FetchPage, FillCache, ExpireCopy, CloseBuffer,
           TakePurge, LosePurge, StopServer
      <4>3. CASE UNCHANGED vars
        BY <4>3 DEF vars, queueVars, cacheVars
      <4>4. CASE \E rule \in Rules : \E key \in KeysOf(rule) : ChangeWithoutJob(rule, key)
        BY <4>4, ChangeWithoutJobStep
      <4> QED
        BY <2>4, <4>1, <4>2, <4>3, <4>4
    <3> QED
      BY <2>1, <3>1
  <2>5. ASSUME NEW p \in Processes, NEW j \in Jobs, Deliver(p, j) /\ QueueAlone
        PROVE  \E k \in Jobs : jobOf'[k] = source /\ message'[k] \in {"waiting", "leased"}
    <3>1. /\ UNCHANGED <<jobOf, unsent, cacheVars>>
          /\ message' = [message EXCEPT ![j] = "leased"]
      BY <2>5, DeliverStep
    <3> QED
      BY <2>1, <3>1 DEF cacheVars, QueueInv, QueueTypeOK
  <2>6. ASSUME NEW r \in runs, FailRun(r) /\ QueueAlone
        PROVE  \E k \in Jobs : jobOf'[k] = source /\ message'[k] \in {"waiting", "leased"}
    BY <2>1, <2>6, FailRunStep DEF cacheVars
  <2>7. ASSUME NEW j \in Jobs, LeaseExpires(j) /\ QueueAlone
        PROVE  \E k \in Jobs : jobOf'[k] = source /\ message'[k] \in {"waiting", "leased"}
    <3>1. /\ UNCHANGED <<jobOf, unsent, cacheVars>>
          /\ message' = [message EXCEPT ![j] = "waiting"]
      BY <2>7, LeaseExpiresStep
    <3> QED
      BY <2>1, <3>1 DEF cacheVars, QueueInv, QueueTypeOK
  <2> QED
    BY <2>2, <2>3, <2>4, <2>5, <2>6, <2>7, NextCases
<1> QED
  BY <1>1, <1>2, Invariants, PTL DEF Spec

(* A message reaches a process only while its listener is registered: stop *)
(* is the last word, however start, init and stop came before.             *)
THEOREM StopSilences == Spec => StoppedIsSilent
<1>1. QueueInv /\ [Next]_vars
          => [\A r \in runs' \ runs : r.leased => process[r.proc].registered]_vars
  <2> SUFFICES ASSUME QueueInv, [Next]_vars, NEW r \in runs' \ runs, r.leased
               PROVE  process[r.proc].registered
    OBVIOUS
  <2>1. CASE CacheStep \/ UNCHANGED vars
    BY <2>1 DEF CacheStep, vars, queueVars
  <2> QED
    BY <2>1, NextCases, ChangeAndUpdateStep, ChangeWithoutJobStep, EndJobStep, StrategiesStep,
       DeliverStep, FailRunStep, LeaseExpiresStep
<1> QED
  BY <1>1, Invariants, PTL DEF Spec, StoppedIsSilent

-----------------------------------------------------------------------------
(* The queue implements AtLeastOnce. *)

Added == {j \in Jobs : message[j] # "unsent"}
Gone == {j \in Jobs : message[j] = "acked"}

(* A step adds a job, ends a run of an added one, or touches no promise. *)
LEMMA QueueRefinesStep ==
    ASSUME QueueInv, [Next]_vars
    PROVE  \/ \E j \in Jobs : /\ j \notin Added /\ Added' = Added \cup {j}
                              /\ ran' = ran /\ Gone' = Gone
           \/ \E j \in Jobs : /\ j \in Added /\ ran' = ran \cup {j}
                              /\ Gone' \in {Gone, Gone \cup {j}} /\ Added' = Added
           \/ Added' = Added /\ ran' = ran /\ Gone' = Gone
<1>1. ASSUME NEW rule \in Rules, NEW key \in KeysOf(rule), ChangeAndUpdate(rule, key)
      PROVE  \E j \in Jobs : /\ j \notin Added /\ Added' = Added \cup {j}
                             /\ ran' = ran /\ Gone' = Gone
  <2>1. PICK j \in Jobs : /\ message[j] = "unsent"
                          /\ message' = [message EXCEPT ![j] = "waiting"]
                          /\ ran' = ran
    BY <1>1, ChangeAndUpdateStep
  <2> WITNESS j \in Jobs
  <2> QED
    BY <2>1 DEF QueueInv, QueueTypeOK, Added, Gone
<1>2. ASSUME NEW r \in runs, EndJob(r)
      PROVE  \E j \in Jobs : /\ j \in Added /\ ran' = ran \cup {j}
                             /\ Gone' \in {Gone, Gone \cup {j}} /\ Added' = Added
  <2>1. /\ r.job \in Jobs /\ message[r.job] # "unsent" /\ ran' = ran \cup {r.job}
        /\ message' = [message EXCEPT ![r.job] = "acked"] \/ message' = message
    BY <1>2, EndJobStep
  <2> SUFFICES /\ r.job \in Added /\ ran' = ran \cup {r.job}
               /\ Gone' \in {Gone, Gone \cup {r.job}} /\ Added' = Added
    BY <2>1
  <2>2. CASE message' = message
    BY <2>1, <2>2 DEF Added, Gone
  <2>3. CASE message' = [message EXCEPT ![r.job] = "acked"]
    <3>1. \A j \in Jobs : message'[j] = IF j = r.job THEN "acked" ELSE message[j]
      BY <2>3 DEF QueueInv, QueueTypeOK
    <3>2. Gone' = Gone \cup {r.job} /\ Added' = Added
      BY <2>1, <3>1 DEF Added, Gone
    <3> QED
      BY <2>1, <3>2 DEF Added
  <2> QED
    BY <2>1, <2>2, <2>3
<1>3. (/\ ran' = ran
       /\ \A j \in Jobs : /\ message'[j] = "unsent" <=> message[j] = "unsent"
                          /\ message'[j] = "acked" <=> message[j] = "acked")
      => Added' = Added /\ ran' = ran /\ Gone' = Gone
  <2> SUFFICES ASSUME \A j \in Jobs : message'[j] = "unsent" <=> message[j] = "unsent",
                      \A j \in Jobs : message'[j] = "acked" <=> message[j] = "acked"
               PROVE  Added' = Added /\ Gone' = Gone
    OBVIOUS
  <2>1. \A j : j \in Added' <=> j \in Added
    BY DEF Added
  <2>2. \A j : j \in Gone' <=> j \in Gone
    BY DEF Gone
  <2>3. Added' = {j \in Jobs : j \in Added'} /\ Added = {j \in Jobs : j \in Added}
        /\ Gone' = {j \in Jobs : j \in Gone'} /\ Gone = {j \in Jobs : j \in Gone}
    BY DEF Added, Gone
  <2> QED
    BY <2>1, <2>2, <2>3
<1>4. ASSUME NEW p \in Processes, NEW j \in Jobs, Deliver(p, j) /\ QueueAlone
      PROVE  Added' = Added /\ ran' = ran /\ Gone' = Gone
  <2>1. /\ ran' = ran /\ message[j] = "waiting"
        /\ message' = [message EXCEPT ![j] = "leased"]
    BY <1>4, DeliverStep
  <2> QED
    BY <1>3, <2>1 DEF QueueInv, QueueTypeOK
<1>5. ASSUME NEW r \in runs, FailRun(r) /\ QueueAlone
      PROVE  Added' = Added /\ ran' = ran /\ Gone' = Gone
  BY <1>3, <1>5, FailRunStep
<1>6. ASSUME NEW j \in Jobs, LeaseExpires(j) /\ QueueAlone
      PROVE  Added' = Added /\ ran' = ran /\ Gone' = Gone
  <2>1. /\ ran' = ran /\ message[j] = "leased"
        /\ message' = [message EXCEPT ![j] = "waiting"]
    BY <1>6, LeaseExpiresStep
  <2> QED
    BY <1>3, <2>1 DEF QueueInv, QueueTypeOK
<1>7. CASE CacheStep \/ UNCHANGED vars
  BY <1>7, <1>3 DEF CacheStep, vars, queueVars
<1> QED
  BY <1>1, <1>2, <1>3, <1>4, <1>5, <1>6, <1>7, NextCases, ChangeWithoutJobStep, StrategiesStep

(* A job that was added leaves the queue only by a run of it that ended:   *)
(* the queue of the plugin, over leases that expire, processes that crash  *)
(* and acknowledgements that are lost, is a queue that delivers at least   *)
(* once.                                                                   *)
THEOREM QueueRefines == Spec => DeliversAtLeastOnce
<1>1. Init => Queue!Init
  BY DEF Init, Queue!Init
<1>2. QueueInv /\ [Next]_vars => [Queue!Next]_<<Added, ran, Gone>>
  BY QueueRefinesStep DEF Queue!Next, Queue!Add, Queue!Run, Added, Gone
<1>3. QueueInv /\ [Next]_vars
          => [Queue!Next]_<<{j \in Jobs : message[j] # "unsent"}, ran,
                            {j \in Jobs : message[j] = "acked"}>>
  BY <1>2 DEF Added, Gone
<1> QED
  BY <1>1, <1>3, Invariants, PTL DEF Spec, DeliversAtLeastOnce, Queue!Spec
=============================================================================
