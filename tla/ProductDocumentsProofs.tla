------------------------ MODULE ProductDocumentsProofs ----------------------
(***************************************************************************)
(* Theorems about ProductDocuments, for every set of variants, channels    *)
(* and prices and every size of a bulk request: with one worker, as        *)
(* Vendure runs jobs, the index has the documents the catalog asks for     *)
(* when the last job is done.                                              *)
(***************************************************************************)
EXTENDS ProductDocuments, FiniteSetTheorems, SequenceTheorems, TLAPS

(* A bulk request. *)
Request == UNION {[ids -> Doc] : ids \in SUBSET Id}

WorkerRecord ==
    [pc : {"idle", "clearing", "product", "variants", "writing"}, job : Job \cup {<<>>},
     seen : Product \cup {<<>>}, requests : Seq(Request)]

(* What a worker holds fits what it is at. *)
WorkerOK(x) ==
    /\ x \in WorkerRecord
    /\ IF x.pc = "idle" THEN x = Idle
       ELSE /\ x.job \in Job
            /\ x.pc = "variants" => x.seen \in Product

(* Types, a little more closely than TypeOK says them. *)
Typed ==
    /\ product \in Product
    /\ variant \in [Variants -> Variant]
    /\ docs \in [Id -> Doc]
    /\ queue \in Seq(Job)
    /\ worker \in [Workers -> WorkerRecord]
    /\ \A w \in Workers : WorkerOK(worker[w])
    /\ harmed \subseteq Workers
    /\ edits \in 0..MaxEdits
    /\ failures \in 0..MaxFailures

(* A document that is there, now or after a request, is one the next job   *)
(* would delete.                                                           *)
Findable(id, d) == d # NoDoc => id[2] \in Known \cup {"product"}

DocsAreFindable ==
    /\ \A id \in Id : Findable(id, docs[id])
    /\ \A w \in Workers : \A r \in DOMAIN worker[w].requests :
           \A id \in DOMAIN worker[w].requests[r] : Findable(id, worker[w].requests[r][id])

(* A job that only deletes is followed by one that writes. *)
UpdateComesLast ==
    /\ queue # <<>> => queue[Len(queue)].type = "update"
    /\ \A w \in Workers :
           worker[w].pc = "clearing" /\ worker[w].job.type = "delete" => queue # <<>>

(* The requests left to send make the document under each id what it is    *)
(* to be.                                                                  *)
Lead(ds, requests, target) ==
    /\ \A r \in DOMAIN requests : \A id \in DOMAIN requests[r] : requests[r][id] = target[id]
    /\ \A id \in Id : ds[id] = target[id]
                      \/ \E r \in DOMAIN requests : id \in DOMAIN requests[r]

(* What a worker holds, and how far the last job has come. *)
Progress(x, ds, p, vs) ==
    /\ x.pc = "idle" => ds = View(p, vs)
    /\ x.pc = "clearing" => Lead(ds, x.requests, [id \in Id |-> NoDoc])
    /\ x.pc \in {"product", "variants"} => ds = [id \in Id |-> NoDoc]
    /\ x.pc = "variants" => x.seen = p
    /\ x.pc = "writing" => Lead(ds, x.requests, View(p, vs))

OnItsWay ==
    queue = <<>> /\ harmed = {} =>
        \A w \in Workers : Progress(worker[w], docs, product, variant)

(* The inductive invariant, with one worker. *)
DocsInv == Typed /\ DocsAreFindable /\ UpdateComesLast /\ OnItsWay

-----------------------------------------------------------------------------
(* Prices *)

(* Among sets of parts of a finite set there is one without a smaller one  *)
(* among them.                                                             *)
LEMMA SmallestSubset ==
    ASSUME NEW S, IsFiniteSet(S), NEW Bad, Bad # {}, \A T \in Bad : T \subseteq S
    PROVE  \E T \in Bad : \A U \in Bad : U \subseteq T => U = T
<1>1. Bad \subseteq FiniteSubsetsOf(S)
  BY FS_Subset DEF FiniteSubsetsOf
<1>2. PICK T \in Bad : \A U \in Bad : <<U, T>> \notin StrictSubsetOrdering(S)
  BY <1>1, WFMin, FS_StrictSubsetOrderingWellFounded
<1>3. \A U \in Bad : U \subseteq T => U = T
  BY <1>2 DEF StrictSubsetOrdering
<1> QED
  BY <1>3

(* A finite set of prices has a least and a greatest one. *)
LEMMA Extremes ==
    ASSUME NEW S \in SUBSET Nat, IsFiniteSet(S), S # {}
    PROVE  \E low, high \in S : \A x \in S : low <= x /\ x <= high
<1> DEFINE Good(T) == \E low, high \in T : \A x \in T : low <= x /\ x <= high
           Bad == {T \in SUBSET S : T # {} /\ ~Good(T)}
<1>1. SUFFICES ASSUME Bad # {} PROVE FALSE
  BY <1>1
<1>2. PICK T \in Bad : \A U \in Bad : U \subseteq T => U = T
  <2>1. \A T \in Bad : T \subseteq S
    OBVIOUS
  <2> HIDE DEF Good, Bad
  <2> QED
    BY <1>1, <2>1, SmallestSubset
<1>3. PICK x \in T : TRUE
  OBVIOUS
<1>4. CASE T = {x}
  <2>1. Good(T)
    BY <1>4
  <2> QED
    BY <2>1
<1>5. CASE T # {x}
  <2>1. T \ {x} # {} /\ T \ {x} \in SUBSET S
    BY <1>3, <1>5
  <2>2. Good(T \ {x})
    <3> HIDE DEF Good
    <3> QED
      BY <1>2, <1>3, <2>1
  <2>3. PICK low, high \in T \ {x} : \A y \in T \ {x} : low <= y /\ y <= high
    BY <2>2
  <2>4. PICK l \in T : l <= x /\ l <= low
    BY <2>3
  <2>5. PICK h \in T : h >= x /\ h >= high
    BY <2>3
  <2>6. \A y \in T : l <= y /\ y <= h
    <3>1. T \subseteq Nat
      OBVIOUS
    <3> HIDE DEF Bad
    <3> QED
      BY <2>3, <2>4, <2>5, <3>1
  <2> QED
    BY <2>6
<1> QED
  BY <1>4, <1>5

(* The ends of a range of prices. *)
LEMMA PriceRange ==
    ASSUME NEW p, NEW vs \in [Variants -> Variant], NEW c, NEW v \in InChannel(vs, c)
    PROVE  LET d == VariantDoc(p, vs, c, v)
           IN  /\ d.min \in PricesIn(vs, c) /\ \A q \in PricesIn(vs, c) : d.min <= q
               /\ d.max \in PricesIn(vs, c) /\ \A q \in PricesIn(vs, c) : q <= d.max
<1> DEFINE S == PricesIn(vs, c)
<1>1. S \in SUBSET Nat /\ S # {}
  <2>1. \A u \in InChannel(vs, c) : vs[u].price \in Prices
    BY DEF InChannel, Variant
  <2> QED
    BY <2>1, ConstantsAssumption DEF PricesIn
<1>2. IsFiniteSet(S)
  <2>1. IsFiniteSet(InChannel(vs, c))
    BY FS_Subset, ConstantsAssumption DEF InChannel
  <2> DEFINE f == [u \in InChannel(vs, c) |-> vs[u].price]
  <2>2. f \in Surjection(InChannel(vs, c), S)
    BY DEF Surjection, PricesIn
  <2> QED
    BY <2>1, <2>2, FS_Surjection
<1> HIDE DEF S
<1>3. PICK low, high \in S : \A x \in S : low <= x /\ x <= high
  BY <1>1, <1>2, Extremes
<1> DEFINE least == CHOOSE m \in S : \A q \in S : m <= q
           most == CHOOSE m \in S : \A q \in S : m >= q
<1>4. least \in S /\ \A q \in S : least <= q
  BY <1>3
<1>5. most \in S /\ \A q \in S : most >= q
  <2>1. \A q \in S : high >= q
    BY <1>1, <1>3
  <2> QED
    BY <2>1
<1>6. \A q \in S : q <= most
  BY <1>1, <1>5
<1>7. VariantDoc(p, vs, c, v).min = least /\ VariantDoc(p, vs, c, v).max = most
  BY DEF VariantDoc, S
<1> HIDE DEF least, most
<1> QED
  BY <1>4, <1>5, <1>6, <1>7 DEF S

-----------------------------------------------------------------------------
(* Documents *)

(* A document is typed; under an id that has none it is NoDoc; and it is   *)
(* one of a live variant, or the synthetic one.                            *)
LEMMA DocumentFacts ==
    ASSUME NEW p \in Product, NEW vs \in [Variants -> Variant], NEW id \in Id
    PROVE  /\ Document(p, vs, id) \in Doc
           /\ ~Document(p, vs, id).there => Document(p, vs, id) = NoDoc
           /\ Document(p, vs, id) # NoDoc =>
                  id[2] = "product" \/ (id[2] \in Variants /\ vs[id[2]].state = "live")
<1> DEFINE c == id[1]
           v == id[2]
<1>1. NoDoc \in Doc /\ SyntheticDoc \in Doc /\ ~NoDoc.there /\ SyntheticDoc.there
  BY DEF NoDoc, SyntheticDoc, Doc
<1>2. CASE v \in InChannel(vs, c)
  <2>1. PricesIn(vs, c) \subseteq Prices /\ vs[v].price \in Prices /\ vs[v].enabled \in BOOLEAN
    BY <1>2 DEF PricesIn, InChannel, Variant
  <2>2. /\ VariantDoc(p, vs, c, v).min \in Prices
        /\ VariantDoc(p, vs, c, v).max \in Prices
    BY <1>2, <2>1, PriceRange
  <2>3. VariantDoc(p, vs, c, v) \in Doc /\ VariantDoc(p, vs, c, v).there
    BY <2>1, <2>2 DEF VariantDoc, Doc, Product
  <2>4. v \in Variants /\ vs[v].state = "live"
    BY <1>2 DEF InChannel
  <2>5. Document(p, vs, id) \in {NoDoc, VariantDoc(p, vs, c, v)}
    BY <1>2 DEF Document
  <2> QED
    BY <1>1, <2>3, <2>4, <2>5
<1>3. CASE v \notin InChannel(vs, c)
  <2>1. /\ Document(p, vs, id) \in {NoDoc, SyntheticDoc}
        /\ Document(p, vs, id) # NoDoc => v = "product"
    BY <1>3 DEF Document
  <2> QED
    BY <1>1, <2>1
<1> QED
  BY <1>2, <1>3

(* A product has finitely many documents.                                  *)
LEMMA IdIsFinite == IsFiniteSet(Id)
<1>1. IsFiniteSet(Variants \cup {"product"})
  BY FS_AddElement, ConstantsAssumption
<1> QED
  BY <1>1, FS_Product, ConstantsAssumption DEF Id

-----------------------------------------------------------------------------
(* Bulk requests *)

(* Every id has its place in the order. *)
LEMMA PlaceIsNat == \A id \in Id : Place[id] \in Nat
<1> DEFINE n == Cardinality(Id)
           order == SetToSeq(Id)
<1>1. n \in Nat /\ ExistsBijection(1..n, Id)
  BY IdIsFinite, FS_CardinalityType
<1>2. PICK b \in [1..n -> Id] : IsInjective(b)
  BY <1>1 DEF ExistsBijection, Bijection, Injection
<1>3. order \in [1..n -> Id] /\ IsInjective(order)
  BY <1>2 DEF SetToSeq
<1> HIDE DEF order
<1>4. order \in Injection(1..n, Id) /\ Cardinality(1..n) = n
  BY <1>1, <1>3, FS_Interval DEF Injection
<1>5. order \in Surjection(1..n, Id)
  BY <1>4, IdIsFinite, FS_Injection
<1>6. ASSUME NEW id \in Id PROVE (CHOOSE i \in DOMAIN order : order[i] = id) \in Nat
  <2>1. \E i \in DOMAIN order : order[i] = id
    BY <1>3, <1>5 DEF Surjection
  <2>2. (CHOOSE i \in DOMAIN order : order[i] = id) \in DOMAIN order
    BY <2>1
  <2> QED
    BY <1>1, <1>3, <2>2
<1> QED
  BY <1>6 DEF Place, order

(* The r-th of n things, from 0, in parts of the same size but the last. *)
LEMMA PartExists ==
    ASSUME NEW n \in Nat, NEW r \in Nat, r < n, NEW size \in Nat \ {0}
    PROVE  (r \div size) + 1 \in 1..((n + size - 1) \div size)
<1> DEFINE a == r \div size
           b == (n + size - 1) \div size
<1>1. a \in Nat /\ a * size <= r /\ r < a * size + size
  OBVIOUS
<1>2. b \in Nat /\ b * size <= n + size - 1 /\ n + size - 1 < b * size + size
  OBVIOUS
<1> HIDE DEF a, b
<1>3. b <= a => b * size <= a * size
  BY <1>1, <1>2
<1>4. a * size \in Nat /\ b * size \in Nat
  BY <1>1, <1>2
<1>5. a < b
  BY <1>1, <1>2, <1>3, <1>4
<1> QED
  BY <1>1, <1>2, <1>5 DEF a, b

(* The parts of a set of ids are parts of it, and each id is in one. *)
LEMMA ChunksFacts ==
    ASSUME NEW ids \in SUBSET Id, NEW size \in Nat \ {0}
    PROVE  LET chunks == Chunks(ids, size)
           IN  /\ chunks \in Seq(SUBSET ids)
               /\ \A id \in ids : \E i \in DOMAIN chunks : id \in chunks[i]
<1> DEFINE n == Cardinality(ids)
           earlier(id) == {j \in ids : Place[j] < Place[id]}
           part(id) == (Cardinality(earlier(id)) \div size) + 1
           last == (n + size - 1) \div size
           chunks == Chunks(ids, size)
<1>1. IsFiniteSet(ids) /\ n \in Nat
  BY IdIsFinite, FS_Subset, FS_CardinalityType
<1>2. last \in Nat
  BY <1>1
<1>3. chunks = [i \in 1..last |-> {id \in ids : part(id) = i}]
  BY DEF Chunks
<1>4. ASSUME NEW id \in ids PROVE part(id) \in 1..last
  <2>1. earlier(id) \subseteq ids /\ id \notin earlier(id)
    BY PlaceIsNat
  <2> DEFINE r == Cardinality(earlier(id))
  <2>2. r \in Nat /\ r < n
    <3>1. IsFiniteSet(earlier(id)) /\ r <= n /\ r # n
      BY <1>1, <2>1, FS_Subset
    <3> QED
      BY <1>1, <3>1, FS_CardinalityType
  <2> HIDE DEF r, n
  <2> QED
    BY <1>1, <2>2, PartExists DEF r
<1> HIDE DEF last, part
<1>5. chunks \in Seq(SUBSET ids)
  BY <1>2, <1>3
<1>6. \A id \in ids : \E i \in DOMAIN chunks : id \in chunks[i]
  BY <1>3, <1>4
<1> QED
  BY <1>5, <1>6

(* Requests that delete: what they make of the documents is NoDoc, and     *)
(* they reach each of the ids.                                             *)
LEMMA DeletesFacts ==
    ASSUME NEW ids \in SUBSET Id
    PROVE  LET qs == Deletes(ids)
           IN  /\ qs \in Seq(Request)
               /\ \A r \in DOMAIN qs : \A id \in DOMAIN qs[r] : qs[r][id] = NoDoc
               /\ \A id \in ids : \E r \in DOMAIN qs : id \in DOMAIN qs[r]
<1> DEFINE chunks == Chunks(ids, BulkLimit)
<1>1. /\ chunks \in Seq(SUBSET ids)
      /\ \A id \in ids : \E i \in DOMAIN chunks : id \in chunks[i]
  BY ChunksFacts, ConstantsAssumption
<1>2. Deletes(ids) = [i \in DOMAIN chunks |-> [id \in chunks[i] |-> NoDoc]]
  BY DEF Deletes
<1> HIDE DEF chunks
<1>3. NoDoc \in Doc
  BY DEF NoDoc, Doc
<1>4. ASSUME NEW i \in DOMAIN chunks PROVE [id \in chunks[i] |-> NoDoc] \in Request
  <2>1. chunks[i] \in SUBSET Id
    BY <1>1
  <2>2. [id \in chunks[i] |-> NoDoc] \in [chunks[i] -> Doc]
    BY <1>3
  <2> QED
    BY <2>1, <2>2 DEF Request
<1>5. DOMAIN chunks = 1..Len(chunks) /\ Len(chunks) \in Nat
  BY <1>1
<1>6. Deletes(ids) \in Seq(Request)
  BY <1>2, <1>4, <1>5
<1> QED
  BY <1>1, <1>2, <1>6

(* Requests that write: each id gets the document it should have, and is   *)
(* reached if it should have one.                                          *)
LEMMA UpsertsFacts ==
    ASSUME NEW p \in Product, NEW vs \in [Variants -> Variant]
    PROVE  LET qs == Upserts(p, vs)
           IN  /\ qs \in Seq(Request)
               /\ \A r \in DOMAIN qs : \A id \in DOMAIN qs[r] :
                      id \in Id /\ qs[r][id] = Document(p, vs, id)
               /\ \A id \in Id : Document(p, vs, id) # NoDoc =>
                                     \E r \in DOMAIN qs : id \in DOMAIN qs[r]
<1> DEFINE ids == {id \in Id : Document(p, vs, id).there}
           half == BulkLimit \div 2
           chunks == Chunks(ids, half)
<1>0. half \in Nat \ {0}
  BY ConstantsAssumption
<1>1. /\ chunks \in Seq(SUBSET ids)
      /\ \A id \in ids : \E i \in DOMAIN chunks : id \in chunks[i]
  <2> HIDE DEF half
  <2> QED
    BY <1>0, ChunksFacts
<1>2. Upserts(p, vs) = [i \in DOMAIN chunks |-> [id \in chunks[i] |-> Document(p, vs, id)]]
  BY DEF Upserts
<1> HIDE DEF chunks
<1>4. ASSUME NEW i \in DOMAIN chunks
      PROVE  [id \in chunks[i] |-> Document(p, vs, id)] \in Request
  <2>1. chunks[i] \in SUBSET Id
    BY <1>1
  <2>2. [id \in chunks[i] |-> Document(p, vs, id)] \in [chunks[i] -> Doc]
    BY <2>1, DocumentFacts
  <2> QED
    BY <2>1, <2>2 DEF Request
<1>5. DOMAIN chunks = 1..Len(chunks) /\ Len(chunks) \in Nat
  BY <1>1
<1>6. Upserts(p, vs) \in Seq(Request)
  BY <1>2, <1>4, <1>5
<1>7. \A id \in Id : Document(p, vs, id) # NoDoc => id \in ids
  BY DocumentFacts
<1>8. \A i \in DOMAIN chunks : chunks[i] \subseteq Id
  BY <1>1
<1> HIDE DEF ids
<1> QED
  BY <1>1, <1>2, <1>6, <1>7, <1>8

(* What is deleted at the start of a job. *)
LEMMA ClearFacts ==
    ASSUME NEW known \in SUBSET Variants
    PROVE  LET qs == Deletes(Channels \X {"product"}) \o Deletes(Channels \X known)
           IN  /\ qs \in Seq(Request)
               /\ \A r \in DOMAIN qs : \A id \in DOMAIN qs[r] : qs[r][id] = NoDoc
               /\ \A id \in Id : id[2] \in known \cup {"product"} =>
                                     \E r \in DOMAIN qs : id \in DOMAIN qs[r]
<1> DEFINE left == Channels \X {"product"}
           right == Channels \X known
           a == Deletes(left)
           b == Deletes(right)
<1>1. left \in SUBSET Id /\ right \in SUBSET Id
  BY DEF Id
<1>2. \A id \in Id : id[2] \in known \cup {"product"} => id \in left \/ id \in right
  BY DEF Id
<1> HIDE DEF left, right
<1>3. /\ a \in Seq(Request)
      /\ \A r \in DOMAIN a : \A id \in DOMAIN a[r] : a[r][id] = NoDoc
      /\ \A id \in left : \E r \in DOMAIN a : id \in DOMAIN a[r]
  BY <1>1, DeletesFacts
<1>4. /\ b \in Seq(Request)
      /\ \A r \in DOMAIN b : \A id \in DOMAIN b[r] : b[r][id] = NoDoc
      /\ \A id \in right : \E r \in DOMAIN b : id \in DOMAIN b[r]
  BY <1>1, DeletesFacts
<1> HIDE DEF a, b
<1>5. /\ a \o b \in Seq(Request) /\ Len(a \o b) = Len(a) + Len(b)
      /\ \A r \in 1..Len(a) + Len(b) :
             (a \o b)[r] = IF r <= Len(a) THEN a[r] ELSE b[r - Len(a)]
  BY <1>3, <1>4, ConcatProperties
<1>6. ASSUME NEW r \in DOMAIN (a \o b)
      PROVE  \A id \in DOMAIN (a \o b)[r] : (a \o b)[r][id] = NoDoc
  BY <1>3, <1>4, <1>5
<1>7. ASSUME NEW id \in Id, id[2] \in known \cup {"product"}
      PROVE  \E r \in DOMAIN (a \o b) : id \in DOMAIN (a \o b)[r]
  <2>1. CASE id \in left
    <3>1. PICK r \in DOMAIN a : id \in DOMAIN a[r]
      BY <1>3, <2>1
    <3>2. r \in DOMAIN (a \o b) /\ (a \o b)[r] = a[r]
      BY <1>3, <1>4, <1>5
    <3> QED
      BY <3>1, <3>2
  <2>2. CASE id \in right
    <3>1. PICK r \in DOMAIN b : id \in DOMAIN b[r]
      BY <1>4, <2>2
    <3>2. r + Len(a) \in DOMAIN (a \o b) /\ (a \o b)[r + Len(a)] = b[r]
      BY <1>3, <1>4, <1>5
    <3> QED
      BY <3>1, <3>2
  <2> QED
    BY <1>2, <1>7, <2>1, <2>2
<1> QED
  BY <1>5, <1>6, <1>7 DEF a, b, left, right

(* The next of the requests is carried out. *)
LEMMA SendLeads ==
    ASSUME NEW qs \in Seq(Request), NEW target, qs # <<>>, Lead(docs, qs, target),
           docs' = [id \in Id |-> IF id \in DOMAIN Head(qs) THEN Head(qs)[id] ELSE docs[id]]
    PROVE  /\ Lead(docs', Tail(qs), target)
           /\ Len(qs) <= 1 => \A id \in Id : docs'[id] = target[id]
<1>1. /\ Head(qs) = qs[1] /\ 1 \in DOMAIN qs
      /\ Tail(qs) \in Seq(Request) /\ Len(Tail(qs)) = Len(qs) - 1
      /\ \A r \in DOMAIN Tail(qs) : r + 1 \in DOMAIN qs /\ Tail(qs)[r] = qs[r + 1]
  OBVIOUS
<1>2. \A r \in DOMAIN qs : r = 1 \/ (r - 1 \in DOMAIN Tail(qs) /\ Tail(qs)[r - 1] = qs[r])
  BY <1>1
<1>3. \A id \in Id : docs'[id] = target[id] \/ (docs'[id] = docs[id] /\ id \notin DOMAIN qs[1])
  BY <1>1 DEF Lead
<1>4. \A id \in Id : docs'[id] = target[id] \/ \E r \in DOMAIN Tail(qs) : id \in DOMAIN Tail(qs)[r]
  BY <1>2, <1>3 DEF Lead
<1>5. Len(qs) <= 1 => DOMAIN Tail(qs) = {}
  BY <1>1
<1>6. \A r \in DOMAIN Tail(qs) : \A id \in DOMAIN Tail(qs)[r] : Tail(qs)[r][id] = target[id]
  BY <1>1 DEF Lead
<1> QED
  BY <1>4, <1>5, <1>6 DEF Lead

-----------------------------------------------------------------------------
(* Changes to the catalog *)

(* A product stays one whatever of it is changed. *)
LEMMA ProductTyped ==
    ASSUME NEW x \in Product
    PROVE  /\ \A b \in BOOLEAN : [x EXCEPT !.enabled = b] \in Product
           /\ \A b \in BOOLEAN : [x EXCEPT !.deleted = b] \in Product
           /\ \A cs \in SUBSET Channels : [x EXCEPT !.channels = cs] \in Product
BY DEF Product

(* What changes to the catalog have in common. *)
Edited ==
    /\ product' \in Product
    /\ variant' \in [Variants -> Variant]
    /\ \A v \in Variants : variant[v].state # "none" => variant'[v].state # "none"

(* The variant that is changed stays known, the others as they are. *)
LEMMA OneVariantEdited ==
    ASSUME Typed, NEW v \in Variants, NEW x \in Variant, x.state # "none",
           variant' = [variant EXCEPT ![v] = x], product' \in Product
    PROVE  Edited
<1>1. variant \in [Variants -> Variant]
  BY DEF Typed
<1> QED
  BY <1>1 DEF Edited

(* Every change is typed, forgets no variant and leaves an update to be    *)
(* done.                                                                   *)
LEMMA EditFacts ==
    ASSUME Typed, EditCatalog
    PROVE  /\ Edited
           /\ queue' \in Seq(Job) /\ queue' # <<>> /\ queue'[Len(queue')].type = "update"
           /\ edits' \in 0..MaxEdits
           /\ UNCHANGED <<docs, worker, harmed, failures>>
<1>1. /\ product \in Product /\ variant \in [Variants -> Variant] /\ queue \in Seq(Job)
      /\ product.channels \in SUBSET Channels
  BY DEF Typed, Product
<1>2. ASSUME NEW c \in Channels, Edit(c)
      PROVE  edits' \in 0..MaxEdits /\ UNCHANGED <<docs, worker, harmed, failures>>
  BY <1>2, ConstantsAssumption DEF Edit, Typed
<1>3. ASSUME NEW c \in Channels, queue' = Queued("update", c)
      PROVE  queue' \in Seq(Job) /\ queue' # <<>> /\ queue'[Len(queue')].type = "update"
  <2>1. [type |-> "update", channel |-> c] \in Job
    BY DEF Job
  <2> QED
    BY <1>1, <1>3, <2>1 DEF Queued
<1>4. ASSUME NEW c \in Channels, queue' = Append(Queued("delete", c), [type |-> "update", channel |-> c])
      PROVE  queue' \in Seq(Job) /\ queue' # <<>> /\ queue'[Len(queue')].type = "update"
  <2>1. [type |-> "update", channel |-> c] \in Job /\ [type |-> "delete", channel |-> c] \in Job
    BY DEF Job
  <2>2. Queued("delete", c) \in Seq(Job)
    BY <1>1, <2>1 DEF Queued
  <2> QED
    BY <1>4, <2>1, <2>2
<1>5. ASSUME NEW v \in Variants PROVE variant[v] \in Variant /\ variant[v].channels \in SUBSET Channels
                                      /\ variant[v].enabled \in BOOLEAN
  BY <1>1 DEF Variant
<1>6. ASSUME NEW cs \in SUBSET Channels, MoveAll(cs) PROVE Edited
  <2>1. product' \in Product
    BY <1>1, <1>6, ProductTyped DEF MoveAll
  <2>2. ASSUME NEW v \in Variants
        PROVE  variant'[v] \in Variant /\ variant'[v].state = variant[v].state
    <3>1. PICK x \in Variant : x = variant[v]
      BY <1>5
    <3>2. PICK ds \in SUBSET Channels : ds = (x.channels \cap cs) \cup (cs \ product.channels)
      BY <1>5, <3>1
    <3>3. PICK y : y = [x EXCEPT !.channels = ds]
      OBVIOUS
    <3>4. y \in Variant /\ y.state = x.state
      BY <3>3 DEF Variant
    <3>5. variant'[v] = IF x.state = "live" THEN y ELSE x
      BY <1>6, <3>1, <3>2, <3>3 DEF MoveAll
    <3> QED
      BY <3>1, <3>4, <3>5
  <2>3. variant' = [v \in Variants |-> variant'[v]]
    BY <1>6 DEF MoveAll
  <2> QED
    BY <2>1, <2>2, <2>3 DEF Edited
<1>7. ASSUME NEW c \in Channels, UpdateProduct(c) PROVE Edited /\ Edit(c) /\ queue' = Queued("update", c)
  BY <1>1, <1>7, ProductTyped DEF UpdateProduct, Edited, Product
<1>8. ASSUME NEW c \in Channels, DeleteProduct(c)
      PROVE  Edited /\ Edit(c) /\ queue' = Append(Queued("delete", c), [type |-> "update", channel |-> c])
  <2>1. product' \in Product
    BY <1>1, <1>8, ProductTyped DEF DeleteProduct
  <2>2. ASSUME NEW v \in Variants
        PROVE  variant'[v] \in Variant /\ (variant[v].state # "none" => variant'[v].state # "none")
    <3>1. PICK x \in Variant : x = variant[v]
      BY <1>5
    <3>2. PICK y : y = [x EXCEPT !.state = "deleted"]
      OBVIOUS
    <3>3. y \in Variant /\ y.state = "deleted"
      BY <3>2 DEF Variant
    <3>4. variant'[v] = IF x.state = "live" THEN y ELSE x
      BY <1>8, <3>1, <3>2 DEF DeleteProduct
    <3> QED
      BY <3>1, <3>3, <3>4
  <2>3. variant' = [v \in Variants |-> variant'[v]]
    BY <1>8 DEF DeleteProduct
  <2> QED
    BY <1>8, <2>1, <2>2, <2>3 DEF Edited, DeleteProduct
<1>9. ASSUME NEW c \in Channels, NEW d \in Channels,
             AssignProductToChannel(c, d) \/ RemoveProductFromChannel(c, d)
      PROVE  Edited /\ Edit(c) /\ queue' = Queued("update", c)
  BY <1>1, <1>6, <1>9 DEF AssignProductToChannel, RemoveProductFromChannel
<1>10. ASSUME NEW c \in Channels, NEW v \in Variants,
              CreateVariant(c, v) \/ UpdateVariant(c, v) \/ DeleteVariant(c, v)
       PROVE  Edited /\ Edit(c) /\ queue' = Queued("update", c)
  <2>1. PICK x \in Variant : x = variant[v]
    BY <1>5
  <2>2. CASE CreateVariant(c, v)
    <3>1. PICK cs \in SUBSET Channels : cs = {Default, c}
      BY ConstantsAssumption
    <3>2. PICK y : y = [x EXCEPT !.state = "live", !.channels = cs]
      OBVIOUS
    <3>3. y \in Variant /\ y.state = "live"
      BY <3>2 DEF Variant
    <3>4. variant' = [variant EXCEPT ![v] = y]
      BY <1>1, <2>1, <2>2, <3>1, <3>2 DEF CreateVariant
    <3> QED
      BY <1>1, <2>2, <3>3, <3>4, OneVariantEdited DEF CreateVariant
  <2>3. CASE UpdateVariant(c, v)
    <3>1. x.state = "live" /\ x.enabled \in BOOLEAN
      BY <2>1, <2>3, <1>5 DEF UpdateVariant, InChannel
    <3>2. \E b \in BOOLEAN, q \in Prices :
              \/ variant' = [variant EXCEPT ![v] = [x EXCEPT !.enabled = b]]
              \/ variant' = [variant EXCEPT ![v] = [x EXCEPT !.price = q]]
      <4>1. PICK b \in BOOLEAN : b = ~x.enabled
        OBVIOUS
      <4>2. x.price \in Prices
        BY DEF Variant
      <4> QED
        BY <1>1, <2>1, <2>3, <4>1, <4>2 DEF UpdateVariant
    <3>3. \E y \in Variant : y.state # "none" /\ variant' = [variant EXCEPT ![v] = y]
      <4>1. ASSUME NEW b \in BOOLEAN, variant' = [variant EXCEPT ![v] = [x EXCEPT !.enabled = b]]
            PROVE  <3>3
        <5>1. [x EXCEPT !.enabled = b] \in Variant /\ [x EXCEPT !.enabled = b].state = x.state
          BY DEF Variant
        <5>2. [x EXCEPT !.enabled = b].state # "none"
          BY <3>1, <5>1
        <5> QED
          BY <4>1, <5>1, <5>2, Zenon
      <4>2. ASSUME NEW q \in Prices, variant' = [variant EXCEPT ![v] = [x EXCEPT !.price = q]]
            PROVE  <3>3
        <5>1. [x EXCEPT !.price = q] \in Variant /\ [x EXCEPT !.price = q].state = x.state
          BY DEF Variant
        <5>2. [x EXCEPT !.price = q].state # "none"
          BY <3>1, <5>1
        <5> QED
          BY <4>2, <5>1, <5>2, Zenon
      <4> QED
        BY <3>2, <4>1, <4>2
    <3> QED
      BY <1>1, <2>3, <3>3, OneVariantEdited DEF UpdateVariant
  <2>4. CASE DeleteVariant(c, v)
    <3>1. PICK y : y = [x EXCEPT !.state = "deleted"]
      OBVIOUS
    <3>2. y \in Variant /\ y.state = "deleted"
      BY <3>1 DEF Variant
    <3>3. variant' = [variant EXCEPT ![v] = y]
      BY <1>1, <2>1, <2>4, <3>1 DEF DeleteVariant
    <3> QED
      BY <1>1, <2>4, <3>2, <3>3, OneVariantEdited DEF DeleteVariant
  <2> QED
    BY <1>10, <2>2, <2>3, <2>4
<1>11. ASSUME NEW c \in Channels, NEW v \in Variants, NEW d \in Channels,
              AssignVariantToChannel(c, v, d) \/ RemoveVariantFromChannel(c, v, d)
       PROVE  Edited /\ Edit(c) /\ queue' = Queued("update", c)
  <2>1. PICK x \in Variant : x = variant[v]
    BY <1>5
  <2>2. x.state = "live" /\ x.channels \in SUBSET Channels
    BY <1>5, <1>11, <2>1 DEF AssignVariantToChannel, RemoveVariantFromChannel, InChannel
  <2>3. PICK cs \in SUBSET Channels : variant' = [variant EXCEPT ![v] = [x EXCEPT !.channels = cs]]
    BY <1>1, <1>11, <2>1, <2>2 DEF AssignVariantToChannel, RemoveVariantFromChannel
  <2>4. PICK ds \in SUBSET Channels : product' = [product EXCEPT !.channels = ds]
    BY <1>1, <1>11 DEF AssignVariantToChannel, RemoveVariantFromChannel
  <2>5. PICK y : y = [x EXCEPT !.channels = cs]
    OBVIOUS
  <2>6. y \in Variant /\ y.state = x.state
    BY <2>5 DEF Variant
  <2>7. product' \in Product
    BY <1>1, <2>4, ProductTyped
  <2>8. variant' = [variant EXCEPT ![v] = y]
    BY <2>3, <2>5
  <2>9. Edited
    BY <2>2, <2>6, <2>7, <2>8, OneVariantEdited
  <2> QED
    BY <1>11, <2>9 DEF AssignVariantToChannel, RemoveVariantFromChannel
<1> QED
  BY <1>2, <1>3, <1>4, <1>7, <1>8, <1>9, <1>10, <1>11 DEF EditCatalog

(* A change to the catalog keeps the types, and what can be found.         *)
LEMMA EditStep ==
    ASSUME Typed, DocsAreFindable, EditCatalog
    PROVE  Typed' /\ DocsAreFindable'
<1>1. /\ Edited
      /\ queue' \in Seq(Job)
      /\ edits' \in 0..MaxEdits
      /\ UNCHANGED <<docs, worker, harmed, failures>>
  BY EditFacts
<1>2. Typed'
  BY <1>1 DEF Typed, Edited
<1>3. Known \subseteq Known'
  BY <1>1 DEF Known, Edited
<1>4. DocsAreFindable'
  BY <1>1, <1>3 DEF DocsAreFindable, Findable
<1> QED
  BY <1>2, <1>4

-----------------------------------------------------------------------------
(* The jobs: types, and what can be found *)

(* A worker that is done or goes on without requests. *)
LEMMA AfterClearFacts ==
    ASSUME NEW job \in Job
    PROVE  /\ WorkerOK(Idle) /\ Idle.pc = "idle" /\ Idle.requests = <<>>
           /\ WorkerOK(AfterClear(job)) /\ AfterClear(job).requests = <<>>
           /\ AfterClear(job).pc = IF job.type = "delete" THEN "idle" ELSE "product"
<1>1. <<>> \in Seq(Request) /\ <<>> \in Product \cup {<<>>} /\ <<>> \in Job \cup {<<>>}
  OBVIOUS
<1>2. WorkerOK(Idle) /\ Idle.pc = "idle" /\ Idle.requests = <<>>
  BY <1>1 DEF WorkerOK, WorkerRecord, Idle
<1>3. CASE job.type = "delete"
  BY <1>2, <1>3 DEF AfterClear
<1>4. CASE job.type # "delete"
  <2>1. AfterClear(job) = [pc |-> "product", job |-> job, seen |-> <<>>, requests |-> <<>>]
    BY <1>4 DEF AfterClear, Idle
  <2> QED
    BY <1>1, <1>2, <1>4, <2>1 DEF WorkerOK, WorkerRecord
<1> QED
  BY <1>3, <1>4

(* A worker becomes x. *)
LEMMA WorkerStep ==
    ASSUME Typed, DocsAreFindable, NEW w \in Workers, NEW x, WorkerOK(x),
           worker' = [worker EXCEPT ![w] = x], UNCHANGED <<product, variant, edits>>,
           docs' \in [Id -> Doc], queue' \in Seq(Job), harmed' \subseteq Workers,
           failures' \in 0..MaxFailures, \A id \in Id : Findable(id, docs'[id]),
           \A r \in DOMAIN x.requests : \A id \in DOMAIN x.requests[r] :
               Findable(id, x.requests[r][id])
    PROVE  Typed' /\ DocsAreFindable'
<1>1. worker \in [Workers -> WorkerRecord] /\ x \in WorkerRecord
  BY DEF Typed, WorkerOK
<1>2. worker' \in [Workers -> WorkerRecord] /\ \A v \in Workers : worker'[v] = IF v = w THEN x ELSE worker[v]
  BY <1>1
<1>3. \A v \in Workers : WorkerOK(worker'[v])
  BY <1>2 DEF Typed
<1>4. Known' = Known
  BY DEF Known
<1>5. \A id, d : Findable(id, d)' <=> Findable(id, d)
  BY <1>4 DEF Findable
<1>6. Typed'
  BY <1>2, <1>3 DEF Typed, WorkerOK
<1>7. DocsAreFindable'
  BY <1>2, <1>4 DEF DocsAreFindable, Findable
<1> QED
  BY <1>6, <1>7

(* A worker takes a job. *)
LEMMA ClearStep ==
    ASSUME Typed, DocsAreFindable, NEW w \in Workers, Clear(w)
    PROVE  Typed' /\ DocsAreFindable'
<1> DEFINE job == Head(queue)
           qs == Deletes(Channels \X {"product"}) \o Deletes(Channels \X Known)
           x == IF job.channel \notin product.channels THEN AfterClear(job)
                ELSE [Idle EXCEPT !.pc = "clearing", !.job = job, !.requests = qs]
<1>1. /\ queue # <<>> /\ queue' = Tail(queue) /\ worker' = [worker EXCEPT ![w] = x]
      /\ harmed' \in {harmed \ {w}, harmed \cup {w}}
      /\ UNCHANGED <<product, variant, docs, edits, failures>>
  BY DEF Clear, ClearIn
<1>2. job \in Job /\ queue' \in Seq(Job)
  BY <1>1 DEF Typed
<1>3. qs \in Seq(Request) /\ \A r \in DOMAIN qs : \A id \in DOMAIN qs[r] : qs[r][id] = NoDoc
  <2>1. Known \in SUBSET Variants
    BY DEF Known
  <2> QED
    BY <2>1, ClearFacts, Zenon
<1> HIDE DEF qs, job
<1>4. WorkerOK(x) /\ (x.requests = <<>> \/ x.requests = qs)
  <2>1. CASE job.channel \notin product.channels
    BY <1>2, <2>1, AfterClearFacts
  <2>2. CASE job.channel \in product.channels
    <3>1. x = [pc |-> "clearing", job |-> job, seen |-> <<>>, requests |-> qs]
      BY <2>2 DEF Idle
    <3> HIDE DEF x
    <3> QED
      BY <1>2, <1>3, <3>1 DEF WorkerOK, WorkerRecord
  <2> QED
    BY <2>1, <2>2
<1> HIDE DEF x
<1>5. \A r \in DOMAIN x.requests : \A id \in DOMAIN x.requests[r] : Findable(id, x.requests[r][id])
  BY <1>3, <1>4 DEF Findable
<1>6. /\ docs' \in [Id -> Doc] /\ harmed' \subseteq Workers /\ failures' \in 0..MaxFailures
      /\ \A id \in Id : Findable(id, docs'[id])
  BY <1>1 DEF Typed, DocsAreFindable
<1> QED
  BY <1>1, <1>2, <1>4, <1>5, <1>6, WorkerStep

(* What a worker with requests becomes when it sends one. *)
Sent(x, next) == IF Len(x.requests) <= 1 THEN next ELSE [x EXCEPT !.requests = Tail(@)]

(* Sending one bulk request leaves the rest of them, or what is next when  *)
(* it was the last; no request is new.                                     *)
LEMMA SentFacts ==
    ASSUME NEW x, WorkerOK(x), x.pc \notin {"idle", "variants"}, x.requests # <<>>,
           NEW next, WorkerOK(next), next.requests = <<>>
    PROVE  /\ WorkerOK(Sent(x, next))
           /\ x.requests \in Seq(Request)
           /\ Len(x.requests) <= 1 => Sent(x, next) = next
           /\ Len(x.requests) > 1 => /\ Sent(x, next).pc = x.pc
                                     /\ Sent(x, next).job = x.job
                                     /\ Sent(x, next).requests = Tail(x.requests)
           /\ \A r \in DOMAIN Sent(x, next).requests :
                  \E i \in DOMAIN x.requests : Sent(x, next).requests[r] = x.requests[i]
<1>1. x \in WorkerRecord /\ x.requests \in Seq(Request)
  BY DEF WorkerOK, WorkerRecord
<1>2. PICK qs \in Seq(Request) : qs = Tail(x.requests)
  <2>1. \A s \in Seq(Request) : s # <<>> => Tail(s) \in Seq(Request)
    OBVIOUS
  <2> QED
    BY <1>1, <2>1
<1>3. Len(x.requests) \in Nat /\ \A r \in DOMAIN qs : r + 1 \in DOMAIN x.requests /\ qs[r] = x.requests[r + 1]
  BY <1>1, <1>2
<1>4. PICK y : y = [x EXCEPT !.requests = qs]
  OBVIOUS
<1>5. y \in WorkerRecord /\ y.pc = x.pc /\ y.job = x.job /\ y.requests = qs
  BY <1>1, <1>4 DEF WorkerRecord
<1>6. WorkerOK(y)
  BY <1>5 DEF WorkerOK
<1>7. Sent(x, next) = IF Len(x.requests) <= 1 THEN next ELSE y
  BY <1>2, <1>4 DEF Sent
<1>8. \A r \in DOMAIN <<>> : FALSE
  OBVIOUS
<1>9. CASE Len(x.requests) <= 1
  BY <1>1, <1>3, <1>7, <1>8, <1>9
<1>10. CASE Len(x.requests) > 1
  <2>1. Sent(x, next) = y
    BY <1>3, <1>7, <1>10
  <2>2. \A r \in DOMAIN qs : \E i \in DOMAIN x.requests : qs[r] = x.requests[i]
    BY <1>3
  <2>3. ~(Len(x.requests) <= 1)
    BY <1>3, <1>10
  <2> QED
    BY <1>1, <1>2, <1>5, <1>6, <2>1, <2>2, <2>3, Zenon
<1> QED
  BY <1>3, <1>9, <1>10

(* A request is sent. *)
LEMMA SendStep ==
    ASSUME Typed, DocsAreFindable, NEW w \in Workers, NEW next, Send(w, next),
           worker[w].pc \notin {"idle", "variants"}, WorkerOK(next), next.requests = <<>>,
           UNCHANGED <<product, variant, queue, edits>>
    PROVE  Typed' /\ DocsAreFindable'
<1> DEFINE x == worker[w]
           y == Sent(x, next)
<1>1. WorkerOK(x) /\ x.requests # <<>>
  BY DEF Typed, Send
<1>2. worker' = [worker EXCEPT ![w] = y]
  <2>1. worker \in [Workers -> WorkerRecord]
    BY DEF Typed
  <2>2. worker' = [worker EXCEPT ![w] = IF Len(x.requests) <= 1 THEN next
                                        ELSE [x EXCEPT !.requests = Tail(x.requests)]]
    BY <2>1 DEF Send
  <2> QED
    BY <2>2 DEF Sent
<1>3. /\ WorkerOK(y) /\ x.requests \in Seq(Request)
      /\ \A r \in DOMAIN y.requests : \E i \in DOMAIN x.requests : y.requests[r] = x.requests[i]
  <2> HIDE DEF x
  <2> QED
    BY <1>1, SentFacts DEF x
<1> HIDE DEF y
<1>4. \A r \in DOMAIN y.requests : \A id \in DOMAIN y.requests[r] : Findable(id, y.requests[r][id])
  BY <1>3 DEF DocsAreFindable
<1>5. Head(x.requests) \in Request /\ Head(x.requests) = x.requests[1] /\ 1 \in DOMAIN x.requests
  BY <1>1, <1>3
<1>6. \A id \in DOMAIN Head(x.requests) :
          Head(x.requests)[id] \in Doc /\ Findable(id, Head(x.requests)[id])
  <2>1. \A q \in Request : \A id \in DOMAIN q : q[id] \in Doc
    BY DEF Request
  <2> QED
    BY <1>5, <2>1 DEF DocsAreFindable
<1>7. docs' \in [Id -> Doc] /\ \A id \in Id : Findable(id, docs'[id])
  <2>1. CASE docs' = docs
    BY <2>1 DEF Typed, DocsAreFindable
  <2>2. CASE docs' = [id \in Id |-> IF id \in DOMAIN Head(x.requests)
                                    THEN Head(x.requests)[id] ELSE docs[id]]
    <3> HIDE DEF x
    <3> QED
      BY <1>6, <2>2 DEF Typed, DocsAreFindable
  <2> QED
    BY <2>1, <2>2 DEF Send
<1>8. harmed' \subseteq Workers /\ failures' \in 0..MaxFailures
  BY ConstantsAssumption DEF Send, Fails, Typed
<1>9. queue' \in Seq(Job)
  BY DEF Typed
<1> QED
  BY <1>2, <1>3, <1>4, <1>7, <1>8, <1>9, WorkerStep

(* The product is read. *)
LEMMA ReadProductStep ==
    ASSUME Typed, DocsAreFindable, NEW w \in Workers, ReadProduct(w)
    PROVE  Typed' /\ DocsAreFindable'
<1>1. PICK x \in WorkerRecord : x = worker[w] /\ WorkerOK(x) /\ x.pc = "product"
  BY DEF Typed, ReadProduct
<1>2. PICK p \in Product : p = product
  BY DEF Typed
<1>3. PICK y : y = [x EXCEPT !.pc = "variants", !.seen = p]
  OBVIOUS
<1>4. y \in WorkerRecord /\ y.pc = "variants" /\ y.seen = p /\ y.job = x.job /\ y.requests = x.requests
  BY <1>3 DEF WorkerRecord
<1>5. WorkerOK(y)
  BY <1>1, <1>4 DEF WorkerOK
<1>6. worker' = [worker EXCEPT ![w] = IF product.deleted THEN Idle ELSE y]
  BY <1>1, <1>2, <1>3 DEF ReadProduct
<1>7. /\ UNCHANGED <<product, variant, docs, queue, harmed, edits, failures>>
      /\ docs' \in [Id -> Doc] /\ queue' \in Seq(Job) /\ harmed' \subseteq Workers
      /\ failures' \in 0..MaxFailures /\ \A id \in Id : Findable(id, docs'[id])
  BY DEF ReadProduct, Typed, DocsAreFindable
<1>8. \A r \in DOMAIN y.requests : \A id \in DOMAIN y.requests[r] : Findable(id, y.requests[r][id])
  BY <1>1, <1>4 DEF DocsAreFindable
<1>9. CASE product.deleted
  <2>1. WorkerOK(Idle) /\ Idle.requests = <<>>
    BY AfterClearFacts, ConstantsAssumption DEF Idle, WorkerOK, WorkerRecord
  <2>2. worker' = [worker EXCEPT ![w] = Idle]
    BY <1>6, <1>9
  <2>3. \A r \in DOMAIN Idle.requests : \A id \in DOMAIN Idle.requests[r] : Findable(id, Idle.requests[r][id])
    BY <2>1
  <2> QED
    BY <1>7, <2>1, <2>2, <2>3, WorkerStep
<1>10. CASE ~product.deleted
  <2>1. worker' = [worker EXCEPT ![w] = y]
    BY <1>6, <1>10
  <2> QED
    BY <1>5, <1>7, <1>8, <2>1, WorkerStep
<1> QED
  BY <1>9, <1>10

(* The requests that write are made of what was read. *)
LEMMA ReadVariantsStep ==
    ASSUME Typed, DocsAreFindable, NEW w \in Workers, ReadVariants(w)
    PROVE  Typed' /\ DocsAreFindable'
<1>1. PICK x \in WorkerRecord : x = worker[w] /\ WorkerOK(x) /\ x.pc = "variants"
  BY DEF Typed, ReadVariants
<1>2. PICK p \in Product : p = x.seen
  BY <1>1 DEF WorkerOK
<1>3. variant \in [Variants -> Variant]
  BY DEF Typed
<1>4. PICK qs : qs = Upserts(p, variant)
  OBVIOUS
<1>5. /\ qs \in Seq(Request)
      /\ \A r \in DOMAIN qs : \A id \in DOMAIN qs[r] :
             id \in Id /\ qs[r][id] = Document(p, variant, id)
  BY <1>3, <1>4, UpsertsFacts
<1>6. PICK y : y = [x EXCEPT !.pc = "writing", !.requests = qs]
  OBVIOUS
<1>7. y \in WorkerRecord /\ y.pc = "writing" /\ y.job = x.job /\ y.requests = qs
  BY <1>5, <1>6 DEF WorkerRecord
<1>8. WorkerOK(y)
  BY <1>1, <1>7 DEF WorkerOK
<1>9. worker' = [worker EXCEPT ![w] = y]
  BY <1>1, <1>2, <1>4, <1>6 DEF ReadVariants
<1>10. /\ UNCHANGED <<product, variant, docs, queue, harmed, edits, failures>>
       /\ docs' \in [Id -> Doc] /\ queue' \in Seq(Job) /\ harmed' \subseteq Workers
       /\ failures' \in 0..MaxFailures /\ \A id \in Id : Findable(id, docs'[id])
  BY DEF ReadVariants, Typed, DocsAreFindable
<1>11. \A id \in Id : Findable(id, Document(p, variant, id))
  <2>1. ASSUME NEW id \in Id, Document(p, variant, id) # NoDoc
        PROVE  id[2] \in Known \cup {"product"}
    <3>1. id[2] = "product" \/ (id[2] \in Variants /\ variant[id[2]].state = "live")
      BY <1>3, <2>1, DocumentFacts
    <3> QED
      BY <3>1 DEF Known
  <2> QED
    BY <2>1 DEF Findable
<1>12. \A r \in DOMAIN y.requests : \A id \in DOMAIN y.requests[r] : Findable(id, y.requests[r][id])
  BY <1>5, <1>7, <1>11
<1> QED
  BY <1>8, <1>9, <1>10, <1>12, WorkerStep

(* An error that ends a job. *)
LEMMA EndStep ==
    ASSUME Typed, DocsAreFindable, NEW w \in Workers,
           ClearFails(w) \/ ReadProductFails(w) \/ WritingFails(w)
    PROVE  Typed' /\ DocsAreFindable'
<1>1. WorkerOK(Idle) /\ Idle.requests = <<>>
  BY ConstantsAssumption DEF Idle, WorkerOK, WorkerRecord
<1>2. worker \in [Workers -> WorkerRecord]
  BY DEF Typed
<1>3. worker' = [worker EXCEPT ![w] = Idle]
  BY <1>2 DEF ClearFails, ReadProductFails, WritingFails
<1>4. /\ UNCHANGED <<product, variant, docs, edits>> /\ Fails(w)
      /\ queue' \in Seq(Job)
  <2>1. queue # <<>> => Tail(queue) \in Seq(Job)
    BY DEF Typed
  <2> QED
    BY <2>1 DEF ClearFails, ReadProductFails, WritingFails, Typed
<1>5. /\ docs' \in [Id -> Doc] /\ harmed' \subseteq Workers /\ failures' \in 0..MaxFailures
      /\ \A id \in Id : Findable(id, docs'[id])
  BY <1>4, ConstantsAssumption DEF Fails, Typed, DocsAreFindable
<1>6. \A r \in DOMAIN Idle.requests : \A id \in DOMAIN Idle.requests[r] :
          Findable(id, Idle.requests[r][id])
  BY <1>1
<1> QED
  BY <1>1, <1>3, <1>4, <1>5, <1>6, WorkerStep

(* The variants cannot be read: there are none, and so no document that    *)
(* the next job would not find.                                            *)
LEMMA ReadVariantsFailsStep ==
    ASSUME Typed, DocsAreFindable, NEW w \in Workers, ReadVariantsFails(w)
    PROVE  Typed' /\ DocsAreFindable'
<1>1. PICK x \in WorkerRecord : x = worker[w] /\ WorkerOK(x) /\ x.pc = "variants"
  BY DEF Typed, ReadVariantsFails
<1>2. PICK p \in Product : p = x.seen
  BY <1>1 DEF WorkerOK
<1>3. PICK vs \in [Variants -> Variant] :
          vs = NoVariants /\ \A v \in Variants : vs[v].state = "none"
  <2>1. variant \in [Variants -> Variant]
    BY DEF Typed
  <2>2. \A v \in Variants : NoVariants[v] = [variant[v] EXCEPT !.state = "none"]
    BY DEF NoVariants
  <2>3. ASSUME NEW v \in Variants
        PROVE  NoVariants[v] \in Variant /\ NoVariants[v].state = "none"
    <3>1. PICK u \in Variant : u = variant[v]
      BY <2>1
    <3>2. NoVariants[v] = [u EXCEPT !.state = "none"]
      BY <2>2, <3>1
    <3> QED
      BY <3>2 DEF Variant
  <2>4. NoVariants = [v \in Variants |-> NoVariants[v]]
    BY DEF NoVariants
  <2> QED
    BY <2>3, <2>4
<1>4. PICK qs : qs = Upserts(p, vs)
  OBVIOUS
<1>5. /\ qs \in Seq(Request)
      /\ \A r \in DOMAIN qs : \A id \in DOMAIN qs[r] :
             id \in Id /\ qs[r][id] = Document(p, vs, id)
  BY <1>4, UpsertsFacts
<1>6. PICK y : y = [x EXCEPT !.pc = "writing", !.requests = qs]
  OBVIOUS
<1>7. y \in WorkerRecord /\ y.pc = "writing" /\ y.job = x.job /\ y.requests = qs
  BY <1>5, <1>6 DEF WorkerRecord
<1>8. WorkerOK(y)
  BY <1>1, <1>7 DEF WorkerOK
<1>9. worker' = [worker EXCEPT ![w] = y]
  BY <1>1, <1>2, <1>3, <1>4, <1>6 DEF ReadVariantsFails
<1>10. /\ UNCHANGED <<product, variant, docs, queue, edits>> /\ Fails(w)
       /\ docs' \in [Id -> Doc] /\ queue' \in Seq(Job) /\ harmed' \subseteq Workers
       /\ failures' \in 0..MaxFailures /\ \A id \in Id : Findable(id, docs'[id])
  BY ConstantsAssumption DEF ReadVariantsFails, Fails, Typed, DocsAreFindable
<1>11. \A id \in Id : Findable(id, Document(p, vs, id))
  <2>1. ASSUME NEW id \in Id, Document(p, vs, id) # NoDoc
        PROVE  id[2] \in Known \cup {"product"}
    <3>1. id[2] = "product" \/ (id[2] \in Variants /\ vs[id[2]].state = "live")
      BY <2>1, DocumentFacts
    <3> QED
      BY <1>3, <3>1
  <2> QED
    BY <2>1 DEF Findable
<1>12. \A r \in DOMAIN y.requests : \A id \in DOMAIN y.requests[r] : Findable(id, y.requests[r][id])
  BY <1>5, <1>7, <1>11
<1> QED
  BY <1>8, <1>9, <1>10, <1>12, WorkerStep

(* Every step of a worker keeps the types, and what can be found. *)
LEMMA WorkStep ==
    ASSUME Typed, DocsAreFindable, NEW w \in Workers, Work(w)
    PROVE  Typed' /\ DocsAreFindable'
<1>1. CASE Clearing(w)
  <2>1. worker[w].job \in Job
    BY <1>1 DEF Typed, WorkerOK, Clearing
  <2> QED
    BY <1>1, <2>1, AfterClearFacts, SendStep DEF Clearing
<1>2. CASE Writing(w)
  <2>1. worker[w].job \in Job
    BY <1>2 DEF Typed, WorkerOK, Writing
  <2> QED
    BY <1>2, <2>1, AfterClearFacts, SendStep DEF Writing
<1> QED
  BY <1>1, <1>2, ClearStep, ReadProductStep, ReadVariantsStep, EndStep, ReadVariantsFailsStep
     DEF Work

(* All documents of the start are of live variants. *)
LEMMA TypedInit == Init => Typed /\ DocsAreFindable
<1> SUFFICES ASSUME Init PROVE Typed /\ DocsAreFindable
  OBVIOUS
<1>1. product \in Product
  BY ConstantsAssumption DEF Init, Product
<1>2. variant \in [Variants -> Variant]
  <2> DEFINE start == [state : {"none", "live"}, enabled : {TRUE},
                       price : {CHOOSE q \in Prices : TRUE}, channels : {product.channels}]
  <2>1. variant \in [Variants -> start]
    BY DEF Init
  <2>2. (CHOOSE q \in Prices : TRUE) \in Prices
    BY ConstantsAssumption
  <2>3. start \subseteq Variant
    BY <1>1, <2>2 DEF Variant, Product
  <2> HIDE DEF start
  <2> QED
    BY <2>1, <2>3
<1>3. docs = [id \in Id |-> Document(product, variant, id)]
  BY DEF Init, View
<1>4. docs \in [Id -> Doc]
  BY <1>1, <1>2, <1>3, DocumentFacts
<1>5. WorkerOK(Idle)
  BY DEF Idle, WorkerOK, WorkerRecord
<1>6. Typed
  BY <1>1, <1>2, <1>4, <1>5, ConstantsAssumption DEF Init, Typed, WorkerOK
<1>7. \A id \in Id : Findable(id, docs[id])
  BY <1>1, <1>2, <1>3, DocumentFacts DEF Findable, Known
<1>8. Idle.requests = <<>>
  BY DEF Idle
<1>9. DocsAreFindable
  BY <1>7, <1>8 DEF Init, DocsAreFindable
<1> QED
  BY <1>6, <1>9

-----------------------------------------------------------------------------
(* Types *)

(* Every step keeps the types, and every document such that the next job   *)
(* would find it.                                                          *)
LEMMA TypesStep == Typed /\ DocsAreFindable /\ [Next]_vars => Typed' /\ DocsAreFindable'
<1> SUFFICES ASSUME Typed, DocsAreFindable, [Next]_vars PROVE Typed' /\ DocsAreFindable'
  OBVIOUS
<1>1. CASE UNCHANGED vars
  BY <1>1 DEF vars, Typed, WorkerOK, DocsAreFindable, Findable, Known
<1> QED
  BY <1>1, EditStep, WorkStep DEF Next

(* So both hold in every reachable state.                                  *)
LEMMA TypesInvariant == Spec => [](Typed /\ DocsAreFindable)
BY TypedInit, TypesStep, PTL DEF Spec

(* Every variable of ProductDocuments keeps its type, for any number of    *)
(* workers.                                                                *)
THEOREM TypeCorrect == Spec => []TypeOK
<1>1. Typed => TypeOK
  <2> SUFFICES ASSUME Typed PROVE TypeOK
    OBVIOUS
  <2>1. \A i \in DOMAIN queue : queue[i] \in Job
    BY DEF Typed
  <2>2. ASSUME NEW w \in Workers, worker[w] # Idle
        PROVE  /\ worker[w].pc \in {"clearing", "product", "variants", "writing"}
               /\ worker[w].job \in Job
               /\ \A r \in DOMAIN worker[w].requests :
                      /\ DOMAIN worker[w].requests[r] \subseteq Id
                      /\ \A id \in DOMAIN worker[w].requests[r] : worker[w].requests[r][id] \in Doc
    <3>1. PICK x \in WorkerRecord : x = worker[w] /\ WorkerOK(x)
      BY DEF Typed
    <3>2. \A q \in Request : DOMAIN q \subseteq Id /\ \A id \in DOMAIN q : q[id] \in Doc
      BY DEF Request
    <3>3. \A r \in DOMAIN x.requests : x.requests[r] \in Request
      BY <3>1 DEF WorkerRecord
    <3> QED
      BY <2>2, <3>1, <3>2, <3>3 DEF WorkerOK, WorkerRecord
  <2> QED
    BY <2>1, <2>2 DEF Typed, TypeOK
<1> QED
  BY <1>1, TypesInvariant, PTL

-----------------------------------------------------------------------------
(* One worker *)

(* The last element of a sequence stays the last one. *)
LEMMA TailFacts ==
    ASSUME NEW q \in Seq(Job), q # <<>>
    PROVE  /\ Tail(q) # <<>> => Tail(q)[Len(Tail(q))] = q[Len(q)]
           /\ Tail(q) = <<>> => Head(q) = q[Len(q)]
<1>1. Len(q) \in Nat \ {0} /\ Len(Tail(q)) = Len(q) - 1 /\ Head(q) = q[1]
      /\ \A i \in 1..Len(q) - 1 : Tail(q)[i] = q[i + 1]
  OBVIOUS
<1>2. PICK r \in Seq(Job) : r = Tail(q)
  <2>1. Tail(q) \in Seq(Job)
    OBVIOUS
  <2> QED
    BY <2>1
<1>3. r # <<>> => Len(r) \in Nat \ {0}
  OBVIOUS
<1>4. r = <<>> => Len(r) = 0
  OBVIOUS
<1>5. r # <<>> => Len(r) \in 1..Len(q) - 1 /\ Len(r) + 1 = Len(q)
  BY <1>1, <1>2, <1>3
<1>6. r # <<>> => r[Len(r)] = q[Len(q)]
  BY <1>1, <1>2, <1>5
<1>7. r = <<>> => Len(q) = 1
  BY <1>1, <1>2, <1>4
<1> QED
  BY <1>1, <1>2, <1>6, <1>7

(* It takes a job: when this is the last, all documents there may be are   *)
(* to be deleted, and the job is one that writes them again.               *)
LEMMA OneClears ==
    ASSUME DocsInv, NEW w, Workers = {w}, Clear(w)
    PROVE  UpdateComesLast' /\ OnItsWay'
<1> DEFINE job == Head(queue)
           qs == Deletes(Channels \X {"product"}) \o Deletes(Channels \X Known)
<1>1. queue \in Seq(Job) /\ queue # <<>> /\ queue' = Tail(queue)
  BY DEF Clear, ClearIn, DocsInv, Typed
<1>2. /\ queue' # <<>> => queue'[Len(queue')] = queue[Len(queue)]
      /\ queue' = <<>> => job = queue[Len(queue)]
  BY <1>1, TailFacts
<1>3. queue[Len(queue)].type = "update" /\ job \in Job
  BY <1>1 DEF DocsInv, UpdateComesLast
<1>4. job.type = "delete" => queue' # <<>>
  BY <1>2, <1>3
<1>5. /\ worker' = [worker EXCEPT ![w] =
              IF job.channel \notin product.channels THEN AfterClear(job)
              ELSE [Idle EXCEPT !.pc = "clearing", !.job = job, !.requests = qs]]
      /\ harmed' = IF job.channel \in product.channels THEN harmed \ {w} ELSE harmed \cup {w}
      /\ UNCHANGED <<product, variant, docs>>
  BY DEF Clear, ClearIn
<1>6. worker \in [Workers -> WorkerRecord]
  BY DEF DocsInv, Typed
<1>7. CASE job.channel \notin product.channels
  <2>1. worker'[w] = AfterClear(job) /\ harmed' # {}
    BY <1>5, <1>6, <1>7
  <2>2. worker'[w].pc # "clearing"
    BY <1>3, <2>1, AfterClearFacts
  <2> QED
    BY <1>2, <1>3, <2>1, <2>2 DEF UpdateComesLast, OnItsWay
<1>8. CASE job.channel \in product.channels
  <2>0. worker'[w] = [Idle EXCEPT !.pc = "clearing", !.job = job, !.requests = qs]
    BY <1>5, <1>6, <1>8
  <2>1. worker'[w].pc = "clearing" /\ worker'[w].job = job /\ worker'[w].requests = qs
    <3> HIDE DEF job, qs
    <3> QED
      BY <2>0 DEF Idle
  <2>2. /\ \A r \in DOMAIN qs : \A id \in DOMAIN qs[r] : qs[r][id] = NoDoc
        /\ \A id \in Id : id[2] \in Known \cup {"product"} => \E r \in DOMAIN qs : id \in DOMAIN qs[r]
    <3>1. Known \in SUBSET Variants
      BY DEF Known
    <3> QED
      BY <3>1, ClearFacts, Zenon
  <2>3. \A r \in DOMAIN qs : \A id \in DOMAIN qs[r] : id \in Id
    <3>1. Known \in SUBSET Variants
      BY DEF Known
    <3>2. qs \in Seq(Request)
      BY <3>1, ClearFacts, Zenon
    <3>3. \A q \in Request : DOMAIN q \subseteq Id
      BY DEF Request
    <3> HIDE DEF qs
    <3> QED
      BY <3>2, <3>3
  <2> HIDE DEF qs, job
  <2>4. \A id \in Id : docs'[id] = NoDoc \/ \E r \in DOMAIN qs : id \in DOMAIN qs[r]
    BY <1>5, <2>2 DEF DocsInv, DocsAreFindable, Findable
  <2>5. Lead(docs', worker'[w].requests, [id \in Id |-> NoDoc])
    BY <2>1, <2>2, <2>3, <2>4 DEF Lead
  <2>6. Progress(worker'[w], docs', product', variant')
    BY <2>1, <2>5 DEF Progress
  <2> QED
    BY <1>2, <1>3, <1>4, <2>1, <2>6 DEF UpdateComesLast, OnItsWay
<1> QED
  BY <1>7, <1>8

(* It sends a request, and has got target when it was the last.            *)
LEMMA OneSends ==
    ASSUME DocsInv, NEW w, Workers = {w}, NEW next, Send(w, next), NEW target,
           worker[w].pc \notin {"idle", "variants"}, WorkerOK(next), next.requests = <<>>,
           Lead(docs, worker[w].requests, target), UNCHANGED <<product, variant, queue>>,
           harmed' = {}
    PROVE  /\ harmed = {}
           /\ \/ /\ worker'[w] = next
                 /\ \A id \in Id : docs'[id] = target[id]
              \/ /\ worker'[w].pc = worker[w].pc
                 /\ worker'[w].job = worker[w].job
                 /\ Lead(docs', worker'[w].requests, target)
<1> DEFINE x == worker[w]
<1>1. worker \in [Workers -> WorkerRecord] /\ WorkerOK(x) /\ x.requests # <<>>
  BY DEF DocsInv, Typed, Send
<1>2. worker'[w] = Sent(x, next)
  <2>1. worker' = [worker EXCEPT ![w] = IF Len(x.requests) <= 1 THEN next
                                        ELSE [x EXCEPT !.requests = Tail(x.requests)]]
    BY <1>1 DEF Send
  <2> QED
    BY <1>1, <2>1 DEF Sent
<1>3. /\ harmed = {}
      /\ docs' = [id \in Id |-> IF id \in DOMAIN Head(x.requests)
                                THEN Head(x.requests)[id] ELSE docs[id]]
  BY DEF Send, Fails
<1>4. PICK qs \in Seq(Request) : qs = x.requests
  BY <1>1, SentFacts
<1>5. /\ Lead(docs', Tail(qs), target)
      /\ Len(qs) <= 1 => \A id \in Id : docs'[id] = target[id]
  BY <1>1, <1>3, <1>4, SendLeads
<1>6. /\ Len(qs) <= 1 => Sent(x, next) = next
      /\ Len(qs) > 1 => /\ Sent(x, next).pc = x.pc
                        /\ Sent(x, next).job = x.job
                        /\ Sent(x, next).requests = Tail(qs)
  BY <1>1, <1>4, SentFacts
<1>7. Len(qs) <= 1 \/ Len(qs) > 1
  OBVIOUS
<1>8. CASE Len(qs) <= 1
  BY <1>2, <1>3, <1>5, <1>6, <1>8
<1>9. CASE Len(qs) > 1
  BY <1>2, <1>3, <1>5, <1>6, <1>9
<1> QED
  BY <1>7, <1>8, <1>9


(* A change to the catalog has its update to be done. *)
LEMMA OneEdits ==
    ASSUME DocsInv, EditCatalog
    PROVE  UpdateComesLast' /\ OnItsWay'
<1>1. queue' # <<>> /\ queue'[Len(queue')].type = "update"
  BY EditFacts DEF DocsInv
<1> QED
  BY <1>1 DEF UpdateComesLast, OnItsWay

(* The documents are deleted: it goes on to write them, or there is        *)
(* another job.                                                            *)
LEMMA OneDeletes ==
    ASSUME DocsInv, NEW w, Workers = {w}, Clearing(w)
    PROVE  UpdateComesLast' /\ OnItsWay'
<1> DEFINE x == worker[w]
           next == AfterClear(x.job)
           none == [id \in Id |-> NoDoc]
<1>1. /\ x.pc = "clearing" /\ Send(w, next)
      /\ UNCHANGED <<product, variant, queue, edits>>
  BY DEF Clearing
<1>2. x.job \in Job /\ WorkerOK(x)
  BY <1>1 DEF DocsInv, Typed, WorkerOK
<1>3. WorkerOK(next) /\ next.requests = <<>>
      /\ next.pc = IF x.job.type = "delete" THEN "idle" ELSE "product"
  BY <1>2, AfterClearFacts
<1>4. x.job.type = "delete" => queue # <<>>
  BY <1>1 DEF DocsInv, UpdateComesLast
<1> HIDE DEF next
<1>5. worker'[w] = Sent(x, next)
  <2>1. worker \in [Workers -> WorkerRecord]
    BY DEF DocsInv, Typed
  <2>2. worker' = [worker EXCEPT ![w] = IF Len(x.requests) <= 1 THEN next
                                        ELSE [x EXCEPT !.requests = Tail(x.requests)]]
    BY <1>1, <2>1 DEF Send
  <2> QED
    BY <2>1, <2>2 DEF Sent
<1>6. \/ worker'[w] = next
      \/ worker'[w].pc = x.pc /\ worker'[w].job = x.job
  <2>1. x.requests # <<>>
    BY <1>1 DEF Send
  <2>2. x.requests \in Seq(Request)
    BY <1>2 DEF WorkerOK, WorkerRecord
  <2>3. Len(x.requests) <= 1 \/ Len(x.requests) > 1
    BY <2>2
  <2> HIDE DEF x
  <2> QED
    BY <1>1, <1>2, <1>3, <1>5, <2>1, <2>3, SentFacts
<1>7. UpdateComesLast'
  BY <1>1, <1>3, <1>4, <1>6 DEF UpdateComesLast, DocsInv
<1>8. ASSUME queue' = <<>>, harmed' = {}
      PROVE  Progress(worker'[w], docs', product', variant')
  <2>1. x.job.type # "delete" /\ next.pc = "product"
    BY <1>1, <1>3, <1>4, <1>8
  <2>2. harmed = {}
    BY <1>1, <1>8 DEF Send, Fails
  <2>3. Lead(docs, x.requests, none)
    BY <1>1, <1>8, <2>2 DEF DocsInv, OnItsWay, Progress
  <2> HIDE DEF none
  <2>4. \/ /\ worker'[w] = next
           /\ \A id \in Id : docs'[id] = none[id]
        \/ /\ worker'[w].pc = x.pc
           /\ Lead(docs', worker'[w].requests, none)
    BY <1>1, <1>3, <1>8, <2>3, OneSends
  <2>5. docs' \in [Id -> Doc]
    <3>1. Typed /\ DocsAreFindable /\ w \in Workers
      BY DEF DocsInv
    <3> QED
      BY <1>1, <1>3, <3>1, SendStep DEF Typed
  <2>6. CASE worker'[w] = next /\ \A id \in Id : docs'[id] = none[id]
    <3>1. docs' = [id \in Id |-> NoDoc]
      BY <2>5, <2>6 DEF none
    <3> QED
      BY <2>1, <2>6, <3>1 DEF Progress
  <2>7. CASE worker'[w].pc = x.pc /\ Lead(docs', worker'[w].requests, none)
    BY <1>1, <2>7 DEF Progress, none
  <2> QED
    BY <2>4, <2>6, <2>7
<1>9. OnItsWay'
  BY <1>8 DEF OnItsWay
<1> QED
  BY <1>7, <1>9

(* It reads the product: there is nothing to write if it is deleted. *)
LEMMA OneReadsProduct ==
    ASSUME DocsInv, NEW w, Workers = {w}, ReadProduct(w)
    PROVE  UpdateComesLast' /\ OnItsWay'
<1>1. PICK x \in WorkerRecord : x = worker[w] /\ x.pc = "product"
  BY DEF DocsInv, Typed, ReadProduct
<1>2. PICK p \in Product : p = product
  BY DEF DocsInv, Typed
<1>3. PICK y : y = [x EXCEPT !.pc = "variants", !.seen = p]
  OBVIOUS
<1>4. y.pc = "variants" /\ y.seen = p
  BY <1>3 DEF WorkerRecord
<1>5. worker'[w] = IF p.deleted THEN Idle ELSE y
  <2>1. worker \in [Workers -> WorkerRecord]
    BY DEF DocsInv, Typed
  <2> QED
    BY <1>1, <1>2, <1>3, <2>1 DEF ReadProduct
<1>6. UNCHANGED <<product, variant, docs, queue, harmed>>
  BY DEF ReadProduct
<1>7. worker'[w].pc = IF p.deleted THEN "idle" ELSE "variants"
  BY <1>4, <1>5 DEF Idle
<1>8. UpdateComesLast'
  BY <1>6, <1>7 DEF DocsInv, UpdateComesLast
<1>9. ASSUME queue' = <<>>, harmed' = {}
      PROVE  Progress(worker'[w], docs', product', variant')
  <2>1. docs = [id \in Id |-> NoDoc]
    BY <1>1, <1>6, <1>9 DEF DocsInv, OnItsWay, Progress
  <2>2. CASE p.deleted
    <3>1. View(p, variant) = [id \in Id |-> NoDoc]
      BY <2>2 DEF View, Document
    <3> QED
      BY <1>2, <1>6, <1>7, <2>1, <2>2, <3>1 DEF Progress
  <2>3. CASE ~p.deleted
    <3>1. worker'[w].pc = "variants" /\ worker'[w].seen = p
      BY <1>4, <1>5, <2>3
    <3> QED
      BY <1>2, <1>6, <2>1, <3>1 DEF Progress
  <2> QED
    BY <2>2, <2>3
<1> QED
  BY <1>8, <1>9 DEF OnItsWay

(* It reads the variants: what is to be written is what should be there. *)
LEMMA OneReadsVariants ==
    ASSUME DocsInv, NEW w, Workers = {w}, ReadVariants(w)
    PROVE  UpdateComesLast' /\ OnItsWay'
<1>1. PICK x \in WorkerRecord : x = worker[w] /\ WorkerOK(x) /\ x.pc = "variants"
  BY DEF DocsInv, Typed, ReadVariants
<1>2. PICK p \in Product : p = x.seen
  BY <1>1 DEF WorkerOK
<1>3. PICK vs \in [Variants -> Variant] : vs = variant
  BY DEF DocsInv, Typed
<1>4. PICK qs : qs = Upserts(p, vs)
  OBVIOUS
<1>5. PICK y : y = [x EXCEPT !.pc = "writing", !.requests = qs]
  OBVIOUS
<1>6. y.pc = "writing" /\ y.requests = qs
  BY <1>5 DEF WorkerRecord
<1>7. worker'[w] = y
  <2>1. worker \in [Workers -> WorkerRecord]
    BY DEF DocsInv, Typed
  <2> QED
    BY <1>1, <1>2, <1>3, <1>4, <1>5, <2>1 DEF ReadVariants
<1>8. UNCHANGED <<product, variant, docs, queue, harmed>>
  BY DEF ReadVariants
<1>9. UpdateComesLast'
  BY <1>6, <1>7, <1>8 DEF DocsInv, UpdateComesLast
<1>10. ASSUME queue' = <<>>, harmed' = {}
       PROVE  Progress(worker'[w], docs', product', variant')
  <2>1. docs = [id \in Id |-> NoDoc] /\ p = product
    BY <1>1, <1>2, <1>8, <1>10 DEF DocsInv, OnItsWay, Progress
  <2>2. View(p, vs) = [id \in Id |-> Document(p, vs, id)]
    BY DEF View
  <2>3. /\ \A r \in DOMAIN qs : \A id \in DOMAIN qs[r] :
               id \in Id /\ qs[r][id] = Document(p, vs, id)
        /\ \A id \in Id : Document(p, vs, id) # NoDoc => \E r \in DOMAIN qs : id \in DOMAIN qs[r]
    BY <1>4, UpsertsFacts
  <2>4. Lead(docs, qs, View(p, vs))
    BY <2>1, <2>2, <2>3 DEF Lead
  <2> QED
    BY <1>3, <1>6, <1>7, <1>8, <2>1, <2>4 DEF Progress
<1> QED
  BY <1>9, <1>10 DEF OnItsWay

(* It writes: after the last request the documents are as they should be. *)
LEMMA OneWrites ==
    ASSUME DocsInv, NEW w, Workers = {w}, Writing(w)
    PROVE  UpdateComesLast' /\ OnItsWay'
<1> DEFINE x == worker[w]
           target == View(product, variant)
<1>1. /\ x.pc = "writing" /\ Send(w, Idle)
      /\ UNCHANGED <<product, variant, queue, edits>>
  BY DEF Writing
<1>2. x.job \in Job /\ WorkerOK(x)
  BY <1>1 DEF DocsInv, Typed, WorkerOK
<1>3. WorkerOK(Idle) /\ Idle.requests = <<>> /\ Idle.pc = "idle"
  BY <1>2, AfterClearFacts
<1>4. worker'[w].pc # "clearing"
  <2>1. worker \in [Workers -> WorkerRecord]
    BY DEF DocsInv, Typed
  <2>2. worker' = [worker EXCEPT ![w] = IF Len(x.requests) <= 1 THEN Idle
                                        ELSE [x EXCEPT !.requests = Tail(x.requests)]]
    BY <1>1, <2>1 DEF Send
  <2>3. worker'[w] = Sent(x, Idle)
    BY <2>1, <2>2 DEF Sent
  <2>4. x.requests # <<>>
    BY <1>1 DEF Send
  <2>5. x.requests \in Seq(Request)
    BY <1>2 DEF WorkerOK, WorkerRecord
  <2>6. Len(x.requests) <= 1 \/ Len(x.requests) > 1
    BY <2>5
  <2> HIDE DEF x
  <2> QED
    BY <1>1, <1>2, <1>3, <2>3, <2>4, <2>6, SentFacts
<1>5. UpdateComesLast'
  BY <1>1, <1>4 DEF UpdateComesLast, DocsInv
<1>6. ASSUME queue' = <<>>, harmed' = {}
      PROVE  Progress(worker'[w], docs', product', variant')
  <2>1. harmed = {}
    BY <1>1, <1>6 DEF Send, Fails
  <2>2. PICK t : t = target
    OBVIOUS
  <2>3. Lead(docs, x.requests, t)
    BY <1>1, <1>6, <2>1, <2>2 DEF DocsInv, OnItsWay, Progress
  <2>4. t = View(product', variant') /\ t = [id \in Id |-> t[id]]
    BY <1>1, <2>2 DEF View
  <2> HIDE DEF target
  <2>5. \/ /\ worker'[w] = Idle
           /\ \A id \in Id : docs'[id] = t[id]
        \/ /\ worker'[w].pc = x.pc
           /\ Lead(docs', worker'[w].requests, t)
    BY <1>1, <1>3, <1>6, <2>3, OneSends
  <2>6. docs' \in [Id -> Doc]
    <3>1. Typed /\ DocsAreFindable /\ w \in Workers
      BY DEF DocsInv
    <3> QED
      BY <1>1, <1>3, <3>1, SendStep DEF Typed
  <2>7. CASE worker'[w] = Idle /\ \A id \in Id : docs'[id] = t[id]
    <3>1. docs' = t
      BY <2>4, <2>6, <2>7
    <3> QED
      BY <1>3, <2>4, <2>7, <3>1 DEF Progress
  <2>8. CASE worker'[w].pc = x.pc /\ Lead(docs', worker'[w].requests, t)
    BY <1>1, <2>4, <2>8 DEF Progress
  <2> QED
    BY <2>5, <2>7, <2>8
<1> QED
  BY <1>5, <1>6 DEF OnItsWay

(* After an error nothing is promised until the next job. *)
LEMMA OneFails ==
    ASSUME DocsInv, NEW w, Workers = {w},
           \/ ClearFails(w) \/ ReadProductFails(w)
           \/ ReadVariantsFails(w) \/ WritingFails(w)
    PROVE  UpdateComesLast' /\ OnItsWay'
<1>1. harmed' # {}
  BY DEF ClearFails, ReadProductFails, ReadVariantsFails, WritingFails, Fails
<1>2. worker'[w].pc # "clearing"
  <2>1. worker \in [Workers -> WorkerRecord] /\ Idle.pc = "idle"
    BY DEF DocsInv, Typed, Idle
  <2>2. CASE ReadVariantsFails(w)
    <3>1. PICK x \in WorkerRecord : x = worker[w]
      BY <2>1
    <3>2. PICK qs : qs = Upserts(x.seen, NoVariants)
      OBVIOUS
    <3>3. worker'[w] = [x EXCEPT !.pc = "writing", !.requests = qs]
      BY <2>1, <2>2, <3>1, <3>2 DEF ReadVariantsFails
    <3> QED
      BY <3>3 DEF WorkerRecord
  <2> QED
    BY <2>1, <2>2 DEF ClearFails, ReadProductFails, WritingFails
<1>3. queue' # <<>> => queue'[Len(queue')].type = "update"
  <2>1. CASE ClearFails(w)
    <3>1. PICK q \in Seq(Job) : q = queue
      BY DEF DocsInv, Typed
    <3>2. q # <<>> /\ queue' = Tail(q) /\ q[Len(q)].type = "update"
      BY <2>1, <3>1 DEF ClearFails, DocsInv, UpdateComesLast
    <3>3. Tail(q) # <<>> => Tail(q)[Len(Tail(q))] = q[Len(q)]
      BY <3>2
    <3> QED
      BY <3>2, <3>3
  <2>2. CASE ~ClearFails(w)
    <3>1. queue' = queue
      BY <2>2 DEF ReadProductFails, ReadVariantsFails, WritingFails
    <3> QED
      BY <3>1 DEF DocsInv, UpdateComesLast
  <2> QED
    BY <2>1, <2>2
<1> QED
  BY <1>1, <1>2, <1>3 DEF UpdateComesLast, OnItsWay

(* DocsInv is inductive when there is one worker. *)
LEMMA DocsInvInvariant ==
    ASSUME NEW w, Workers = {w}
    PROVE  Spec => []DocsInv
<1>1. Init => DocsInv
  <2> SUFFICES ASSUME Init PROVE DocsInv
    OBVIOUS
  <2>1. Typed /\ DocsAreFindable
    BY TypedInit
  <2>2. queue = <<>> /\ worker = [v \in Workers |-> Idle] /\ docs = View(product, variant)
    BY DEF Init
  <2>3. Idle.pc = "idle"
    BY DEF Idle
  <2>4. UpdateComesLast
    BY <2>2, <2>3 DEF UpdateComesLast
  <2>5. OnItsWay
    BY <2>2, <2>3 DEF OnItsWay, Progress
  <2> QED
    BY <2>1, <2>4, <2>5 DEF DocsInv
<1>2. DocsInv /\ [Next]_vars => DocsInv'
  <2> SUFFICES ASSUME DocsInv, [Next]_vars PROVE DocsInv'
    OBVIOUS
  <2>1. Typed' /\ DocsAreFindable'
    BY TypesStep DEF DocsInv
  <2>2. UpdateComesLast' /\ OnItsWay'
    <3>1. CASE UNCHANGED vars
      BY <3>1 DEF vars, DocsInv, UpdateComesLast, OnItsWay
    <3>2. CASE Next
      BY <3>2, OneEdits, OneClears, OneDeletes, OneReadsProduct, OneReadsVariants, OneWrites,
         OneFails DEF Next, Work
    <3> QED
      BY <3>1, <3>2
  <2> QED
    BY <2>1, <2>2 DEF DocsInv
<1> QED
  BY <1>1, <1>2, PTL DEF Spec

(* When no job waits or runs, the last one had no error and was for a      *)
(* channel the product was in, the index has exactly the documents the     *)
(* catalog asks for: with one worker, for every catalog, every size of a   *)
(* bulk request, and however the catalog changed, and queries, requests    *)
(* and jobs failed before (deleteProductOperations, then                   *)
(* updateProductsOperationsOnly).                                          *)
THEOREM IndexMirrorsCatalog ==
    ASSUME NEW w, Workers = {w}
    PROVE  Spec => []Mirrors
<1>1. DocsInv => Mirrors
  <2> SUFFICES ASSUME DocsInv, AtRest, harmed = {} PROVE docs = View(product, variant)
    BY DEF Mirrors
  <2>1. Progress(worker[w], docs, product, variant) /\ worker[w] = Idle
    BY DEF DocsInv, OnItsWay, AtRest
  <2>2. Idle.pc = "idle"
    BY DEF Idle
  <2> QED
    BY <2>1, <2>2 DEF Progress
<1> QED
  BY <1>1, DocsInvInvariant, PTL

-----------------------------------------------------------------------------
(* Groups *)

(* The documents there should be in a channel. *)
ThereIn(p, vs, c) ==
    {View(p, vs)[id] : id \in {i \in Id : i[1] = c /\ View(p, vs)[i].there}}

(* They are those of the variants in it, or the synthetic one. *)
LEMMA WhatIsThere ==
    ASSUME NEW p \in Product, NEW vs \in [Variants -> Variant], NEW c \in Channels,
           ~p.deleted, c \in p.channels
    PROVE  /\ InChannel(vs, c) = {} => ThereIn(p, vs, c) = {SyntheticDoc}
           /\ InChannel(vs, c) # {} =>
                  ThereIn(p, vs, c) = {VariantDoc(p, vs, c, v) : v \in InChannel(vs, c)}
<1> DEFINE ds == ThereIn(p, vs, c)
<1>0. ~NoDoc.there /\ SyntheticDoc.there /\ \A v : VariantDoc(p, vs, c, v).there
  BY DEF NoDoc, SyntheticDoc, VariantDoc
<1>1. \A id \in Id : View(p, vs)[id] = Document(p, vs, id)
  BY DEF View
<1>2. ds = {Document(p, vs, id) : id \in {i \in Id : i[1] = c /\ Document(p, vs, i).there}}
  BY <1>1 DEF ThereIn
<1> HIDE DEF ds
<1>3. \A v \in Variants \cup {"product"} : <<c, v>> \in Id /\ <<c, v>>[1] = c /\ <<c, v>>[2] = v
  BY DEF Id
<1>4. \A id \in Id : id[1] = c => id[2] \in Variants \cup {"product"} /\ id = <<c, id[2]>>
  BY DEF Id
<1>5. \A v \in Variants \cup {"product"} :
          Document(p, vs, <<c, v>>) =
              IF v \in InChannel(vs, c) THEN VariantDoc(p, vs, c, v)
              ELSE IF v = "product" /\ InChannel(vs, c) = {} THEN SyntheticDoc
              ELSE NoDoc
  BY <1>3 DEF Document
<1>6. \A d : d \in ds <=> \E v \in Variants \cup {"product"} :
                            Document(p, vs, <<c, v>>).there /\ d = Document(p, vs, <<c, v>>)
  <2>1. ASSUME NEW d \in ds
        PROVE  \E v \in Variants \cup {"product"} :
                   Document(p, vs, <<c, v>>).there /\ d = Document(p, vs, <<c, v>>)
    <3>1. PICK id \in Id : id[1] = c /\ Document(p, vs, id).there /\ d = Document(p, vs, id)
      BY <1>2
    <3>2. PICK v \in Variants \cup {"product"} : id = <<c, v>>
      BY <1>4, <3>1
    <3> QED
      BY <3>1, <3>2
  <2>2. ASSUME NEW v \in Variants \cup {"product"}, Document(p, vs, <<c, v>>).there
        PROVE  Document(p, vs, <<c, v>>) \in ds
    <3>1. PICK id \in Id : id = <<c, v>> /\ id[1] = c
      BY <1>3
    <3> QED
      BY <1>2, <2>2, <3>1
  <2> QED
    BY <2>1, <2>2
<1>7. InChannel(vs, c) \subseteq Variants
  BY DEF InChannel
<1>8. CASE InChannel(vs, c) = {}
  <2>1. \A v \in Variants \cup {"product"} :
            Document(p, vs, <<c, v>>) = IF v = "product" THEN SyntheticDoc ELSE NoDoc
    BY <1>5, <1>8
  <2>2. \A d : d \in ds <=> d = SyntheticDoc
    BY <1>0, <1>6, <2>1
  <2> QED
    BY <1>8, <2>2 DEF ds
<1>9. CASE InChannel(vs, c) # {}
  <2>1. \A v \in Variants \cup {"product"} :
            Document(p, vs, <<c, v>>) = IF v \in InChannel(vs, c) THEN VariantDoc(p, vs, c, v)
                                        ELSE NoDoc
    BY <1>5, <1>9
  <2>2. ASSUME NEW d \in ds PROVE \E v \in InChannel(vs, c) : d = VariantDoc(p, vs, c, v)
    <3>1. PICK v \in Variants \cup {"product"} :
              Document(p, vs, <<c, v>>).there /\ d = Document(p, vs, <<c, v>>)
      BY <1>6
    <3>2. v \in InChannel(vs, c)
      BY <1>0, <2>1, <3>1
    <3> QED
      BY <2>1, <3>1, <3>2
  <2>3. ASSUME NEW v \in InChannel(vs, c) PROVE VariantDoc(p, vs, c, v) \in ds
    <3>1. Document(p, vs, <<c, v>>) = VariantDoc(p, vs, c, v)
      BY <1>7, <2>1
    <3>2. Document(p, vs, <<c, v>>).there
      BY <1>0, <3>1
    <3> QED
      BY <1>6, <1>7, <3>1, <3>2
  <2>4. ds = {VariantDoc(p, vs, c, v) : v \in InChannel(vs, c)}
    BY <2>2, <2>3
  <2> QED
    BY <1>9, <2>4 DEF ds
<1> QED
  BY <1>8, <1>9 DEF ds

(* A search that groups by product takes the first document it meets: at   *)
(* rest all documents of a channel tell the same of the product, and it is *)
(* what the documents in that channel say together (createVariantIndexItem *)
(* of the variants in the channel).                                        *)
THEOREM GroupedSearchesAgree ==
    ASSUME NEW w, Workers = {w}
    PROVE  Spec => []GroupsAgree
<1>1. DocsInv /\ Mirrors => GroupsAgree
  <2> SUFFICES ASSUME DocsInv, Mirrors, AtRest, harmed = {},
                      NEW c \in Channels, There(c) # {}
               PROVE  \E low \in There(c), high \in There(c) : \A d \in There(c) :
                          /\ low.price <= d.price /\ d.price <= high.price
                          /\ d.min = low.price /\ d.max = high.price
                          /\ d.productEnabled = \E e \in There(c) : e.enabled
    BY DEF GroupsAgree
  <2>1. PICK p \in Product : p = product
    BY DEF DocsInv, Typed
  <2>2. PICK vs \in [Variants -> Variant] : vs = variant
    BY DEF DocsInv, Typed
  <2>3. docs = View(p, vs)
    BY <2>1, <2>2 DEF Mirrors
  <2>4. PICK ds : ds = There(c)
    OBVIOUS
  <2>5. ds = ThereIn(p, vs, c)
    BY <2>3, <2>4 DEF There, ThereIn
  <2>6. ~p.deleted /\ c \in p.channels
    <3>1. PICK id \in Id : id[1] = c /\ View(p, vs)[id].there
      BY <2>4, <2>5 DEF ThereIn
    <3>2. Document(p, vs, id).there
      BY <3>1 DEF View
    <3>3. ~NoDoc.there
      BY DEF NoDoc
    <3> QED
      BY <3>1, <3>2, <3>3 DEF Document
  <2>7. /\ InChannel(vs, c) = {} => ds = {SyntheticDoc}
        /\ InChannel(vs, c) # {} => ds = {VariantDoc(p, vs, c, v) : v \in InChannel(vs, c)}
    BY <2>5, <2>6, WhatIsThere
  <2>8. CASE InChannel(vs, c) = {}
    <3>1. PICK s : s = SyntheticDoc
      OBVIOUS
    <3>2. /\ s.price = 0 /\ s.min = 0 /\ s.max = 0
          /\ s.enabled = FALSE /\ s.productEnabled = FALSE
      BY <3>1 DEF SyntheticDoc, NoDoc
    <3>3. There(c) = {s}
      BY <2>4, <2>7, <2>8, <3>1
    <3>4. s.price <= s.price /\ s.min = s.price /\ s.max = s.price
      BY <3>2
    <3>5. s.productEnabled = \E e \in {s} : e.enabled
      BY <3>2
    <3> QED
      BY <3>3, <3>4, <3>5, Zenon
  <2>9. CASE InChannel(vs, c) # {}
    <3> DEFINE doc(v) == VariantDoc(p, vs, c, v)
               S == PricesIn(vs, c)
               some == \E u \in InChannel(vs, c) : vs[u].enabled
    <3>1. /\ p.enabled \in BOOLEAN
          /\ \A v \in InChannel(vs, c) : vs[v].enabled \in BOOLEAN /\ vs[v].price \in Nat
      BY ConstantsAssumption DEF Product, Variant, InChannel
    <3>2. ASSUME NEW v \in InChannel(vs, c)
          PROVE  /\ doc(v).price = vs[v].price
                 /\ doc(v).min \in S /\ \A q \in S : doc(v).min <= q
                 /\ doc(v).max \in S /\ \A q \in S : q <= doc(v).max
                 /\ doc(v).enabled = (vs[v].enabled /\ p.enabled)
                 /\ doc(v).productEnabled = (p.enabled /\ some)
      <4>1. /\ doc(v).min \in S /\ \A q \in S : doc(v).min <= q
            /\ doc(v).max \in S /\ \A q \in S : q <= doc(v).max
        BY PriceRange
      <4>2. /\ doc(v).price = vs[v].price
            /\ doc(v).enabled = (vs[v].enabled /\ p.enabled)
            /\ doc(v).productEnabled = (p.enabled /\ some)
        BY DEF VariantDoc
      <4> QED
        BY <4>1, <4>2
    <3>3. ds = {doc(v) : v \in InChannel(vs, c)}
      BY <2>7, <2>9
    <3> HIDE DEF doc
    <3>4. S = {vs[v].price : v \in InChannel(vs, c)} /\ S \subseteq Nat
      BY <3>1 DEF PricesIn
    <3> HIDE DEF S
    <3>5. PICK u \in InChannel(vs, c) : TRUE
      BY <2>9
    <3>6. PICK lo \in InChannel(vs, c) : vs[lo].price = doc(u).min
      BY <3>2, <3>4, <3>5
    <3>7. PICK hi \in InChannel(vs, c) : vs[hi].price = doc(u).max
      BY <3>2, <3>4, <3>5
    <3>8. ASSUME NEW v \in InChannel(vs, c)
          PROVE  /\ doc(lo).price <= doc(v).price /\ doc(v).price <= doc(hi).price
                 /\ doc(v).min = doc(lo).price /\ doc(v).max = doc(hi).price
      <4>1. vs[v].price \in S
        BY <3>4
      <4>2. /\ doc(u).min \in S /\ doc(u).max \in S /\ doc(v).min \in S /\ doc(v).max \in S
            /\ \A q \in S : doc(u).min <= q /\ doc(v).min <= q /\ q <= doc(u).max /\ q <= doc(v).max
        BY <3>2, <3>5
      <4>3. doc(u).min = doc(v).min /\ doc(u).max = doc(v).max
        <5>1. /\ doc(u).min \in Nat /\ doc(v).min \in Nat
              /\ doc(u).max \in Nat /\ doc(v).max \in Nat
          BY <3>4, <4>2
        <5>2. /\ doc(u).min <= doc(v).min /\ doc(v).min <= doc(u).min
              /\ doc(u).max <= doc(v).max /\ doc(v).max <= doc(u).max
          BY <4>2
        <5> QED
          BY <5>1, <5>2
      <4>4. doc(lo).price = doc(u).min /\ doc(hi).price = doc(u).max /\ doc(v).price = vs[v].price
        BY <3>2, <3>6, <3>7
      <4> QED
        BY <4>1, <4>2, <4>3, <4>4
    <3>9. ASSUME NEW v \in InChannel(vs, c)
          PROVE  doc(v).productEnabled = \E e \in ds : e.enabled
      <4>1. (\E e \in ds : e.enabled) <=> \E y \in InChannel(vs, c) : doc(y).enabled
        BY <3>3
      <4>2. (\E y \in InChannel(vs, c) : doc(y).enabled) <=> (p.enabled /\ some)
        BY <3>2
      <4>3. doc(v).productEnabled = (p.enabled /\ some)
        BY <3>2
      <4> QED
        BY <4>1, <4>2, <4>3
    <3>10. doc(lo) \in ds /\ doc(hi) \in ds
      BY <3>3
    <3>11. \A d \in ds : \E v \in InChannel(vs, c) : d = doc(v)
      BY <3>3
    <3>12. ASSUME NEW d \in ds
           PROVE  /\ doc(lo).price <= d.price /\ d.price <= doc(hi).price
                  /\ d.min = doc(lo).price /\ d.max = doc(hi).price
                  /\ d.productEnabled = \E e \in ds : e.enabled
      <4>1. PICK v \in InChannel(vs, c) : d = doc(v)
        BY <3>11
      <4> QED
        BY <3>8, <3>9, <4>1
    <3> QED
      BY <2>4, <3>10, <3>12, Zenon
  <2> QED
    BY <2>8, <2>9
<1> QED
  BY <1>1, DocsInvInvariant, IndexMirrorsCatalog, PTL
=============================================================================
