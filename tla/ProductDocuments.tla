-------------------------- MODULE ProductDocuments --------------------------
(***************************************************************************)
(* elasticsearch-plugin: the documents of one product in the search index. *)
(*                                                                         *)
(* There is a document for each variant in each channel the product is in, *)
(* and a synthetic one in a channel where it has no variant.  Events of    *)
(* the catalog become jobs (plugin.ts, elasticsearch-index.service.ts); a  *)
(* job deletes all documents of the product and writes those it should     *)
(* have now (ElasticsearchIndexerController.updateProductsOperations).     *)
(* Operations are buffered and sent in bulk requests.  An error in one,    *)
(* and one in reading the variants, is logged and the job goes on; other   *)
(* errors end the job, which is not tried again.  The catalog may change   *)
(* between any two reads and requests of a job.                            *)
(*                                                                         *)
(* Abstractions: one product; a document stands for those of all languages *)
(* (which are only ever added); of its fields those are kept that depend   *)
(* on the other variants of the product; events of one change that ask for *)
(* the same update are one job.                                            *)
(***************************************************************************)
EXTENDS Naturals, FiniteSets, SequencesExt

CONSTANTS
    Variants,             \* variants the product may come to have
    Channels,
    Default,              \* the default channel, which has every product
    Prices,
    BulkLimit,            \* reindexBulkOperationSizeLimit
    Workers,              \* jobs that run at a time
    MaxEdits,             \* bound on changes to the catalog
    MaxFailures           \* bound on errors in jobs

ASSUME ConstantsAssumption ==
    /\ IsFiniteSet(Variants) /\ IsFiniteSet(Channels)
    /\ Default \in Channels
    /\ Prices \subseteq Nat \ {0} /\ Prices # {}
    /\ BulkLimit \in Nat \ {0} /\ BulkLimit % 2 = 0
    /\ {MaxEdits, MaxFailures} \subseteq Nat

VARIABLES
    product,    \* the product in the database
    variant,    \* its variants
    docs,       \* its documents in the index
    queue,      \* the jobs that wait
    worker,     \* the jobs that run
    harmed,     \* the workers whose last job had an error or, looking in a
                \* channel the product had left, deleted nothing
    edits,      \* changes so far
    failures    \* errors in jobs so far

vars == <<product, variant, docs, queue, worker, harmed, edits, failures>>

-----------------------------------------------------------------------------
(* Documents *)

(* A document has the id of a variant, or of the product made negative.    *)
Id == Channels \X (Variants \cup {"product"})

NoDoc == [price |-> 0, min |-> 0, max |-> 0, enabled |-> FALSE,
          productEnabled |-> FALSE, there |-> FALSE]

Doc == [price : {0} \cup Prices, min : {0} \cup Prices, max : {0} \cup Prices,
        enabled : BOOLEAN, productEnabled : BOOLEAN, there : BOOLEAN]

InChannel(vs, c) == {v \in Variants : vs[v].state = "live" /\ c \in vs[v].channels}

PricesIn(vs, c) == {vs[v].price : v \in InChannel(vs, c)}

(* Mutant: prices and states of all variants, whatever their channel. *)
VariantDocOfAll(p, vs, c, v) ==
    LET all == {u \in Variants : vs[u].state = "live"}
        prices == {vs[u].price : u \in all}
    IN  [price |-> vs[v].price,
         min |-> CHOOSE m \in prices : \A q \in prices : m <= q,
         max |-> CHOOSE m \in prices : \A q \in prices : m >= q,
         enabled |-> vs[v].enabled /\ p.enabled,
         productEnabled |-> p.enabled /\ \E u \in all : vs[u].enabled,
         there |-> TRUE]

(* createVariantIndexItem, of the variants in the channel. *)
VariantDoc(p, vs, c, v) ==
    [price |-> vs[v].price,
     min   |-> CHOOSE m \in PricesIn(vs, c) : \A q \in PricesIn(vs, c) : m <= q,
     max   |-> CHOOSE m \in PricesIn(vs, c) : \A q \in PricesIn(vs, c) : m >= q,
     enabled        |-> vs[v].enabled /\ p.enabled,
     productEnabled |-> p.enabled /\ \E u \in InChannel(vs, c) : vs[u].enabled,
     there |-> TRUE]

(* Mutant: the least of no prices, an infinity, here more than any price. *)
SyntheticDocOfNoPrices ==
    [NoDoc EXCEPT !.there = TRUE,
                  !.min = 1 + (CHOOSE m \in Prices : \A q \in Prices : m >= q)]

SyntheticDoc == [NoDoc EXCEPT !.there = TRUE]

(* The document a product should have under an id, and all of them. *)
Document(p, vs, id) ==
    LET c == id[1]
        v == id[2]
    IN  IF p.deleted \/ c \notin p.channels THEN NoDoc
        ELSE IF v \in InChannel(vs, c) THEN VariantDoc(p, vs, c, v)
        ELSE IF v = "product" /\ InChannel(vs, c) = {} THEN SyntheticDoc
        ELSE NoDoc

View(p, vs) == [id \in Id |-> Document(p, vs, id)]

-----------------------------------------------------------------------------
(* Bulk requests: a request says for some ids what their documents become. *)

(* The order in which ids are gone through. *)
Place == LET order == SetToSeq(Id)
         IN  [id \in Id |-> CHOOSE i \in DOMAIN order : order[i] = id]

(* The buffer is flushed whenever it holds BulkLimit operations, an upsert *)
(* being two of them.                                                      *)
Chunks(ids, size) ==
    LET part(id) == (Cardinality({j \in ids : Place[j] < Place[id]}) \div size) + 1
    IN  [i \in 1..((Cardinality(ids) + size - 1) \div size) |-> {id \in ids : part(id) = i}]

Deletes(ids) ==
    LET chunks == Chunks(ids, BulkLimit)
    IN  [i \in DOMAIN chunks |-> [id \in chunks[i] |-> NoDoc]]

Upserts(p, vs) ==
    LET chunks == Chunks({id \in Id : Document(p, vs, id).there}, BulkLimit \div 2)
    IN  [i \in DOMAIN chunks |-> [id \in chunks[i] |-> Document(p, vs, id)]]

-----------------------------------------------------------------------------
(* Types *)

Product == [deleted : BOOLEAN, enabled : BOOLEAN, channels : SUBSET Channels]

Variant == [state : {"none", "live", "deleted"}, enabled : BOOLEAN, price : Prices,
            channels : SUBSET Channels]

Job == [type : {"update", "delete"}, channel : Channels]

(* seen: the product as it was read; requests: those still to be sent.     *)
Idle == [pc |-> "idle", job |-> <<>>, seen |-> <<>>, requests |-> <<>>]

TypeOK ==
    /\ product \in Product
    /\ variant \in [Variants -> Variant]
    /\ docs \in [Id -> Doc]
    /\ \A i \in DOMAIN queue : queue[i] \in Job
    /\ \A w \in Workers :
         \/ worker[w] = Idle
         \/ /\ worker[w].pc \in {"clearing", "product", "variants", "writing"}
            /\ worker[w].job \in Job
            /\ \A r \in DOMAIN worker[w].requests :
                 /\ DOMAIN worker[w].requests[r] \subseteq Id
                 /\ \A id \in DOMAIN worker[w].requests[r] : worker[w].requests[r][id] \in Doc
    /\ harmed \subseteq Workers
    /\ edits \in 0..MaxEdits
    /\ failures \in 0..MaxFailures

(* A product as it was created, and indexed. *)
Init ==
    /\ product \in [deleted : {FALSE}, enabled : {TRUE},
                    channels : {{Default}, Channels}]
    /\ variant \in [Variants -> [state : {"none", "live"}, enabled : {TRUE},
                                 price : {CHOOSE q \in Prices : TRUE},
                                 channels : {product.channels}]]
    /\ docs = View(product, variant)
    /\ queue = <<>>
    /\ worker = [w \in Workers |-> Idle]
    /\ harmed = {}
    /\ edits = 0
    /\ failures = 0

-----------------------------------------------------------------------------
(* Changes to the catalog, in a request to channel c, and their events     *)
(* (external, and plugin.ts)                                               *)

Queued(type, c) == Append(queue, [type |-> type, channel |-> c])

Edit(c) ==
    /\ edits < MaxEdits
    /\ edits' = edits + 1
    /\ ~product.deleted
    /\ c \in product.channels
    /\ UNCHANGED <<docs, worker, harmed, failures>>

UpdateProduct(c) ==
    /\ Edit(c)
    /\ product' = [product EXCEPT !.enabled = ~@]
    /\ queue' = Queued("update", c)
    /\ UNCHANGED variant

DeleteProduct(c) ==
    /\ Edit(c)
    /\ product' = [product EXCEPT !.deleted = TRUE]
    /\ variant' = [v \in Variants |->
                      IF variant[v].state = "live"
                      THEN [variant[v] EXCEPT !.state = "deleted"] ELSE variant[v]]
    /\ queue' = Append(Queued("delete", c), [type |-> "update", channel |-> c])

(* All live variants go with the product. *)
MoveAll(cs) ==
    /\ product' = [product EXCEPT !.channels = cs]
    /\ variant' = [v \in Variants |->
                      IF variant[v].state = "live"
                      THEN [variant[v] EXCEPT !.channels =
                               (@ \cap cs) \cup (cs \ product.channels)]
                      ELSE variant[v]]

AssignProductToChannel(c, d) ==
    /\ Edit(c)
    /\ d \notin product.channels
    /\ MoveAll(product.channels \cup {d})
    /\ queue' = Queued("update", c)

RemoveProductFromChannel(c, d) ==
    /\ Edit(c)
    /\ d \in product.channels \ {Default}
    /\ MoveAll(product.channels \ {d})
    /\ queue' = Queued("update", c)

CreateVariant(c, v) ==
    /\ Edit(c)
    /\ variant[v].state = "none"
    /\ variant' = [variant EXCEPT ![v].state = "live", ![v].channels = {Default, c}]
    /\ queue' = Queued("update", c)
    /\ UNCHANGED product

UpdateVariant(c, v) ==
    /\ Edit(c)
    /\ v \in InChannel(variant, c)
    /\ \/ variant' = [variant EXCEPT ![v].enabled = ~@]
       \/ \E q \in Prices \ {variant[v].price} :
             variant' = [variant EXCEPT ![v].price = q]
    /\ queue' = Queued("update", c)
    /\ UNCHANGED product

DeleteVariant(c, v) ==
    /\ Edit(c)
    /\ v \in InChannel(variant, c)
    /\ variant' = [variant EXCEPT ![v].state = "deleted"]
    /\ queue' = Queued("update", c)
    /\ UNCHANGED product

(* A variant takes its product along into a channel, and the last one      *)
(* takes it out.                                                           *)
AssignVariantToChannel(c, v, d) ==
    /\ Edit(c)
    /\ v \in InChannel(variant, c)
    /\ d \notin variant[v].channels
    /\ variant' = [variant EXCEPT ![v].channels = @ \cup {d}]
    /\ product' = [product EXCEPT !.channels = @ \cup {d}]
    /\ queue' = Queued("update", c)

RemoveVariantFromChannel(c, v, d) ==
    /\ Edit(c)
    /\ d # Default
    /\ v \in InChannel(variant, c) \cap InChannel(variant, d)
    /\ variant' = [variant EXCEPT ![v].channels = @ \ {d}]
    /\ product' = [product EXCEPT !.channels =
                      IF InChannel(variant, d) = {v} THEN @ \ {d} ELSE @]
    /\ queue' = Queued("update", c)

-----------------------------------------------------------------------------
(* The jobs *)

(* What is left to do once the documents are deleted. *)
AfterClear(job) ==
    IF job.type = "delete" THEN Idle ELSE [Idle EXCEPT !.pc = "product", !.job = job]

(* An error in the job of a worker. *)
Fails(w) ==
    /\ failures < MaxFailures
    /\ failures' = failures + 1
    /\ harmed' = harmed \cup {w}

Known == {v \in Variants : variant[v].state # "none"}

(* A worker takes a job, and deletes the documents of the product in the   *)
(* channels: those without a variant first.                                *)
ClearIn(w, channels) ==
    LET job == Head(queue)
    IN  /\ worker[w] = Idle
        /\ queue # <<>>
        /\ queue' = Tail(queue)
        /\ harmed' = IF job.channel \in product.channels THEN harmed \ {w}
                     ELSE harmed \cup {w}
        /\ worker' = [worker EXCEPT ![w] =
              IF job.channel \notin product.channels THEN AfterClear(job)
              ELSE [Idle EXCEPT !.pc = "clearing", !.job = job,
                                !.requests = Deletes(channels \X {"product"})
                                             \o Deletes(channels \X Known)]]
        /\ UNCHANGED <<product, variant, docs, edits, failures>>

(* Mutant: documents are deleted only of the channels the product is in. *)
ClearAssigned(w) == ClearIn(w, product.channels)

(* deleteProductOperations: the product is looked for in the channel of    *)
(* the job, deleted or not, with all its variants, deleted or not; the     *)
(* documents of all channels are to be deleted.  If the product is not in  *)
(* that channel nothing is deleted.                                        *)
Clear(w) == ClearIn(w, Channels)

(* The queries that come first may fail, which ends the job.               *)
ClearFails(w) ==
    /\ worker[w] = Idle
    /\ queue # <<>>
    /\ queue' = Tail(queue)
    /\ Fails(w)
    /\ UNCHANGED <<product, variant, docs, worker, edits>>

(* The next request is sent; it may fail, which is logged.                 *)
Send(w, next) ==
    LET requests == worker[w].requests
    IN  /\ requests # <<>>
        /\ worker' = [worker EXCEPT ![w] =
              IF Len(requests) <= 1 THEN next ELSE [@ EXCEPT !.requests = Tail(requests)]]
        /\ \/ /\ docs' = [id \in Id |-> IF id \in DOMAIN Head(requests)
                                  THEN Head(requests)[id] ELSE docs[id]]
              /\ UNCHANGED <<harmed, failures>>
           \/ Fails(w) /\ UNCHANGED docs

Clearing(w) ==
    /\ worker[w].pc = "clearing"
    /\ Send(w, AfterClear(worker[w].job))
    /\ UNCHANGED <<product, variant, queue, edits>>

(* updateProductsOperationsOnly: the product is looked for in any channel. *)
ReadProduct(w) ==
    /\ worker[w].pc = "product"
    /\ worker' = [worker EXCEPT ![w] =
          IF product.deleted THEN Idle ELSE [@ EXCEPT !.pc = "variants", !.seen = product]]
    /\ UNCHANGED <<product, variant, docs, queue, harmed, edits, failures>>

(* The error is thrown again, with the documents deleted. *)
ReadProductFails(w) ==
    /\ worker[w].pc = "product"
    /\ worker' = [worker EXCEPT ![w] = Idle]
    /\ Fails(w)
    /\ UNCHANGED <<product, variant, docs, queue, edits>>

(* Mutant: the channels are those of the job. *)
ReadVariantsInChannel(w) ==
    /\ worker[w].pc = "variants"
    /\ worker' = [worker EXCEPT ![w] =
          [@ EXCEPT !.pc = "writing",
                    !.requests =
                        Upserts([worker[w].seen EXCEPT !.channels = {worker[w].job.channel}], variant)]]
    /\ UNCHANGED <<product, variant, docs, queue, harmed, edits, failures>>

(* The documents are made of the product as it was read and the variants   *)
(* as they are now.                                                        *)
ReadVariants(w) ==
    /\ worker[w].pc = "variants"
    /\ worker' = [worker EXCEPT ![w] =
          [@ EXCEPT !.pc = "writing",
                    !.requests = Upserts(worker[w].seen, variant)]]
    /\ UNCHANGED <<product, variant, docs, queue, harmed, edits, failures>>

NoVariants == [v \in Variants |-> [variant[v] EXCEPT !.state = "none"]]

(* The error is only logged: the job goes on as if there were no variants. *)
ReadVariantsFails(w) ==
    /\ worker[w].pc = "variants"
    /\ worker' = [worker EXCEPT ![w] =
          [@ EXCEPT !.pc = "writing",
                    !.requests = Upserts(worker[w].seen, NoVariants)]]
    /\ Fails(w)
    /\ UNCHANGED <<product, variant, docs, queue, edits>>

Writing(w) ==
    /\ worker[w].pc = "writing"
    /\ Send(w, Idle)
    /\ UNCHANGED <<product, variant, queue, edits>>

(* A document cannot be made: the job ends, with what it has sent.         *)
WritingFails(w) ==
    /\ worker[w].pc = "writing"
    /\ worker' = [worker EXCEPT ![w] = Idle]
    /\ Fails(w)
    /\ UNCHANGED <<product, variant, docs, queue, edits>>

-----------------------------------------------------------------------------

EditCatalog ==
    \E c \in Channels :
        \/ UpdateProduct(c) \/ DeleteProduct(c)
        \/ \E d \in Channels : AssignProductToChannel(c, d) \/ RemoveProductFromChannel(c, d)
        \/ \E v \in Variants :
              \/ CreateVariant(c, v) \/ UpdateVariant(c, v) \/ DeleteVariant(c, v)
              \/ \E d \in Channels :
                    AssignVariantToChannel(c, v, d) \/ RemoveVariantFromChannel(c, v, d)

Work(w) ==
    \/ Clear(w) \/ ClearFails(w) \/ Clearing(w)
    \/ ReadProduct(w) \/ ReadProductFails(w)
    \/ ReadVariants(w) \/ ReadVariantsFails(w)
    \/ Writing(w) \/ WritingFails(w)

Next == EditCatalog \/ \E w \in Workers : Work(w)

Spec == Init /\ [][Next]_vars

(* A worker takes the jobs that wait and goes on with the one it runs; the *)
(* catalog need not change.                                                *)
FairSpec == Spec /\ \A w \in Workers : WF_vars(Work(w))

-----------------------------------------------------------------------------
(* Properties *)

AtRest == queue = <<>> /\ \A w \in Workers : worker[w] = Idle

(* When no job waits or runs, the last one had no error, and it was for a  *)
(* channel the product was in, the index has exactly the documents the     *)
(* catalog asks for, in all channels, though the product and its variants  *)
(* were read at different times, changed meanwhile, and earlier jobs       *)
(* deleted nothing, were broken off with a part of the documents written,  *)
(* or wrote those of a product without variants.  This is what             *)
(* deleteProductOperations before updateProductsOperationsOnly is for.     *)
Mirrors == AtRest /\ harmed = {} => docs = View(product, variant)

There(c) == {docs[id] : id \in {i \in Id : i[1] = c /\ docs[i].there}}

(* A search that groups by product takes the first document it meets: at   *)
(* rest all documents of a channel say the same of the product, the range  *)
(* of prices is that of the documents in this channel, and the product is  *)
(* enabled when one of them is.                                            *)
GroupsAgree ==
    AtRest /\ harmed = {} =>
        \A c \in Channels : There(c) # {} =>
            \E low \in There(c), high \in There(c) : \A d \in There(c) :
                /\ low.price <= d.price /\ d.price <= high.price
                /\ d.min = low.price /\ d.max = high.price
                /\ d.productEnabled = \E e \in There(c) : e.enabled

(* Once the catalog is left alone the index catches up with it, unless the *)
(* last job had an error, whether it failed or went on (lines 518, 537 and *)
(* 878 of the controller: the index then stays as it is until another      *)
(* change of the product), or was for a channel the product had left (as   *)
(* it is when the product was taken out of the channel of the request).    *)
IndexCatchesUp == <>[](harmed = {} => docs = View(product, variant))
=============================================================================
