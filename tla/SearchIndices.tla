---------------------------- MODULE SearchIndices ----------------------------
(***************************************************************************)
(* elasticsearch-plugin: the life of the search index.                     *)
(*                                                                         *)
(* Every process of the shop looks for the index when it starts and makes  *)
(* it if it is missing (ElasticsearchService.createIndicesIfNotExists).    *)
(* The name that is searched and written, "live" here, is an alias.  An    *)
(* update job deletes and rewrites the documents of a product under that   *)
(* name.  A reindex job fills a new index under an alias of its own, page  *)
(* by page of the catalog, and then moves the live alias to it and deletes *)
(* the index that had it (ElasticsearchIndexerController.reindex and       *)
(* switchAlias).  Each await is a step here, so that jobs of two processes *)
(* interleave, and a process may go down between two steps.                *)
(*                                                                         *)
(* Abstractions: the documents of a product are one version of it (see     *)
(* ProductDocuments for what they are); a process runs one job at a time;  *)
(* jobs for the same product that wait are one job; an index is named      *)
(* after who made it instead of when.                                      *)
(***************************************************************************)
EXTENDS Integers, FiniteSets

CONSTANTS
    Products,          \* ids of the products of the catalog
    Workers,           \* processes of the shop
    Reindexes,         \* the reindex jobs somebody may ask for
    PageSize,          \* reindexProductsChunkSize
    MaxEdits,          \* bound on the changes to a product
    MaxEvents,         \* bound on the products that change, the reindexes, and
                       \* the kinds of fault in a behaviour, taken together
    Recurring          \* bound: the kinds of fault that may strike again

ASSUME ConstantsAssumption ==
    /\ IsFiniteSet(Products) /\ IsFiniteSet(Workers) /\ -1 \notin Products
    /\ \A r \in Reindexes : r \notin Workers /\ r \notin Products /\ r # "live" /\ r # -1
    /\ PageSize \in Nat \ {0}
    /\ {MaxEdits, MaxEvents} \subseteq Nat

VARIABLES
    catalog,     \* the version of each product in the database
    updates,     \* products an update job waits for
    asked,       \* reindex jobs: waiting (whenever that began), taken
    exists,      \* the indices that exist
    docs,        \* the version of each product in each index
    alias,       \* the indices each alias stands for
    worker,      \* the processes
    deaf,        \* processes that listen to no event of the catalog
    faults,      \* the kinds of fault so far
    exposed,     \* products whose last update overlapped another job, or got lost
    missed,      \* products that were in no page of a reindex
    raced        \* two processes were about to move the live alias at a time

engine == <<exists, docs, alias>>

notes == <<deaf, faults, exposed, missed, raced>>

vars == <<catalog, updates, asked, engine, worker, notes>>

-----------------------------------------------------------------------------
(* Types *)

Absent == -1

Version == Absent..MaxEdits

Alias == {"live"} \cup Reindexes

(* New indices are named after the time they were made at, here after who  *)
(* made them.  A write to a name that nothing has makes a plain index.     *)
Index == ({"new"} \X (Workers \cup Reindexes)) \cup ({"plain"} \X Alias)

PCs == {"down", "check", "create", "alias", "probe", "idle",
        "clear", "read", "write",
        "newIndex", "newAlias", "page", "fetch", "copy",
        "look", "name", "unplain", "swap", "drop", "finally"}

(* job: the product or reindex at work; item, seen: the product read last, *)
(* and its version; page, read, skip, more: where a reindex is in the      *)
(* catalog, and what was in its pages so far; found, from: what            *)
(* switchAlias has read of the live name.                                  *)
Worker == [pc : PCs, job : Products \cup Reindexes \cup {Absent},
           item : Products \cup {Absent}, seen : Version,
           page : SUBSET Products, read : SUBSET Products, skip : Nat, more : BOOLEAN,
           found : {"nothing", "alias", "plain"}, from : SUBSET Index]

At(pc) == [pc |-> pc, job |-> Absent, item |-> Absent, seen |-> Absent,
           page |-> {}, read |-> {}, skip |-> 0, more |-> TRUE,
           found |-> "nothing", from |-> {}]

(* boot: an index that is missing is not made at the start; away: the      *)
(* search engine does not answer at the start; create, bulk, switch: a     *)
(* request of a job to it fails; job: a job throws; crash.                 *)
Faults == {"boot", "away", "create", "bulk", "switch", "job", "crash"}

TypeOK ==
    /\ catalog \in [Products -> Version]
    /\ updates \subseteq Products
    /\ asked \in [Reindexes -> {"waits", "taken"}]
    /\ exists \subseteq Index
    /\ docs \in [Index -> [Products -> Version]]
    /\ alias \in [Alias -> SUBSET exists]
    /\ worker \in [Workers -> Worker]
    /\ \A w \in Workers : worker[w].pc \in {"write", "copy"} => worker[w].seen # Absent
    /\ deaf \subseteq Workers
    /\ faults \subseteq Faults
    /\ exposed \subseteq Products
    /\ missed \subseteq Products
    /\ raced \in BOOLEAN

Empty == [p \in Products |-> Absent]

(* A shop with an empty search engine; an update job waits for every       *)
(* product, as after the catalog was imported.                             *)
Init ==
    /\ catalog = [p \in Products |-> 0]
    /\ updates = Products
    /\ asked = [r \in Reindexes |-> "waits"]
    /\ exists = {}
    /\ docs = [i \in Index |-> Empty]
    /\ alias = [a \in Alias |-> {}]
    /\ worker = [w \in Workers |-> At("down")]
    /\ deaf = {}
    /\ faults = {}
    /\ exposed = {}
    /\ missed = {}
    /\ raced = FALSE

(* A bound on what happens to the system from outside. *)
Another ==
    Cardinality(faults) + Cardinality({p \in Products : catalog[p] # 0})
        + Cardinality({r \in Reindexes : asked[r] = "taken"}) < MaxEvents

-----------------------------------------------------------------------------
(* The search engine (external) *)

(* The indices a name stands for. *)
Target(name) == IF alias[name] # {} THEN alias[name]
                ELSE {<<"plain", name>>} \cap exists

(* A bulk request that upserts version v of p.  A name that stands for two *)
(* indices has no index to write to: the error is logged and swallowed     *)
(* (runBulkOperationsOnIndex).                                             *)
Upsert(name, p, v) ==
    LET i == IF Target(name) = {} THEN {<<"plain", name>>} ELSE Target(name)
    IN  IF Cardinality(i) = 1
        THEN /\ exists' = exists \cup i
             /\ docs' = [k \in Index |-> IF k \in i THEN [docs[k] EXCEPT ![p] = v]
                                                    ELSE docs[k]]
        ELSE UNCHANGED <<exists, docs>>

(* One that deletes the documents of p; it makes no index. *)
Remove(name, p) ==
    docs' = [k \in Index |-> IF Target(name) = {k} THEN [docs[k] EXCEPT ![p] = Absent]
                                                   ELSE docs[k]]

DeleteIndices(is) ==
    /\ exists' = exists \ is
    /\ docs' = [k \in Index |-> IF k \in is THEN Empty ELSE docs[k]]
    /\ alias' = [a \in Alias |-> alias[a] \ is]


Fault(kind) ==
    /\ IF kind \in faults THEN kind \in Recurring ELSE Another
    /\ faults' = faults \cup {kind}

-----------------------------------------------------------------------------
(* The catalog and its events (plugin.ts) *)

Starting(w) == worker[w].pc \in {"check", "create", "alias", "probe"}

(* The process in which p changes adds a job for it, unless it could not   *)
(* reach the search engine when it started: it listens to no event then.   *)
Announce(w, p) ==
    /\ catalog[p] # 0 \/ Another
    /\ worker[w].pc # "down" /\ ~Starting(w)
    /\ IF w \in deaf THEN exposed' = exposed \cup {p} /\ UNCHANGED updates
                     ELSE updates' = updates \cup {p} /\ UNCHANGED exposed
    /\ UNCHANGED <<asked, engine, worker, deaf, faults, missed, raced>>

EditProduct(w, p) ==
    /\ catalog[p] \in 0..(MaxEdits - 1)
    /\ catalog' = [catalog EXCEPT ![p] = @ + 1]
    /\ Announce(w, p)

DeleteProduct(w, p) ==
    /\ catalog[p] \in 0..(MaxEdits - 1)
    /\ catalog' = [catalog EXCEPT ![p] = Absent]
    /\ Announce(w, p)

-----------------------------------------------------------------------------
(* Start and end of a process: onApplicationBootstrap, and                 *)
(* createIndicesIfNotExists                                                *)

Becomes(w, state) == worker' = [worker EXCEPT ![w] = state]

Goes(w, pc) == worker' = [worker EXCEPT ![w].pc = pc]

(* The processes that move the live alias: reindexes, and those that have  *)
(* found no index at their start.                                          *)
Movers == {w \in Workers : worker[w].job \in Reindexes \/ worker[w].pc \in {"create", "alias"}}

Start(w) ==
    /\ worker[w].pc = "down"
    /\ Becomes(w, At("check"))
    /\ deaf' = deaf \ {w}
    /\ UNCHANGED <<catalog, updates, asked, engine, faults, exposed, missed, raced>>

(* The search engine does not answer: the process goes on without an index *)
(* and without the events, but runs jobs like any other.                   *)
StartDeaf(w) ==
    /\ worker[w].pc = "down"
    /\ Fault(IF Target("live") = {} THEN "boot" ELSE "away")
    /\ Becomes(w, At("idle"))
    /\ deaf' = deaf \cup {w}
    /\ UNCHANGED <<catalog, updates, asked, engine, exposed, missed, raced>>

CheckIndex(w) ==
    /\ worker[w].pc = "check"
    /\ Goes(w, IF Target("live") = {} THEN "create" ELSE "probe")
    /\ raced' = (raced \/ (Target("live") = {} /\ Movers # {}))
    /\ UNCHANGED <<catalog, updates, asked, engine, deaf, faults, exposed, missed>>

CreateIndex(w) ==
    /\ worker[w].pc = "create"
    /\ exists' = exists \cup {<<"new", w>>}
    /\ Goes(w, "alias")
    /\ UNCHANGED <<catalog, updates, asked, docs, alias, notes>>

PutAlias(w) ==
    /\ worker[w].pc = "alias"
    /\ IF <<"plain", "live">> \in exists
       THEN UNCHANGED alias
       ELSE alias' = [alias EXCEPT !["live"] = @ \cup {<<"new", w>>}]
    /\ Becomes(w, At("idle"))
    /\ UNCHANGED <<catalog, updates, asked, exists, docs, notes>>

(* createIndices swallows its errors. *)
CreateFails(w) ==
    /\ worker[w].pc \in {"create", "alias"}
    /\ Fault("boot")
    /\ Becomes(w, At("idle"))
    /\ UNCHANGED <<catalog, updates, asked, engine, deaf, exposed, missed, raced>>

(* The index exists: its settings are compared with those of a temporary   *)
(* one, and a difference is logged.                                        *)
ProbeIndex(w) ==
    /\ worker[w].pc = "probe"
    /\ Becomes(w, At("idle"))
    /\ UNCHANGED <<catalog, updates, asked, engine, notes>>

(* The job queue may run an update that was interrupted again, or lose it; *)
(* a reindex is lost.                                                      *)
Interrupted(w) ==
    LET ps == {worker[w].job} \cap Products
    IN  \/ updates' = updates \cup ps /\ UNCHANGED exposed
        \/ exposed' = exposed \cup ps /\ UNCHANGED updates

Crash(w) ==
    /\ worker[w].pc # "down"
    /\ Fault("crash")
    /\ Interrupted(w)
    /\ Becomes(w, At("down"))
    /\ UNCHANGED <<catalog, asked, engine, deaf, missed, raced>>

(* A query of the database throws, or what makes the documents, or the     *)
(* finally block of switchAlias: nothing in the job catches it.            *)
JobFails(w) ==
    /\ worker[w].pc \in {"clear", "read", "write", "page", "fetch", "copy", "finally"}
    /\ Fault("job")
    /\ Interrupted(w)
    /\ Becomes(w, At("idle"))
    /\ UNCHANGED <<catalog, asked, engine, deaf, missed, raced>>

-----------------------------------------------------------------------------
(* updateProduct and its kin: updateProductsOperations of one product *)

Reindexing == {w \in Workers : worker[w].job \in Reindexes}

TakeUpdate(w, p) ==
    /\ worker[w].pc = "idle"
    /\ p \in updates
    /\ updates' = updates \ {p}
    /\ exposed' = IF Reindexing # {} \/ \E v \in Workers : worker[v].job = p
                  THEN exposed \cup {p} ELSE exposed \ {p}
    /\ missed' = IF Reindexing # {} THEN missed ELSE missed \ {p}
    /\ Becomes(w, [At("clear") EXCEPT !.job = p])
    /\ UNCHANGED <<catalog, asked, engine, deaf, faults, raced>>

(* Mutant: the documents of the product are not deleted first. *)
ClearNothing(w) ==
    /\ worker[w].pc = "clear"
    /\ Goes(w, "read")
    /\ UNCHANGED <<catalog, updates, asked, engine, notes>>

ClearProduct(w) ==
    /\ worker[w].pc = "clear"
    /\ Remove("live", worker[w].job)
    /\ Goes(w, "read")
    /\ UNCHANGED <<catalog, updates, asked, exists, alias, notes>>

ReadProduct(w) ==
    /\ worker[w].pc = "read"
    /\ LET v == catalog[worker[w].job]
       IN  Becomes(w, IF v = Absent THEN At("idle")
                      ELSE [worker[w] EXCEPT !.pc = "write", !.seen = v])
    /\ UNCHANGED <<catalog, updates, asked, engine, notes>>

WriteProduct(w) ==
    /\ worker[w].pc = "write"
    /\ Upsert("live", worker[w].job, worker[w].seen)
    /\ Becomes(w, At("idle"))
    /\ UNCHANGED <<catalog, updates, asked, alias, notes>>

-----------------------------------------------------------------------------
(* reindex *)

TakeReindex(w, r) ==
    /\ worker[w].pc = "idle"
    /\ asked[r] = "waits" /\ Another
    /\ asked' = [asked EXCEPT ![r] = "taken"]
    /\ exposed' = exposed \cup {p \in Products : \E v \in Workers : worker[v].job = p}
    /\ raced' = (raced \/ Movers # {})
    /\ Becomes(w, [At("newIndex") EXCEPT !.job = r])
    /\ UNCHANGED <<catalog, updates, engine, deaf, faults, missed>>

CreateNewIndex(w) ==
    /\ worker[w].pc = "newIndex"
    /\ exists' = exists \cup {<<"new", worker[w].job>>}
    /\ Goes(w, "newAlias")
    /\ UNCHANGED <<catalog, updates, asked, docs, alias, notes>>

PutNewAlias(w) ==
    /\ worker[w].pc = "newAlias"
    /\ alias' = [alias EXCEPT ![worker[w].job] = {<<"new", worker[w].job>>}]
    /\ Goes(w, "page")
    /\ UNCHANGED <<catalog, updates, asked, exists, docs, notes>>

(* createIndices swallows its errors, and the reindex goes on. *)
CreateNewFails(w) ==
    /\ worker[w].pc \in {"newIndex", "newAlias"}
    /\ Fault("create")
    /\ Goes(w, "page")
    /\ UNCHANGED <<catalog, updates, asked, engine, deaf, exposed, missed, raced>>

(* The products of the catalog, "skip" of them passed over.  The query     *)
(* asks for no order, so each page may come in an order of its own (an     *)
(* update of a product moves its row, and a deletion those behind it), and *)
(* a product may be in two pages or in none.                               *)
Present == {p \in Products : catalog[p] # Absent}

Pages(skip) ==
    LET left == Cardinality(Present) - skip
    IN  {page \in SUBSET Present :
            Cardinality(page) = IF left < 0 THEN 0 ELSE IF left < PageSize THEN left ELSE PageSize}

Turns(w, page, more) ==
    LET x == worker[w]
        read == x.read \cup page
    IN  /\ Becomes(w, [x EXCEPT !.pc = "fetch", !.page = page, !.read = read,
                                !.skip = @ + PageSize, !.more = more])
        /\ missed' = IF x.skip + PageSize < Cardinality(Present)
                     THEN missed ELSE missed \cup (Present \ read)

(* Mutant: a full page is taken for the last one. *)
ReadOnlyPage(w) ==
    /\ worker[w].pc = "page"
    /\ \E page \in Pages(worker[w].skip) : Turns(w, page, Cardinality(page) > PageSize)
    /\ UNCHANGED <<catalog, updates, asked, engine, deaf, faults, exposed, raced>>

ReadPage(w) ==
    /\ worker[w].pc = "page"
    /\ \E page \in Pages(worker[w].skip) : Turns(w, page, Cardinality(page) >= PageSize)
    /\ UNCHANGED <<catalog, updates, asked, engine, deaf, faults, exposed, raced>>

PageDone(w) ==
    /\ worker[w].pc = "fetch"
    /\ worker[w].page = {}
    /\ Goes(w, IF worker[w].more THEN "page" ELSE "look")
    /\ UNCHANGED <<catalog, updates, asked, engine, notes>>

(* Mutant: the product is not looked for again. *)
FetchUnchecked(w, p) ==
    /\ worker[w].pc = "fetch"
    /\ p \in worker[w].page
    /\ Becomes(w, [worker[w] EXCEPT !.page = @ \ {p}, !.pc = "copy", !.item = p,
                                    !.seen = catalog[p]])
    /\ UNCHANGED <<catalog, updates, asked, engine, notes>>

(* updateProductsOperationsOnly: the product is read again; it may have    *)
(* been deleted since the page was read.                                   *)
FetchProduct(w, p) ==
    /\ worker[w].pc = "fetch"
    /\ p \in worker[w].page
    /\ LET rest == [worker[w] EXCEPT !.page = @ \ {p}]
       IN  Becomes(w, IF catalog[p] = Absent THEN rest
                      ELSE [rest EXCEPT !.pc = "copy", !.item = p, !.seen = catalog[p]])
    /\ UNCHANGED <<catalog, updates, asked, engine, notes>>

Copied(w) ==
    Becomes(w, [worker[w] EXCEPT !.pc = "fetch", !.item = Absent, !.seen = Absent])

CopyProduct(w) ==
    /\ worker[w].pc = "copy"
    /\ Upsert(worker[w].job, worker[w].item, worker[w].seen)
    /\ Copied(w)
    /\ UNCHANGED <<catalog, updates, asked, alias, notes>>

(* A bulk request fails; the error is logged and the job goes on.          *)
BulkFails(w) ==
    /\ Fault("bulk")
    /\ \/ worker[w].pc = "clear" /\ Goes(w, "read")
       \/ worker[w].pc = "write" /\ Becomes(w, At("idle"))
       \/ worker[w].pc = "copy" /\ Copied(w)
    /\ UNCHANGED <<catalog, updates, asked, engine, deaf, exposed, missed, raced>>

-----------------------------------------------------------------------------
(* switchAlias *)

(* Mutant: whether the new index was made is not looked at. *)
LookOnlyAtLive(w) ==
    /\ worker[w].pc = "look"
    /\ Becomes(w, [At("name") EXCEPT !.job = worker[w].job,
                                     !.found = IF alias["live"] # {} THEN "alias"
                                               ELSE IF Target("live") # {} THEN "plain"
                                               ELSE "nothing"])
    /\ UNCHANGED <<catalog, updates, asked, engine, notes>>

(* existsAlias and exists of the live name; without an alias of its own    *)
(* the reindex ends here.                                                  *)
LookAtLive(w) ==
    /\ worker[w].pc = "look"
    /\ Becomes(w, IF alias[worker[w].job] = {} THEN At("idle")
                  ELSE [At("name") EXCEPT
                           !.job = worker[w].job,
                           !.found = IF alias["live"] # {} THEN "alias"
                                     ELSE IF Target("live") # {} THEN "plain"
                                     ELSE "nothing"])
    /\ UNCHANGED <<catalog, updates, asked, engine, notes>>

(* getIndexNameByAlias takes the first of the indices of the alias.        *)
NameLive(w) ==
    /\ worker[w].pc = "name"
    /\ \E from \in SUBSET alias["live"] :
          /\ Cardinality(from) = IF alias["live"] = {} THEN 0 ELSE 1
          /\ Becomes(w, [worker[w] EXCEPT
                            !.from = from,
                            !.pc = IF worker[w].found = "plain" THEN "unplain" ELSE "swap"])
    /\ UNCHANGED <<catalog, updates, asked, engine, notes>>

(* A plain index that has the name is deleted first.  An index is never    *)
(* deleted by its alias: that throws.                                      *)
DeletePlain(w) ==
    /\ worker[w].pc = "unplain"
    /\ IF Target("live") = {<<"plain", "live">>}
       THEN DeleteIndices(Target("live")) /\ Goes(w, "swap")
       ELSE Goes(w, "finally") /\ UNCHANGED <<exists, docs, alias>>
    /\ UNCHANGED <<catalog, updates, asked, notes>>

(* updateAliases is atomic.  It fails if an index has the live name, or    *)
(* the index to take the alias from is gone; if that index merely lost the *)
(* alias, the rest is carried out (must_exist is not set).                 *)
CanSwitch(w) ==
    /\ <<"plain", "live">> \notin exists
    /\ worker[w].found = "alias" => worker[w].from # {} /\ worker[w].from \subseteq exists

(* Mutant: the old index keeps the alias. *)
ShareAlias(w) ==
    /\ worker[w].pc = "swap"
    /\ CanSwitch(w)
    /\ LET r == worker[w].job
       IN  alias' = [alias EXCEPT ![r] = {}, !["live"] = @ \cup alias[r]]
    /\ Goes(w, "drop")
    /\ UNCHANGED <<catalog, updates, asked, exists, docs, notes>>

SwitchAlias(w) ==
    /\ worker[w].pc = "swap"
    /\ CanSwitch(w)
    /\ LET r == worker[w].job
           leaving == IF worker[w].found = "alias" THEN worker[w].from ELSE {}
       IN  alias' = [alias EXCEPT ![r] = {}, !["live"] = (@ \ leaving) \cup alias[r]]
    /\ Goes(w, "drop")
    /\ UNCHANGED <<catalog, updates, asked, exists, docs, notes>>

SwitchRefused(w) ==
    /\ worker[w].pc = "swap"
    /\ ~CanSwitch(w)
    /\ Goes(w, "finally")
    /\ UNCHANGED <<catalog, updates, asked, engine, notes>>

(* Any other request fails, or its answer is lost (the step before it was  *)
(* taken then): the error is caught and logged.                            *)
SwitchFails(w) ==
    /\ worker[w].pc \in {"look", "name", "unplain", "swap", "drop"}
    /\ Fault("switch")
    /\ Goes(w, "finally")
    /\ UNCHANGED <<catalog, updates, asked, engine, deaf, exposed, missed, raced>>

(* Mutant: the old index stays. *)
KeepOld(w) ==
    /\ worker[w].pc = "drop"
    /\ Becomes(w, At("idle"))
    /\ UNCHANGED <<catalog, updates, asked, engine, notes>>

(* The index the alias was taken from is deleted. *)
DropOld(w) ==
    /\ worker[w].pc = "drop"
    /\ DeleteIndices(IF worker[w].found = "alias" THEN worker[w].from ELSE {})
    /\ Becomes(w, At("idle"))
    /\ UNCHANGED <<catalog, updates, asked, notes>>

(* The finally block deletes the new index if it still has its own alias.  *)
DropNew(w) ==
    /\ worker[w].pc = "finally"
    /\ DeleteIndices(alias[worker[w].job])
    /\ Becomes(w, At("idle"))
    /\ UNCHANGED <<catalog, updates, asked, notes>>

-----------------------------------------------------------------------------

Boot(w) ==
    \/ Start(w) \/ StartDeaf(w) \/ CheckIndex(w) \/ CreateIndex(w) \/ PutAlias(w) \/ CreateFails(w)
    \/ ProbeIndex(w)

Update(w) ==
    \/ \E p \in Products : TakeUpdate(w, p)
    \/ ClearProduct(w) \/ ReadProduct(w) \/ WriteProduct(w)

Reindex(w) ==
    \/ \E r \in Reindexes : TakeReindex(w, r)
    \/ CreateNewIndex(w) \/ PutNewAlias(w) \/ CreateNewFails(w)
    \/ ReadPage(w) \/ PageDone(w) \/ CopyProduct(w)
    \/ \E p \in Products : FetchProduct(w, p)

Switch(w) ==
    \/ LookAtLive(w) \/ NameLive(w) \/ DeletePlain(w)
    \/ SwitchAlias(w) \/ SwitchRefused(w) \/ SwitchFails(w) \/ DropOld(w) \/ DropNew(w)

Next ==
    \/ \E w \in Workers, p \in Products : EditProduct(w, p) \/ DeleteProduct(w, p)
    \/ \E w \in Workers : Boot(w) \/ Update(w) \/ Reindex(w) \/ Switch(w)
                           \/ BulkFails(w) \/ JobFails(w) \/ Crash(w)

Spec == Init /\ [][Next]_vars

-----------------------------------------------------------------------------
(* Properties *)

(* The live name stands for two indices (a write would fail then, and a    *)
(* search find everything twice) only if two processes that may move it    *)
(* were at work at a time: whatever fails or crashes, a reindex takes the  *)
(* name from the index that has it, and a start gives it only to the first.*)
OneLiveIndex == ~raced => Cardinality(alias["live"]) <= 1

(* Once there is a live alias there always is one: a reindex moves it, and *)
(* no fault, crash or second process leaves the shop without an index.     *)
StaysLive == [][alias["live"] # {} => alias'["live"] # {}]_vars

(* No bulk request failed, and the live name is no plain index, as it is   *)
(* where a job finds no index because none could be made at the start.     *)
Undisturbed == faults \cap {"bulk", "boot"} = {}

(* A reindex never takes a product out of the search: one that is indexed  *)
(* and that no update is at work on or waits for stays indexed, in every   *)
(* step of every job and however many reindexes run at a time, unless it   *)
(* was in none of the pages a reindex read.                                *)
Indexed(p) == \E i \in Target("live") : docs[i][p] # Absent

Quiet(p) ==
    /\ catalog[p] # Absent
    /\ p \notin updates \cup missed
    /\ \A w \in Workers : worker[w].job # p

StaysFound ==
    [][\A p \in Products :
          Indexed(p) /\ Quiet(p) /\ Quiet(p)' /\ Undisturbed'
              => Indexed(p)']_vars

(* When all jobs are done, the live index has the version of the database  *)
(* of each product that no reindex missed and whose last update overlapped *)
(* no other job: an update is lost only by a fault, or to a job that ran   *)
(* at the same time.                                                       *)
AtRest == updates = {} /\ \A w \in Workers : worker[w].pc = "idle"

MirrorsCatalog ==
    AtRest /\ Undisturbed /\ ~raced =>
        \A p \in Products \ (exposed \cup missed) :
            \A i \in Target("live") : docs[i][p] = catalog[p]

(* No index is left over when all jobs are done and no fault happened,     *)
(* however many processes started or reindexed at a time.                  *)
NoLeftovers == AtRest /\ faults = {} => exists = alias["live"]
=============================================================================
