------------------------- MODULE SearchIndicesProofs -------------------------
(***************************************************************************)
(* Theorems about SearchIndices, for every catalog, every number of        *)
(* processes and reindexes, every size of a page and every fault: a shop   *)
(* that has an index keeps it; a product that is found stays found; the    *)
(* live index has what the catalog has; and no index is left over.         *)
(***************************************************************************)
EXTENDS SearchIndices, FiniteSetTheorems, TLAPS

USE DEF engine, notes

Reindexers == {"newIndex", "newAlias", "page", "fetch", "copy", "look",
               "name", "unplain", "swap", "drop", "finally"}

(* What a process holds fits the await it is at. *)
Fits(x) ==
    /\ x \in Worker
    /\ x.pc \in {"down", "check", "create", "alias", "probe", "idle"} => x.job = Absent
    /\ x.pc \in {"clear", "read", "write"} => x.job \in Products
    /\ x.pc \in Reindexers => x.job \in Reindexes
    /\ x.pc \in {"write", "copy"} => x.seen # Absent
    /\ x.pc = "copy" => x.item \in Products
    /\ x.pc \in {"newIndex", "newAlias"} => x.more /\ x.skip = 0 /\ x.read = {}
    /\ x.pc \in {"newIndex", "newAlias", "page"} => x.page = {}
    /\ x.from # {} => x.pc \in {"unplain", "swap", "drop", "finally"}

Typed ==
    /\ catalog \in [Products -> Version]
    /\ updates \subseteq Products
    /\ asked \in [Reindexes -> {"waits", "taken"}]
    /\ exists \subseteq Index
    /\ docs \in [Index -> [Products -> Version]]
    /\ alias \in [Alias -> SUBSET exists]
    /\ worker \in [Workers -> Worker]
    /\ \A w \in Workers : Fits(worker[w])
    /\ deaf \subseteq Workers
    /\ faults \subseteq Faults
    /\ exposed \subseteq Products
    /\ missed \subseteq Products
    /\ raced \in BOOLEAN

New(x) == <<"new", x>>

Plain == <<"plain", "live">>

(* A reindex runs once, in one process. *)
Taken ==
    /\ \A w \in Workers : worker[w].job \in Reindexes => asked[worker[w].job] = "taken"
    /\ \A v, w \in Workers :
           worker[v].job \in Reindexes /\ worker[v].job = worker[w].job => v = w

(* An alias of a reindex stands for its own index; the live one for no     *)
(* plain index.                                                            *)
Names ==
    /\ \A r \in Reindexes : alias[r] \subseteq {New(r)}
    /\ \A a \in Alias : alias["live"] \cap {<<"plain", a>>} = {}

(* An index is live, or a reindex has found it so. *)
Used(i) == i \in alias["live"] \/ \E w \in Workers : i \in worker[w].from

(* No index becomes live that was so before. *)
NewIsUnused ==
    /\ \A r \in Reindexes : Used(New(r)) =>
           /\ asked[r] = "taken" /\ alias[r] = {}
           /\ \A w \in Workers : worker[w].job = r => worker[w].pc \in {"drop", "finally"}
    /\ \A w \in Workers : worker[w].pc \in {"create", "alias"} => ~Used(New(w))

(* What a process is about to give a name is there; what it is about to    *)
(* delete is not live.                                                     *)
Kept ==
    \A w \in Workers :
        LET x == worker[w]
        IN  /\ x.pc = "alias" => New(w) \in exists
            /\ x.pc = "newAlias" => New(x.job) \in exists
            /\ x.pc \in {"name", "unplain", "swap"} => alias[x.job] # {}
            /\ x.from # {} => alias["live"] # {}
            /\ x.pc = "drop" /\ x.found = "alias" => x.from \cap alias["live"] = {}

(* For every number of reindexes at a time, however processes start. *)
LifeInv == Typed /\ Taken /\ Names /\ NewIsUnused /\ Kept

(* Unless the index could not be made at the start, it is there when the   *)
(* first process has started, and nothing is done to the products before.  *)
Booted ==
    "boot" \notin faults =>
        /\ Plain \notin exists
        /\ alias["live"] = {} => updates = Products
        /\ \A w \in Workers :
               LET x == worker[w]
               IN  /\ x.pc \notin {"down", "check", "create", "alias"} => alias["live"] # {}
                   /\ x.pc # "unplain"
                   /\ x.pc \in {"name", "swap", "drop"} => x.found = "alias"

Moves(x) == x.job \in Reindexes \/ x.pc \in {"create", "alias"}

(* What the one process that may move the live alias has read of it holds. *)
Single ==
    ~raced =>
        /\ \A v, w \in Workers : Moves(worker[v]) /\ Moves(worker[w]) => v = w
        /\ \A i, j \in alias["live"] : i = j
        /\ \A w \in Workers :
               LET x == worker[w]
               IN  /\ x.pc \in {"create", "alias"} => alias["live"] = {}
                   /\ x.pc \in {"name", "unplain", "swap"} => (x.found = "alias" <=> alias["live"] # {})
                   /\ x.pc = "swap" /\ x.found = "alias" => x.from = alias["live"]

(* A process is about to give an index a name, or to delete it. *)
Holds(w, x, i) ==
    \/ x.pc = "alias" /\ i = New(w)
    \/ /\ x.pc \in {"newAlias", "page", "fetch", "copy", "look", "name", "swap", "finally"}
       /\ i = New(x.job)
    \/ x.pc = "drop" /\ i \in x.from

(* Without a fault, every index is live or held. *)
Accounted ==
    faults = {} =>
        /\ \A i \in exists : i \in alias["live"] \/ \E w \in Workers : Holds(w, worker[w], i)
        /\ \A w \in Workers :
               worker[w].pc \in {"page", "fetch", "copy", "look", "name", "swap", "finally"} =>
                   alias[worker[w].job] # {}

OneInv == LifeInv /\ Booted /\ Single /\ Accounted

(* An index is empty before it has a name. *)
Blank(i) == \A p \in Products : docs[i][p] = Absent

Fresh ==
    \A r \in Reindexes :
        \/ Blank(New(r))
        \/ /\ asked[r] = "taken"
           /\ \A w \in Workers : worker[w].job = r => worker[w].pc \notin {"newIndex", "newAlias"}

(* A reindex has yet to come to p. *)
Ahead(x, p) ==
    /\ x.pc \in {"page", "fetch", "copy"}
    /\ \/ p \in x.page
       \/ x.pc = "copy" /\ x.item = p
       \/ x.more /\ p \notin x.read

(* The last version of p is indexed, or a job has it. *)
Settled(p) == p \notin updates \cup exposed \cup missed

(* A new index has p, or its reindex has yet to come to it or misses it. *)
Reached(x, p) ==
    /\ catalog[p] # Absent => docs[New(x.job)][p] # Absent \/ Ahead(x, p) \/ p \in missed
    /\ Settled(p) => \/ docs[New(x.job)][p] = catalog[p]
                     \/ catalog[p] # Absent /\ Ahead(x, p)
    /\ Settled(p) /\ x.pc = "copy" /\ x.item = p => x.seen = catalog[p]

Fillers == {"page", "fetch", "copy", "look", "name", "swap"}

Filled(x) ==
    x.pc \in Fillers /\ alias[x.job] # {} => \A p \in Products : Reached(x, p)

Filling == Undisturbed => \A w \in Workers : Filled(worker[w])

(* An update that overlaps a reindex or another update is known. *)
Overlaps ==
    /\ \A v, w \in Workers :
           worker[v].job \in Reindexes /\ worker[w].job \in Products => worker[w].job \in exposed
    /\ \A v, w \in Workers :
           v # w /\ worker[v].job = worker[w].job /\ worker[w].job \in Products => worker[w].job \in exposed

(* How far the last update of a product has come. *)
UpToDate ==
    Undisturbed /\ ~raced =>
        \A p \in Products, i \in alias["live"] : Settled(p) =>
            /\ (\A w \in Workers : worker[w].job # p) => docs[i][p] = catalog[p]
            /\ \A w \in Workers : worker[w].job = p =>
                   /\ worker[w].pc = "read" => docs[i][p] = Absent
                   /\ worker[w].pc = "write" => worker[w].seen = catalog[p]

DocsInv == OneInv /\ Fresh /\ Filling /\ Overlaps /\ UpToDate

-----------------------------------------------------------------------------
(* What the steps of a process do to it *)

(* The processes but w stay as they are, and w becomes one that fits. *)
Moved(w) ==
    /\ worker' \in [Workers -> Worker]
    /\ \A v \in Workers \ {w} : worker'[v] = worker[v]
    /\ \A v \in Workers : Fits(worker'[v])

(* It is done, or starts. *)
Rests(w, pc) ==
    Moved(w) /\ worker'[w].pc = pc /\ worker'[w].job = Absent /\ worker'[w].from = {}

(* It goes on with what it has. *)
Onward(w, pc) ==
    /\ Moved(w)
    /\ worker'[w].pc = pc
    /\ worker'[w].job = worker[w].job
    /\ worker'[w].found = worker[w].found
    /\ worker'[w].from = worker[w].from
    /\ worker'[w].page = worker[w].page
    /\ worker'[w].read = worker[w].read
    /\ worker'[w].skip = worker[w].skip
    /\ worker'[w].more = worker[w].more

(* A process that has just come to an await holds nothing.                 *)
LEMMA AtFacts ==
    ASSUME NEW pc \in PCs
    PROVE  /\ At(pc) \in Worker
           /\ At(pc).pc = pc /\ At(pc).job = Absent /\ At(pc).from = {}
           /\ At(pc).page = {} /\ At(pc).read = {} /\ At(pc).skip = 0 /\ At(pc).more = TRUE
BY ConstantsAssumption DEF At, Worker, Version, Absent

(* A process that becomes one that fits has moved.                         *)
LEMMA Becoming ==
    ASSUME Typed, NEW w \in Workers, NEW y, Fits(y), Becomes(w, y)
    PROVE  Moved(w) /\ worker'[w] = y
BY DEF Typed, Becomes, Moved, Fits

(* One that goes to rest, or starts again, holds nothing.                  *)
LEMMA Resting ==
    ASSUME Typed, NEW w \in Workers, NEW pc \in {"check", "idle", "down"}, Becomes(w, At(pc))
    PROVE  Rests(w, pc)
<1>1. pc \in PCs
  BY DEF PCs
<1>2. Fits(At(pc))
  BY <1>1, AtFacts DEF Fits, Reindexers
<1>3. Moved(w) /\ worker'[w] = At(pc)
  BY <1>2, Becoming
<1> QED
  BY <1>1, <1>3, AtFacts DEF Rests

(* An await ends, and nothing else is noted. *)
LEMMA Going ==
    ASSUME Typed, NEW w \in Workers, NEW pc \in PCs \ {"write", "copy", "newIndex"}, Goes(w, pc),
           pc \in {"down", "check", "create", "alias", "probe", "idle"} => worker[w].job = Absent,
           pc \in {"clear", "read", "write"} => worker[w].job \in Products,
           pc \in Reindexers => worker[w].job \in Reindexes,
           pc = "newAlias" => worker[w].more /\ worker[w].skip = 0 /\ worker[w].read = {},
           pc \in {"newAlias", "page"} => worker[w].page = {},
           worker[w].from # {} => pc \in {"unplain", "swap", "drop", "finally"}
    PROVE  Onward(w, pc)
<1>1. PICK x \in Worker : x = worker[w]
  BY DEF Typed
<1>2. PICK y : y = [x EXCEPT !.pc = pc]
  OBVIOUS
<1>3. /\ y \in Worker /\ y.pc = pc
      /\ y.job = x.job /\ y.page = x.page /\ y.read = x.read /\ y.skip = x.skip
      /\ y.more = x.more /\ y.found = x.found /\ y.from = x.from
  BY <1>2 DEF Worker
<1>4. Becomes(w, y)
  BY <1>1, <1>2 DEF Goes, Becomes, Typed
<1>5. Fits(y)
  BY <1>1, <1>3 DEF Fits
<1> QED
  BY <1>1, <1>3, <1>4, <1>5, Becoming DEF Onward

(* The start. *)
LEMMA BootFacts ==
    ASSUME Typed, NEW w \in Workers
    PROVE  /\ Start(w) => Rests(w, "check")
           /\ StartDeaf(w) \/ JobFails(w) => Rests(w, "idle")
           /\ CheckIndex(w) => Rests(w, IF Target("live") = {} THEN "create" ELSE "probe")
           /\ CreateIndex(w) => Rests(w, "alias")
           /\ PutAlias(w) \/ CreateFails(w) \/ ProbeIndex(w) => Rests(w, "idle")
           /\ Crash(w) => Rests(w, "down")
<1>1. ASSUME NEW pc \in {"create", "probe", "alias"}, Goes(w, pc), worker[w].pc \in {"check", "create"}
      PROVE  Rests(w, pc)
  <2>1. pc \in PCs \ {"write", "copy", "newIndex"} /\ pc \notin Reindexers
    BY DEF PCs, Reindexers
  <2>2. worker[w].job = Absent /\ worker[w].from = {}
    BY <1>1 DEF Typed, Fits
  <2>3. Onward(w, pc)
    BY <1>1, <2>1, <2>2, Going
  <2> QED
    BY <2>2, <2>3 DEF Onward, Rests
<1>2. CheckIndex(w) => Rests(w, IF Target("live") = {} THEN "create" ELSE "probe")
  BY <1>1 DEF CheckIndex
<1>3. CreateIndex(w) => Rests(w, "alias")
  BY <1>1 DEF CreateIndex
<1> QED
  BY <1>2, <1>3, Resting DEF Start, StartDeaf, PutAlias, CreateFails, ProbeIndex, JobFails, Crash

(* An update. *)
LEMMA UpdateFacts ==
    ASSUME Typed, NEW w \in Workers
    PROVE  /\ \A p \in Products : TakeUpdate(w, p) =>
                  /\ Moved(w)
                  /\ worker'[w].pc = "clear" /\ worker'[w].job = p /\ worker'[w].from = {}
           /\ ClearProduct(w) => Onward(w, "read") /\ worker[w].job \in Products
           /\ ReadProduct(w) => worker[w].job \in Products
           /\ ReadProduct(w) /\ catalog[worker[w].job] = Absent => Rests(w, "idle")
           /\ ReadProduct(w) /\ catalog[worker[w].job] # Absent =>
                  /\ Moved(w)
                  /\ worker'[w].pc = "write" /\ worker'[w].job = worker[w].job
                  /\ worker'[w].from = {} /\ worker'[w].seen = catalog[worker[w].job]
           /\ WriteProduct(w) =>
                  Rests(w, "idle") /\ worker[w].job \in Products /\ worker[w].seen \in Version
<1>1. ASSUME NEW p \in Products, TakeUpdate(w, p)
      PROVE  /\ Moved(w)
             /\ worker'[w].pc = "clear" /\ worker'[w].job = p /\ worker'[w].from = {}
  <2>1. PICK x \in Worker : x = At("clear") /\ x.from = {}
    BY AtFacts DEF PCs
  <2>2. PICK y : y = [x EXCEPT !.job = p]
    OBVIOUS
  <2>3. y \in Worker /\ y.pc = x.pc /\ y.job = p /\ y.from = x.from
    BY <2>2 DEF Worker
  <2>4. x.pc = "clear"
    BY <2>1, AtFacts DEF PCs
  <2>5. Fits(y) /\ Becomes(w, y)
    BY <1>1, <2>1, <2>2, <2>3, <2>4 DEF Fits, Reindexers, TakeUpdate
  <2> QED
    BY <2>1, <2>3, <2>4, <2>5, Becoming
<1>2. ASSUME ClearProduct(w) PROVE Onward(w, "read") /\ worker[w].job \in Products
  <2>1. worker[w].job \in Products /\ worker[w].from = {}
    BY <1>2 DEF Typed, Fits, ClearProduct
  <2>2. "read" \in PCs \ {"write", "copy", "newIndex"} /\ "read" \notin Reindexers
    BY DEF PCs, Reindexers
  <2> QED
    BY <1>2, <2>1, <2>2, Going DEF ClearProduct
<1>3. ReadProduct(w) => worker[w].job \in Products
  BY DEF Typed, Fits, ReadProduct
<1>4. ReadProduct(w) /\ catalog[worker[w].job] = Absent => Rests(w, "idle")
  BY Resting DEF ReadProduct
<1>5. ASSUME ReadProduct(w), catalog[worker[w].job] # Absent
      PROVE  /\ Moved(w)
             /\ worker'[w].pc = "write" /\ worker'[w].job = worker[w].job
             /\ worker'[w].from = {} /\ worker'[w].seen = catalog[worker[w].job]
  <2>1. PICK x \in Worker : x = worker[w] /\ x.job \in Products /\ x.from = {}
    BY <1>5 DEF Typed, Fits, ReadProduct
  <2>2. PICK v \in Version : v = catalog[x.job] /\ v # Absent
    BY <1>5, <2>1 DEF Typed
  <2>3. PICK y : y = [x EXCEPT !.pc = "write", !.seen = v]
    OBVIOUS
  <2>4. y \in Worker /\ y.pc = "write" /\ y.job = x.job /\ y.from = x.from /\ y.seen = v
    BY <2>3 DEF Worker, PCs
  <2>5. Fits(y) /\ Becomes(w, y)
    BY <1>5, <2>1, <2>2, <2>3, <2>4 DEF Fits, Reindexers, ReadProduct
  <2> QED
    BY <2>1, <2>2, <2>4, <2>5, Becoming
<1>6. WriteProduct(w) =>
          Rests(w, "idle") /\ worker[w].job \in Products /\ worker[w].seen \in Version
  BY Resting DEF Typed, Fits, Worker, WriteProduct
<1> QED
  BY <1>1, <1>2, <1>3, <1>4, <1>5, <1>6

(* The loop of a reindex. *)
LEMMA ReindexFacts ==
    ASSUME Typed, NEW w \in Workers
    PROVE  LET x == worker[w]
               y == worker'[w]
           IN  /\ \A r \in Reindexes : TakeReindex(w, r) =>
                      Moved(w) /\ y.pc = "newIndex" /\ y.job = r /\ y.from = {} /\ y.read = {}
               /\ CreateNewIndex(w) => Onward(w, "newAlias") /\ x.job \in Reindexes
               /\ PutNewAlias(w) \/ CreateNewFails(w) =>
                      Onward(w, "page") /\ x.job \in Reindexes /\ x.more /\ x.skip = 0
               /\ PageDone(w) =>
                      Onward(w, IF x.more THEN "page" ELSE "look") /\ x.job \in Reindexes /\ x.page = {}
               /\ ReadPage(w) =>
                      /\ Moved(w) /\ y.pc = "fetch" /\ y.job = x.job /\ x.job \in Reindexes
                      /\ y.from = {} /\ y.page \in Pages(x.skip) /\ y.read = x.read \cup y.page
                      /\ y.more = (Cardinality(y.page) >= PageSize)
                      /\ missed' = IF x.skip + PageSize < Cardinality(Present)
                                   THEN missed ELSE missed \cup (Present \ y.read)
                      /\ x.skip \in Nat /\ x.page = {}
               /\ \A p \in Products : FetchProduct(w, p) =>
                      /\ Moved(w) /\ y.job = x.job /\ x.job \in Reindexes /\ y.from = {}
                      /\ y.page = x.page \ {p} /\ y.read = x.read /\ y.more = x.more
                      /\ \/ catalog[p] = Absent /\ y.pc = "fetch"
                         \/ /\ catalog[p] # Absent /\ y.pc = "copy"
                            /\ y.item = p /\ y.seen = catalog[p]
               /\ CopyProduct(w) \/ (BulkFails(w) /\ x.pc = "copy") =>
                      /\ Onward(w, "fetch") /\ x.job \in Reindexes
                      /\ x.item \in Products /\ x.seen \in Version /\ x.seen # Absent
               /\ BulkFails(w) /\ x.pc = "clear" => Onward(w, "read") /\ x.job \in Products
               /\ BulkFails(w) /\ x.pc = "write" => Rests(w, "idle") /\ x.job \in Products
               /\ BulkFails(w) => x.pc \in {"clear", "write", "copy"}
<1> DEFINE y == worker'[w]
<1>1. PICK x \in Worker : x = worker[w] /\ Fits(x)
  BY DEF Typed
<1>2. /\ x.skip \in Nat /\ x.page \in SUBSET Products /\ x.from \in SUBSET Index
      /\ x.seen \in Version /\ x.job \in Products \cup Reindexes \cup {Absent}
  BY DEF Worker
<1>3. x.pc \in {"newIndex", "newAlias", "page", "fetch", "copy", "look"} =>
          x.job \in Reindexes /\ x.from = {}
  BY <1>1 DEF Fits, Reindexers
<1>4. ASSUME NEW pc \in {"newAlias", "page", "fetch", "look"}, Goes(w, pc),
             x.pc \in {"newIndex", "newAlias", "page", "fetch", "copy", "look"},
             pc = "newAlias" => x.more /\ x.skip = 0 /\ x.read = {}, pc \in {"newAlias", "page"} => x.page = {}
      PROVE  Onward(w, pc)
  <2>1. pc \in PCs \ {"write", "copy", "newIndex"}
    BY DEF PCs
  <2> QED
    BY <1>1, <1>3, <1>4, <2>1, Going
<1>5. ASSUME NEW r \in Reindexes, TakeReindex(w, r)
      PROVE  Moved(w) /\ y.pc = "newIndex" /\ y.job = r /\ y.from = {} /\ y.read = {}
  <2>1. PICK a \in Worker : a = At("newIndex") /\ a.pc = "newIndex" /\ a.from = {}
                            /\ a.skip = 0 /\ a.more = TRUE /\ a.page = {} /\ a.read = {}
    BY AtFacts DEF PCs
  <2>2. PICK b : b = [a EXCEPT !.job = r]
    OBVIOUS
  <2>3. b \in Worker /\ b.pc = a.pc /\ b.job = r /\ b.from = a.from /\ b.skip = a.skip /\ b.more = a.more
        /\ b.page = a.page /\ b.read = a.read
    BY <2>2 DEF Worker
  <2>4. Fits(b) /\ Becomes(w, b)
    BY <1>5, <2>1, <2>2, <2>3 DEF Fits, TakeReindex
  <2> QED
    BY <2>1, <2>3, <2>4, Becoming
<1>6. CreateNewIndex(w) => Onward(w, "newAlias") /\ x.job \in Reindexes
  BY <1>1, <1>3, <1>4 DEF CreateNewIndex, Fits
<1>7. PutNewAlias(w) \/ CreateNewFails(w) =>
          Onward(w, "page") /\ x.job \in Reindexes /\ x.more /\ x.skip = 0
  BY <1>1, <1>3, <1>4 DEF PutNewAlias, CreateNewFails, Fits
<1>8. PageDone(w) =>
          Onward(w, IF x.more THEN "page" ELSE "look") /\ x.job \in Reindexes /\ x.page = {}
  BY <1>1, <1>3, <1>4 DEF PageDone
<1>9. ASSUME ReadPage(w)
      PROVE  /\ Moved(w) /\ y.pc = "fetch" /\ y.job = x.job /\ x.job \in Reindexes
             /\ y.from = {} /\ y.page \in Pages(x.skip) /\ y.read = x.read \cup y.page
             /\ y.more = (Cardinality(y.page) >= PageSize)
             /\ missed' = IF x.skip + PageSize < Cardinality(Present)
                          THEN missed ELSE missed \cup (Present \ y.read)
             /\ x.page = {}
  <2>1. PICK page \in Pages(x.skip) : Turns(w, page, Cardinality(page) >= PageSize) /\ x.pc = "page"
    BY <1>1, <1>9 DEF ReadPage
  <2>2. PICK skip \in Nat : skip = x.skip + PageSize
    BY <1>2, ConstantsAssumption
  <2>3. PICK more \in BOOLEAN : more = (Cardinality(page) >= PageSize)
    <3>1. (Cardinality(page) >= PageSize) \in BOOLEAN
      OBVIOUS
    <3> QED
      BY <3>1, Zenon
  <2>4. page \in SUBSET Products /\ x.read \cup page \in SUBSET Products
    BY <2>1 DEF Pages, Present, Worker
  <2>5. PICK read \in SUBSET Products : read = x.read \cup page
    BY <2>4
  <2>6. PICK b : b = [x EXCEPT !.pc = "fetch", !.page = page, !.read = read, !.skip = skip,
                               !.more = more]
    OBVIOUS
  <2>7. /\ b \in Worker /\ b.pc = "fetch" /\ b.job = x.job /\ b.from = x.from
        /\ b.page = page /\ b.read = read /\ b.more = more
    BY <2>4, <2>5, <2>6 DEF Worker, PCs
  <2>8. /\ Becomes(w, b)
        /\ missed' = IF x.skip + PageSize < Cardinality(Present)
                     THEN missed ELSE missed \cup (Present \ read)
    BY <1>1, <2>1, <2>2, <2>3, <2>5, <2>6 DEF Turns
  <2>9. Fits(b)
    BY <1>1, <1>3, <2>1, <2>7 DEF Fits
  <2>10. Moved(w) /\ y = b
    BY <2>8, <2>9, Becoming
  <2>11. x.job \in Reindexes /\ x.from = {} /\ x.page = {}
    BY <1>1, <1>3, <2>1 DEF Fits
  <2> QED
    BY <2>1, <2>3, <2>5, <2>7, <2>8, <2>10, <2>11
<1>10. ASSUME NEW p \in Products, FetchProduct(w, p)
       PROVE  /\ Moved(w) /\ y.job = x.job /\ x.job \in Reindexes /\ y.from = {}
              /\ y.page = x.page \ {p} /\ y.read = x.read /\ y.more = x.more
              /\ \/ catalog[p] = Absent /\ y.pc = "fetch"
                 \/ /\ catalog[p] # Absent /\ y.pc = "copy"
                    /\ y.item = p /\ y.seen = catalog[p]
  <2>1. PICK page \in SUBSET Products : page = x.page \ {p}
    BY <1>2
  <2>2. PICK v \in Version : v = catalog[p]
    BY DEF Typed
  <2>3. PICK a : a = [x EXCEPT !.page = page]
    OBVIOUS
  <2>4. /\ a \in Worker /\ a.pc = x.pc /\ a.job = x.job /\ a.from = x.from
        /\ a.page = page /\ a.read = x.read /\ a.more = x.more /\ a.seen = x.seen
    BY <2>3 DEF Worker
  <2>5. PICK b : b = [a EXCEPT !.pc = "copy", !.item = p, !.seen = v]
    OBVIOUS
  <2>6. /\ b \in Worker /\ b.pc = "copy" /\ b.item = p /\ b.seen = v /\ b.job = a.job /\ b.from = a.from
        /\ b.page = a.page /\ b.read = a.read /\ b.more = a.more
    BY <2>4, <2>5 DEF Worker, PCs
  <2>7. x.pc = "fetch" /\ Becomes(w, IF v = Absent THEN a ELSE b)
    BY <1>1, <1>10, <2>1, <2>2, <2>3, <2>5 DEF FetchProduct
  <2>8. Fits(a) /\ (v # Absent => Fits(b))
    BY <1>1, <1>3, <2>4, <2>6, <2>7 DEF Fits
  <2>9. CASE v = Absent
    <3>1. Becomes(w, a)
      BY <2>7, <2>9
    <3>2. Moved(w) /\ y = a
      BY <2>8, <3>1, Becoming
    <3> QED
      BY <1>3, <2>1, <2>2, <2>4, <2>7, <2>9, <3>2
  <2>10. CASE v # Absent
    <3>1. Becomes(w, b)
      BY <2>7, <2>10
    <3>2. Moved(w) /\ y = b
      BY <2>8, <2>10, <3>1, Becoming
    <3> QED
      BY <1>3, <2>1, <2>2, <2>4, <2>6, <2>7, <2>10, <3>2
  <2> QED
    BY <2>9, <2>10
<1>11. ASSUME CopyProduct(w) \/ (BulkFails(w) /\ x.pc = "copy")
       PROVE  /\ Onward(w, "fetch") /\ x.job \in Reindexes
              /\ x.item \in Products /\ x.seen \in Version /\ x.seen # Absent
  <2>1. x.pc = "copy" /\ Copied(w)
    BY <1>1, <1>11 DEF CopyProduct, BulkFails
  <2>0. PICK none : none = Absent /\ none \in Version /\ none \in Products \cup {Absent}
    BY ConstantsAssumption DEF Version, Absent
  <2>2. PICK b : b = [x EXCEPT !.pc = "fetch", !.item = none, !.seen = none]
    OBVIOUS
  <2>3. /\ b \in Worker /\ b.pc = "fetch" /\ b.job = x.job /\ b.from = x.from /\ b.found = x.found
        /\ b.page = x.page /\ b.read = x.read /\ b.skip = x.skip /\ b.more = x.more
    BY <2>0, <2>2 DEF Worker, PCs
  <2>4. Becomes(w, b)
    BY <1>1, <2>0, <2>1, <2>2 DEF Copied
  <2>5. Fits(b)
    BY <1>1, <1>3, <2>1, <2>3 DEF Fits
  <2> QED
    BY <1>1, <1>2, <1>3, <2>1, <2>3, <2>4, <2>5, Becoming DEF Onward, Fits
<1>12. ASSUME BulkFails(w), x.pc = "clear" PROVE Onward(w, "read") /\ x.job \in Products
  <2>1. x.job \in Products /\ x.from = {}
    BY <1>1, <1>12 DEF Fits
  <2>2. "read" \in PCs \ {"write", "copy", "newIndex"} /\ "read" \notin Reindexers
    BY DEF PCs, Reindexers
  <2>3. Goes(w, "read")
    BY <1>1, <1>12 DEF BulkFails
  <2> QED
    BY <1>1, <2>1, <2>2, <2>3, Going
<1>13. BulkFails(w) /\ x.pc = "write" => Rests(w, "idle") /\ x.job \in Products
  BY <1>1, Resting DEF BulkFails, Fits
<1>14. BulkFails(w) => x.pc \in {"clear", "write", "copy"}
  BY <1>1 DEF BulkFails
<1> HIDE DEF y
<1> QED
  BY <1>1, <1>2, <1>5, <1>6, <1>7, <1>8, <1>9, <1>10, <1>11, <1>12, <1>13, <1>14 DEF y

(* The end of a reindex. *)
LEMMA SwitchFacts ==
    ASSUME Typed, NEW w \in Workers
    PROVE  LET x == worker[w]
               y == worker'[w]
           IN  /\ Switch(w) => x.job \in Reindexes
               /\ LookAtLive(w) /\ alias[x.job] = {} => Rests(w, "idle")
               /\ LookAtLive(w) /\ alias[x.job] # {} =>
                      /\ Moved(w) /\ y.pc = "name" /\ y.job = x.job /\ y.from = {}
                      /\ y.found = "alias" <=> alias["live"] # {}
               /\ NameLive(w) =>
                      /\ Moved(w) /\ y.job = x.job /\ y.found = x.found
                      /\ y.pc = IF x.found = "plain" THEN "unplain" ELSE "swap"
                      /\ y.from \subseteq alias["live"]
                      /\ Cardinality(y.from) = IF alias["live"] = {} THEN 0 ELSE 1
               /\ DeletePlain(w) /\ Target("live") = {Plain} => Onward(w, "swap")
               /\ DeletePlain(w) /\ Target("live") # {Plain} => Onward(w, "finally")
               /\ SwitchAlias(w) => Onward(w, "drop")
               /\ SwitchRefused(w) \/ SwitchFails(w) => Onward(w, "finally")
               /\ DropOld(w) \/ DropNew(w) => Rests(w, "idle")
<1> DEFINE y == worker'[w]
<1>1. PICK x \in Worker : x = worker[w] /\ Fits(x)
  BY DEF Typed
<1>2. x.job \in Products \cup Reindexes \cup {Absent} /\ x.from \in SUBSET Index
      /\ x.found \in {"nothing", "alias", "plain"}
  BY DEF Worker
<1>3. x.pc \in Reindexers => x.job \in Reindexes
  BY <1>1 DEF Fits
<1>4. Switch(w) => x.pc \in Reindexers
  BY <1>1 DEF Switch, LookAtLive, NameLive, DeletePlain, SwitchAlias, SwitchRefused, SwitchFails,
              DropOld, DropNew, Reindexers
<1>5. ASSUME NEW pc \in {"swap", "drop", "finally"}, Goes(w, pc), x.pc \in Reindexers
      PROVE  Onward(w, pc)
  <2>1. pc \in PCs \ {"write", "copy", "newIndex"}
    BY DEF PCs
  <2> QED
    BY <1>1, <1>3, <1>5, <2>1, Going
<1>6. LookAtLive(w) /\ alias[x.job] = {} => Rests(w, "idle")
  BY <1>1, Resting DEF LookAtLive
<1>7. ASSUME LookAtLive(w), alias[x.job] # {}
      PROVE  /\ Moved(w) /\ y.pc = "name" /\ y.job = x.job /\ y.from = {}
             /\ y.found = "alias" <=> alias["live"] # {}
  <2>1. PICK a \in Worker : a = At("name") /\ a.pc = "name" /\ a.from = {}
    BY AtFacts DEF PCs
  <2>2. PICK found \in {"nothing", "alias", "plain"} :
            found = IF alias["live"] # {} THEN "alias"
                    ELSE IF Target("live") # {} THEN "plain" ELSE "nothing"
    OBVIOUS
  <2>3. PICK job \in Reindexes : job = x.job
    BY <1>1, <1>3, <1>7 DEF LookAtLive, Reindexers
  <2>4. PICK b : b = [a EXCEPT !.job = job, !.found = found]
    OBVIOUS
  <2>5. b \in Worker /\ b.pc = a.pc /\ b.job = job /\ b.from = a.from /\ b.found = found
    BY <2>4 DEF Worker
  <2>6. Becomes(w, b)
    BY <1>1, <1>7, <2>1, <2>2, <2>3, <2>4 DEF LookAtLive
  <2>7. Fits(b)
    BY <2>1, <2>5 DEF Fits
  <2> QED
    BY <2>1, <2>2, <2>3, <2>5, <2>6, <2>7, Becoming
<1>8. ASSUME NameLive(w)
      PROVE  /\ Moved(w) /\ y.job = x.job /\ y.found = x.found
             /\ y.pc = IF x.found = "plain" THEN "unplain" ELSE "swap"
             /\ y.from \subseteq alias["live"]
             /\ Cardinality(y.from) = IF alias["live"] = {} THEN 0 ELSE 1
  <2>1. PICK pc \in {"unplain", "swap"} : pc = IF x.found = "plain" THEN "unplain" ELSE "swap"
    OBVIOUS
  <2>2. PICK from \in SUBSET alias["live"] :
            /\ Cardinality(from) = IF alias["live"] = {} THEN 0 ELSE 1
            /\ Becomes(w, [x EXCEPT !.from = from, !.pc = pc])
    BY <1>1, <1>8, <2>1 DEF NameLive
  <2>3. from \in SUBSET Index
    BY DEF Typed, Alias
  <2>4. PICK b : b = [x EXCEPT !.from = from, !.pc = pc]
    OBVIOUS
  <2>5. b \in Worker /\ b.pc = pc /\ b.job = x.job /\ b.from = from /\ b.found = x.found
    BY <2>3, <2>4 DEF Worker, PCs
  <2>6. x.pc = "name" /\ x.job \in Reindexes
    BY <1>1, <1>3, <1>8 DEF NameLive, Reindexers
  <2>7. Fits(b)
    BY <2>5, <2>6 DEF Fits
  <2> QED
    BY <2>1, <2>2, <2>4, <2>5, <2>7, Becoming
<1>9. DeletePlain(w) /\ Target("live") = {Plain} => Onward(w, "swap")
  BY <1>1, <1>4, <1>5 DEF DeletePlain, Switch, Plain
<1>10. DeletePlain(w) /\ Target("live") # {Plain} => Onward(w, "finally")
  BY <1>1, <1>4, <1>5 DEF DeletePlain, Switch, Plain
<1>11. SwitchAlias(w) => Onward(w, "drop")
  BY <1>1, <1>4, <1>5 DEF SwitchAlias, Switch
<1>12. SwitchRefused(w) \/ SwitchFails(w) => Onward(w, "finally")
  BY <1>1, <1>4, <1>5 DEF SwitchRefused, SwitchFails, Switch
<1>13. DropOld(w) \/ DropNew(w) => Rests(w, "idle")
  BY Resting DEF DropOld, DropNew
<1> HIDE DEF y
<1> QED
  BY <1>1, <1>3, <1>4, <1>6, <1>7, <1>8, <1>9, <1>10, <1>11, <1>12, <1>13 DEF y

-----------------------------------------------------------------------------
(* What the steps do to the indices *)

(* An alias is not a plain index, and a plain index has one name. *)
LEMMA NamesDiffer ==
    /\ \A a \in Alias : <<"plain", a>> \in Index
    /\ \A x \in Workers \cup Reindexes : New(x) \in Index
    /\ \A x, y : New(x) = New(y) => x = y
    /\ \A x, a : New(x) # <<"plain", a>>
    /\ \A a : <<"plain", a>> = Plain => a = "live"
    /\ \A r \in Reindexes : r \in Alias /\ r # "live" /\ r \notin Workers
    /\ "live" \in Alias
BY ConstantsAssumption DEF Index, Alias, New, Plain

(* A write to a name goes to the indices of the alias, or, without one, to *)
(* the plain index of that name.                                           *)
LEMMA TargetFacts ==
    ASSUME Typed, NEW name \in Alias
    PROVE  /\ Target(name) \subseteq exists
           /\ alias[name] # {} => Target(name) = alias[name]
           /\ alias[name] = {} => Target(name) \subseteq {<<"plain", name>>}
BY DEF Typed, Target

(* A document is written. *)
LEMMA UpsertFacts ==
    ASSUME Typed, NEW name \in Alias, NEW p \in Products, NEW v \in Version, Upsert(name, p, v)
    PROVE  /\ exists \subseteq exists' /\ exists' \subseteq exists \cup {<<"plain", name>>}
           /\ alias[name] # {} => exists' = exists
           /\ docs' \in [Index -> [Products -> Version]]
           /\ \A k \in Index, q \in Products :
                  \/ docs'[k][q] = docs[k][q]
                  \/ /\ q = p /\ docs'[k][q] = v
                     /\ k \in alias[name] \cup {<<"plain", name>>}
           /\ \A k \in Index : alias[name] = {k} => docs'[k][p] = v
<1> DEFINE plain == <<"plain", name>>
           i == IF Target(name) = {} THEN {plain} ELSE Target(name)
<1>1. /\ plain \in Index
      /\ i \subseteq exists \cup {plain} /\ i \subseteq alias[name] \cup {plain}
      /\ alias[name] # {} => i = alias[name]
      /\ alias[name] \subseteq exists
      /\ docs \in [Index -> [Products -> Version]]
  BY NamesDiffer, TargetFacts DEF Typed
<1>2. \/ /\ exists' = exists \cup i
         /\ docs' = [k \in Index |-> IF k \in i THEN [docs[k] EXCEPT ![p] = v] ELSE docs[k]]
      \/ Cardinality(i) # 1 /\ UNCHANGED <<exists, docs>>
  BY DEF Upsert
<1> HIDE DEF plain, i
<1>3. exists \subseteq exists' /\ exists' \subseteq exists \cup {plain}
      /\ (alias[name] # {} => exists' = exists)
  BY <1>1, <1>2
<1>4. CASE docs' = [k \in Index |-> IF k \in i THEN [docs[k] EXCEPT ![p] = v] ELSE docs[k]]
  <2>1. ASSUME NEW k \in Index
        PROVE  /\ docs'[k] \in [Products -> Version]
               /\ \A q \in Products : docs'[k][q] = docs[k][q] \/ (q = p /\ docs'[k][q] = v /\ k \in i)
               /\ k \in i => docs'[k][p] = v
    BY <1>1, <1>4
  <2> QED
    BY <1>1, <1>3, <1>4, <2>1 DEF plain
<1>5. CASE Cardinality(i) # 1 /\ UNCHANGED <<exists, docs>>
  <2>1. \A k : alias[name] # {k}
    <3>1. \A k : Cardinality({k}) = 1
      BY FS_Singleton
    <3> QED
      BY <1>1, <1>5, <3>1
  <2> QED
    BY <1>1, <1>3, <1>5, <2>1 DEF plain
<1> QED
  BY <1>2, <1>4, <1>5

(* The documents of a product are deleted. *)
LEMMA RemoveFacts ==
    ASSUME Typed, NEW p \in Products, Remove("live", p)
    PROVE  /\ docs' \in [Index -> [Products -> Version]]
           /\ \A k \in Index, q \in Products :
                  \/ docs'[k][q] = docs[k][q]
                  \/ /\ q = p /\ docs'[k][q] = Absent
                     /\ k \in alias["live"] \cup {Plain}
           /\ \A k \in Index : alias["live"] = {k} => docs'[k][p] = Absent
<1>1. docs \in [Index -> [Products -> Version]] /\ Absent \in Version
  BY ConstantsAssumption DEF Typed, Version, Absent
<1>2. /\ Target("live") \subseteq alias["live"] \cup {Plain}
      /\ alias["live"] # {} => Target("live") = alias["live"]
  BY NamesDiffer, TargetFacts DEF Plain
<1>3. ASSUME NEW k \in Index
      PROVE  docs'[k] = IF Target("live") = {k} THEN [docs[k] EXCEPT ![p] = Absent] ELSE docs[k]
  BY DEF Remove
<1>4. docs' \in [Index -> [Products -> Version]]
  BY <1>1 DEF Remove
<1>5. \A k \in Index, q \in Products :
          \/ docs'[k][q] = docs[k][q]
          \/ q = p /\ docs'[k][q] = Absent /\ Target("live") = {k}
  BY <1>1, <1>3
<1>6. \A k \in Index : Target("live") = {k} => docs'[k][p] = Absent
  BY <1>1, <1>3
<1> QED
  BY <1>2, <1>4, <1>5, <1>6

(* A new index has none of the products.                                   *)
LEMMA EmptyFacts == Empty \in [Products -> Version] /\ \A p \in Products : Empty[p] = Absent
BY ConstantsAssumption DEF Empty, Version, Absent

(* Indices are deleted. *)
LEMMA DeleteFacts ==
    ASSUME Typed, NEW is, DeleteIndices(is)
    PROVE  /\ exists' = exists \ is
           /\ docs' \in [Index -> [Products -> Version]]
           /\ \A k \in Index : docs'[k] = IF k \in is THEN Empty ELSE docs[k]
           /\ alias' \in [Alias -> SUBSET exists']
           /\ \A a \in Alias : alias'[a] = alias[a] \ is
BY EmptyFacts DEF Typed, DeleteIndices

(* Updates and faults. *)
LEMMA FaultFacts ==
    ASSUME Typed, NEW kind \in Faults, Fault(kind)
    PROVE  faults' \subseteq Faults /\ kind \in faults' /\ faults \subseteq faults'
BY DEF Typed, Fault

(* A step of a process keeps the types if what it does to the rest does. *)
LEMMA Moving ==
    ASSUME Typed, NEW w \in Workers, Moved(w), UNCHANGED catalog,
           updates' \subseteq Products, asked' \in [Reindexes -> {"waits", "taken"}],
           exists' \subseteq Index, docs' \in [Index -> [Products -> Version]],
           alias' \in [Alias -> SUBSET exists'], faults' \subseteq Faults,
           deaf' \subseteq Workers, exposed' \subseteq Products, missed' \subseteq Products,
           raced' \in BOOLEAN
    PROVE  Typed'
BY DEF Typed, Moved, Fits

-----------------------------------------------------------------------------
(* The names of the indices *)

(* A step that moves no alias keeps LifeInv if what it makes of its        *)
(* process does.                                                           *)
LEMMA Steady ==
    ASSUME LifeInv, NEW w \in Workers, Moved(w), Typed', UNCHANGED alias, exists \subseteq exists',
           \A r \in Reindexes : asked[r] = "taken" => asked'[r] = "taken",
           worker'[w].from \subseteq worker[w].from \cup alias["live"],
           worker'[w].job \in Reindexes =>
               /\ asked'[worker'[w].job] = "taken"
               /\ \/ /\ worker'[w].job = worker[w].job
                     /\ worker[w].pc \notin {"drop", "finally"} \/ worker'[w].pc = "finally"
                  \/ asked[worker'[w].job] # "taken",
           worker'[w].pc \in {"create", "alias"} =>
               worker[w].pc \in {"create", "alias"} \/ alias["live"] = {},
           worker'[w].pc = "alias" => New(w) \in exists',
           worker'[w].pc = "newAlias" => New(worker'[w].job) \in exists',
           worker'[w].pc \in {"name", "unplain", "swap"} => alias[worker'[w].job] # {},
           worker'[w].pc # "drop"
    PROVE  LifeInv'
<1>1. Taken'
  <2>1. \A v \in Workers : worker'[v].job \in Reindexes => asked'[worker'[v].job] = "taken"
    BY DEF LifeInv, Taken, Moved
  <2>2. ASSUME NEW v \in Workers \ {w}, worker'[v].job \in Reindexes
        PROVE  worker'[v].job # worker'[w].job
    BY <2>2 DEF LifeInv, Taken, Moved
  <2>3. ASSUME NEW u \in Workers, NEW v \in Workers, worker'[u].job \in Reindexes,
               worker'[u].job = worker'[v].job
        PROVE  u = v
    <3>1. CASE u # w /\ v # w
      BY <2>3, <3>1 DEF LifeInv, Taken, Moved
    <3> QED
      BY <2>2, <2>3, <3>1
  <2> QED
    BY <2>1, <2>3 DEF Taken
<1>2. Names'
  BY DEF LifeInv, Names
<1>3. \A i : Used(i)' => Used(i)
  BY DEF Used, Moved
<1>4. NewIsUnused'
  <2>1. ASSUME NEW r \in Reindexes, Used(New(r))'
        PROVE  /\ asked'[r] = "taken" /\ alias'[r] = {}
               /\ \A v \in Workers : worker'[v].job = r => worker'[v].pc \in {"drop", "finally"}
    <3>1. /\ asked[r] = "taken" /\ alias[r] = {}
          /\ \A v \in Workers : worker[v].job = r => worker[v].pc \in {"drop", "finally"}
      BY <1>3, <2>1 DEF LifeInv, NewIsUnused
    <3>2. worker'[w].job = r => worker'[w].pc = "finally"
      BY <3>1
    <3> QED
      BY <3>1, <3>2 DEF Moved
  <2>2. ASSUME NEW v \in Workers, worker'[v].pc \in {"create", "alias"} PROVE ~Used(New(v))'
    <3>1. worker[v].pc \in {"create", "alias"} \/ alias["live"] = {}
      BY <2>2 DEF Moved
    <3>2. alias["live"] = {} => \A u \in Workers : worker[u].from = {}
      BY DEF LifeInv, Kept
    <3>3. ~Used(New(v))
      BY <3>1, <3>2 DEF LifeInv, NewIsUnused, Used
    <3> QED
      BY <1>3, <3>3
  <2> QED
    BY <2>1, <2>2 DEF NewIsUnused
<1>5. Kept'
  <2>1. ASSUME NEW v \in Workers
        PROVE  /\ worker'[v].pc = "alias" => New(v) \in exists'
               /\ worker'[v].pc = "newAlias" => New(worker'[v].job) \in exists'
               /\ worker'[v].pc \in {"name", "unplain", "swap"} => alias'[worker'[v].job] # {}
               /\ worker'[v].from # {} => alias'["live"] # {}
               /\ worker'[v].pc = "drop" /\ worker'[v].found = "alias" =>
                      worker'[v].from \cap alias'["live"] = {}
    <3>1. CASE v = w
      <4>1. worker[w].from # {} => alias["live"] # {}
        BY DEF LifeInv, Kept
      <4> QED
        BY <3>1, <4>1
    <3>2. CASE v # w
      <4>1. worker'[v] = worker[v]
        BY <3>2 DEF Moved
      <4> QED
        BY <4>1 DEF LifeInv, Kept
    <3> QED
      BY <3>1, <3>2
  <2> QED
    BY <2>1 DEF Kept
<1> QED
  BY <1>1, <1>2, <1>4, <1>5 DEF LifeInv

(* The start and end of a process. *)
LEMMA BootLives ==
    ASSUME LifeInv, NEW w \in Workers, Boot(w) \/ JobFails(w) \/ Crash(w)
    PROVE  LifeInv' /\ (alias["live"] # {} => alias'["live"] # {})
<1>1. Typed
  BY DEF LifeInv
<1>2. PICK pc \in PCs : /\ Rests(w, pc)
                        /\ pc \in {"create", "alias"} => worker[w].pc \in {"create", "alias"} \/ alias["live"] = {}
                        /\ pc # "drop" /\ pc # "newAlias" /\ pc \notin {"name", "unplain", "swap"}
                        /\ pc = "alias" => New(w) \in exists'
  <2>1. Target("live") = {} => alias["live"] = {}
    BY DEF Target
  <2>2. \A pc \in {"check", "create", "probe", "alias", "idle", "down"} :
            pc \in PCs /\ pc \notin {"drop", "newAlias", "name", "unplain", "swap"}
    BY DEF PCs
  <2>3. CASE CreateIndex(w)
    BY <1>1, <2>2, <2>3, BootFacts DEF CreateIndex, New
  <2>4. CASE CheckIndex(w)
    BY <1>1, <2>1, <2>2, <2>4, BootFacts
  <2>5. CASE Start(w)
    BY <1>1, <2>2, <2>5, BootFacts
  <2>6. CASE PutAlias(w) \/ CreateFails(w) \/ ProbeIndex(w) \/ StartDeaf(w) \/ JobFails(w)
    BY <1>1, <2>2, <2>6, BootFacts
  <2>7. CASE Crash(w)
    BY <1>1, <2>2, <2>7, BootFacts
  <2> QED
    BY <2>3, <2>4, <2>5, <2>6, <2>7 DEF Boot
<1>3. Moved(w) /\ worker'[w].pc = pc /\ worker'[w].job = Absent /\ worker'[w].from = {}
  BY <1>2 DEF Rests
<1>4. Absent \notin Reindexes
  BY ConstantsAssumption DEF Absent
<1>5. /\ UNCHANGED <<catalog, missed, asked, docs>>
      /\ updates' \subseteq Products /\ exists \subseteq exists' /\ exists' \subseteq Index
      /\ deaf' \subseteq Workers /\ faults' \subseteq Faults /\ exposed' \subseteq Products
      /\ raced' \in BOOLEAN
  <2>1. CASE CreateIndex(w)
    BY <1>1, <2>1, NamesDiffer DEF CreateIndex, Typed, New
  <2>2. CASE CreateFails(w)
    BY <1>1, <2>2, FaultFacts DEF CreateFails, Typed, Faults
  <2>3. CASE JobFails(w) \/ Crash(w)
    BY <1>1, <2>3, FaultFacts DEF JobFails, Crash, Interrupted, Typed, Faults
  <2>4. CASE Start(w) \/ CheckIndex(w) \/ ProbeIndex(w) \/ PutAlias(w)
    BY <1>1, <2>4 DEF Start, CheckIndex, ProbeIndex, PutAlias, Typed
  <2>5. CASE StartDeaf(w)
    BY <1>1, <2>5, FaultFacts DEF StartDeaf, Typed, Faults
  <2> QED
    BY <2>1, <2>2, <2>3, <2>4, <2>5 DEF Boot
<1>6. asked' \in [Reindexes -> {"waits", "taken"}] /\ docs' \in [Index -> [Products -> Version]]
  BY <1>1, <1>5 DEF Typed
<1>7. CASE UNCHANGED alias
  <2>1. Typed'
    <3>1. alias' \in [Alias -> SUBSET exists']
      BY <1>1, <1>5, <1>7 DEF Typed
    <3>2. missed' \subseteq Products
      BY <1>1, <1>5 DEF Typed
    <3> QED
      BY <1>1, <1>3, <1>5, <1>6, <3>1, <3>2, Moving
  <2> QED
    BY <1>2, <1>3, <1>4, <1>5, <1>7, <2>1, Steady
<1>8. CASE ~UNCHANGED alias
  <2>1. PutAlias(w)
    BY <1>8 DEF Boot, Start, StartDeaf, CheckIndex, CreateIndex, CreateFails, ProbeIndex, JobFails,
                Crash
  <2>2. /\ alias' = [alias EXCEPT !["live"] = @ \cup {New(w)}]
        /\ worker[w].pc = "alias" /\ worker'[w].pc = "idle" /\ exists' = exists
    BY <1>1, <1>8, <2>1, BootFacts DEF PutAlias, New, Rests
  <2>3. New(w) \in exists /\ ~Used(New(w))
    BY <2>2 DEF LifeInv, Kept, NewIsUnused
  <2>4. /\ alias \in [Alias -> SUBSET exists]
        /\ alias'["live"] = alias["live"] \cup {New(w)}
        /\ \A r \in Reindexes : alias'[r] = alias[r] /\ New(r) # New(w)
        /\ alias' \in [Alias -> SUBSET exists']
    BY <1>1, <2>2, <2>3, NamesDiffer DEF Typed
  <2>5. Typed'
    <3>1. missed' \subseteq Products
      BY <1>1, <1>5 DEF Typed
    <3> QED
      BY <1>1, <1>3, <1>5, <1>6, <2>4, <3>1, Moving
  <2>6. Taken'
    BY <1>3, <1>4, <1>5 DEF LifeInv, Taken, Moved
  <2>7. Names'
    BY <2>4, NamesDiffer DEF LifeInv, Names
  <2>8. \A i : Used(i)' => Used(i) \/ i = New(w)
    BY <1>3, <2>4 DEF Used, Moved
  <2>9. NewIsUnused'
    <3>1. ASSUME NEW v \in Workers, worker'[v].pc \in {"create", "alias"} PROVE ~Used(New(v))'
      <4>1. v # w /\ worker'[v] = worker[v]
        BY <1>3, <2>2, <3>1 DEF Moved
      <4>2. ~Used(New(v)) /\ New(v) # New(w)
        BY <3>1, <4>1, NamesDiffer DEF LifeInv, NewIsUnused
      <4> QED
        BY <2>8, <4>2
    <3>2. ASSUME NEW r \in Reindexes, Used(New(r))'
          PROVE  /\ asked'[r] = "taken" /\ alias'[r] = {}
                 /\ \A v \in Workers : worker'[v].job = r => worker'[v].pc \in {"drop", "finally"}
      BY <1>3, <1>4, <1>5, <2>4, <2>8, <3>2 DEF LifeInv, NewIsUnused, Moved
    <3> QED
      BY <3>1, <3>2 DEF NewIsUnused
  <2>10. Kept'
    <3>1. \A v \in Workers : New(w) \notin worker[v].from
      BY <2>3 DEF Used
    <3>2. ASSUME NEW v \in Workers
          PROVE  /\ worker'[v].pc = "alias" => New(v) \in exists'
                 /\ worker'[v].pc = "newAlias" => New(worker'[v].job) \in exists'
                 /\ worker'[v].pc \in {"name", "unplain", "swap"} => alias'[worker'[v].job] # {}
                 /\ worker'[v].from # {} => alias'["live"] # {}
                 /\ worker'[v].pc = "drop" /\ worker'[v].found = "alias" =>
                        worker'[v].from \cap alias'["live"] = {}
      <4>1. CASE v = w
        BY <1>3, <2>2, <4>1
      <4>2. CASE v # w
        <5>1. worker'[v] = worker[v]
          BY <1>3, <4>2 DEF Moved
        <5>2. worker[v].pc \in {"name", "unplain", "swap"} => worker[v].job \in Reindexes
          BY <1>1 DEF Typed, Fits, Reindexers
        <5> QED
          BY <2>2, <2>4, <3>1, <5>1, <5>2 DEF LifeInv, Kept
      <4> QED
        BY <4>1, <4>2
    <3> QED
      BY <3>2 DEF Kept
  <2> QED
    BY <2>4, <2>5, <2>6, <2>7, <2>9, <2>10 DEF LifeInv
<1> QED
  BY <1>7, <1>8

(* Updates. *)
LEMMA UpdateLives ==
    ASSUME LifeInv, NEW w \in Workers, Update(w)
    PROVE  LifeInv' /\ UNCHANGED alias
<1>1. Typed
  BY DEF LifeInv
<1>2. Absent \notin Reindexes /\ \A p \in Products : p \notin Reindexes
  BY ConstantsAssumption DEF Absent
<1>3. /\ Moved(w) /\ worker'[w].from = {} /\ worker'[w].job \notin Reindexes
      /\ worker'[w].pc \in {"clear", "read", "write", "idle"}
  <2>1. CASE \E p \in Products : TakeUpdate(w, p)
    BY <1>1, <1>2, <2>1, UpdateFacts
  <2>2. CASE ClearProduct(w)
    <3>1. worker[w].from = {}
      BY <1>1, <2>2 DEF ClearProduct, Typed, Fits
    <3> QED
      BY <1>1, <1>2, <2>2, <3>1, UpdateFacts DEF Onward
  <2>3. CASE ReadProduct(w)
    BY <1>1, <1>2, <2>3, UpdateFacts DEF Rests
  <2>4. CASE WriteProduct(w)
    BY <1>1, <1>2, <2>4, UpdateFacts DEF Rests
  <2> QED
    BY <2>1, <2>2, <2>3, <2>4 DEF Update
<1>4. /\ UNCHANGED <<catalog, asked, alias, deaf, faults, raced>>
      /\ updates' \subseteq Products /\ exists \subseteq exists' /\ exists' \subseteq Index
      /\ exposed' \subseteq Products /\ missed' \subseteq Products /\ docs' \in [Index -> [Products -> Version]]
  <2>1. CASE \E p \in Products : TakeUpdate(w, p)
    BY <1>1, <2>1 DEF TakeUpdate, Typed
  <2>2. CASE ClearProduct(w)
    BY <1>1, <2>2, RemoveFacts, UpdateFacts DEF ClearProduct, Typed
  <2>3. CASE ReadProduct(w)
    BY <1>1, <2>3 DEF ReadProduct, Typed
  <2>4. CASE WriteProduct(w)
    <3>1. worker[w].job \in Products /\ worker[w].seen \in Version
      BY <1>1, <2>4, UpdateFacts
    <3>2. exists \subseteq exists' /\ exists' \subseteq exists \cup {Plain}
          /\ docs' \in [Index -> [Products -> Version]]
      BY <1>1, <2>4, <3>1, UpsertFacts, NamesDiffer DEF WriteProduct, Plain
    <3> QED
      BY <1>1, <2>4, <3>2, NamesDiffer DEF WriteProduct, Typed, Plain
  <2> QED
    BY <2>1, <2>2, <2>3, <2>4 DEF Update
<1>5. Typed'
  <2>1. alias' \in [Alias -> SUBSET exists'] /\ asked' \in [Reindexes -> {"waits", "taken"}]
        /\ deaf' \subseteq Workers /\ faults' \subseteq Faults /\ raced' \in BOOLEAN
    BY <1>1, <1>4 DEF Typed
  <2> QED
    BY <1>1, <1>3, <1>4, <2>1, Moving
<1> QED
  BY <1>3, <1>4, <1>5, Steady

(* The loop of a reindex. *)
LEMMA ReindexLives ==
    ASSUME LifeInv, NEW w \in Workers, Reindex(w) \/ BulkFails(w)
    PROVE  LifeInv' /\ alias'["live"] = alias["live"]
<1>1. Typed
  BY DEF LifeInv
<1>2. worker[w].job \in Reindexes => asked[worker[w].job] = "taken"
  BY DEF LifeInv, Taken
<1>3. Absent \notin Reindexes /\ \A p \in Products : p \notin Reindexes
  BY ConstantsAssumption DEF Absent
<1>4. /\ Moved(w) /\ worker'[w].from = {}
      /\ worker'[w].job \notin Reindexes \/ worker'[w].job = worker[w].job
         \/ \E r \in Reindexes : TakeReindex(w, r) /\ worker'[w].job = r
      /\ worker'[w].pc \in {"read", "idle", "newIndex", "newAlias", "page", "fetch", "copy", "look"}
      /\ worker'[w].pc = "newAlias" => CreateNewIndex(w) /\ worker'[w].job = worker[w].job
      /\ worker[w].pc \notin {"drop", "finally"}
  <2>1. CASE \E r \in Reindexes : TakeReindex(w, r)
    <3>1. worker[w].pc \notin {"drop", "finally"}
      BY <2>1 DEF TakeReindex
    <3> QED
      BY <1>1, <2>1, <3>1, ReindexFacts
  <2>2. CASE \E p \in Products : FetchProduct(w, p)
    <3>1. worker[w].pc \notin {"drop", "finally"}
      BY <2>2 DEF FetchProduct
    <3> QED
      BY <1>1, <2>2, <3>1, ReindexFacts
  <2>3. CASE ReadPage(w)
    <3>1. worker[w].pc \notin {"drop", "finally"}
      BY <2>3 DEF ReadPage
    <3> QED
      BY <1>1, <2>3, <3>1, ReindexFacts
  <2>4. CASE CreateNewIndex(w) \/ PutNewAlias(w) \/ CreateNewFails(w) \/ PageDone(w)
             \/ CopyProduct(w) \/ BulkFails(w)
    <3>1. worker[w].pc \in {"newIndex", "newAlias", "fetch", "copy", "clear", "write"}
      BY <2>4 DEF CreateNewIndex, PutNewAlias, CreateNewFails, PageDone, CopyProduct, BulkFails
    <3>2. worker[w].from = {}
      BY <1>1, <3>1 DEF Typed, Fits
    <3>3. \/ \E pc \in {"page", "fetch", "look", "read"} : Onward(w, pc)
          \/ Onward(w, "newAlias") /\ CreateNewIndex(w)
          \/ Rests(w, "idle")
      BY <1>1, <2>4, ReindexFacts
    <3> QED
      BY <1>3, <3>1, <3>2, <3>3 DEF Onward, Rests
  <2> QED
    BY <2>1, <2>2, <2>3, <2>4 DEF Reindex
<1>5. /\ UNCHANGED <<catalog, deaf, updates>>
      /\ missed' \subseteq Products /\ raced' \in BOOLEAN
      /\ asked' \in [Reindexes -> {"waits", "taken"}]
      /\ \A r \in Reindexes : asked[r] = "taken" => asked'[r] = "taken"
      /\ \A r \in Reindexes : TakeReindex(w, r) => asked[r] # "taken" /\ asked'[r] = "taken"
      /\ exists \subseteq exists' /\ exists' \subseteq Index
      /\ docs' \in [Index -> [Products -> Version]]
      /\ faults' \subseteq Faults /\ exposed' \subseteq Products
      /\ CreateNewIndex(w) => New(worker[w].job) \in exists'
  <2>1. CASE \E r \in Reindexes : TakeReindex(w, r)
    <3>1. PICK r \in Reindexes : TakeReindex(w, r)
      BY <2>1
    <3>2. /\ asked[r] = "waits" /\ asked' = [asked EXCEPT ![r] = "taken"]
          /\ exposed' = exposed \cup {p \in Products : \E v \in Workers : worker[v].job = p}
          /\ worker[w].pc = "idle" /\ worker'[w].pc = "newIndex" /\ worker'[w].job = r
          /\ raced' \in BOOLEAN
          /\ UNCHANGED <<catalog, updates, exists, docs, alias, deaf, faults, missed>>
      BY <1>1, <3>1, ReindexFacts DEF TakeReindex, Typed
    <3>3. \A q \in Reindexes : TakeReindex(w, q) => q = r
      BY <1>1, <3>2, ReindexFacts
    <3> QED
      BY <1>1, <3>2, <3>3 DEF Typed, CreateNewIndex
  <2>2. CASE CreateNewIndex(w)
    <3>1. worker[w].job \in Reindexes /\ ~\E r \in Reindexes : TakeReindex(w, r)
      BY <1>1, <2>2, ReindexFacts DEF CreateNewIndex, TakeReindex
    <3> QED
      BY <1>1, <2>2, <3>1, NamesDiffer DEF CreateNewIndex, Typed, New
  <2>3. CASE CopyProduct(w)
    <3>1. /\ worker[w].job \in Reindexes /\ worker[w].item \in Products /\ worker[w].seen \in Version
          /\ worker[w].pc = "copy" /\ Upsert(worker[w].job, worker[w].item, worker[w].seen)
          /\ UNCHANGED <<catalog, updates, asked, deaf, faults, exposed, missed, raced>>
      BY <1>1, <2>3, ReindexFacts DEF CopyProduct
    <3>2. exists \subseteq exists' /\ exists' \subseteq exists \cup {<<"plain", worker[w].job>>}
          /\ docs' \in [Index -> [Products -> Version]]
      BY <1>1, <3>1, UpsertFacts, NamesDiffer
    <3> QED
      BY <1>1, <3>1, <3>2, NamesDiffer DEF Typed, TakeReindex, CreateNewIndex
  <2>4. CASE PutNewAlias(w) \/ CreateNewFails(w) \/ BulkFails(w) \/ ReadPage(w) \/ PageDone(w)
             \/ \E p \in Products : FetchProduct(w, p)
    <3>1. /\ UNCHANGED <<catalog, deaf, updates, asked, exists, docs, exposed, raced>>
          /\ worker[w].pc # "idle"
      BY <2>4 DEF PutNewAlias, CreateNewFails, BulkFails, ReadPage, PageDone, FetchProduct
    <3>4. missed' \subseteq Products
      BY <1>1, <2>4 DEF PutNewAlias, CreateNewFails, BulkFails, ReadPage, Turns, Present, PageDone,
                        FetchProduct, Typed
    <3>2. faults' \subseteq Faults
      BY <1>1, <2>4, FaultFacts DEF PutNewAlias, CreateNewFails, BulkFails, ReadPage, PageDone,
                                    FetchProduct, Typed, Faults
    <3>3. CreateNewIndex(w) => New(worker[w].job) \in exists'
      BY DEF CreateNewIndex, New
    <3> QED
      BY <1>1, <3>1, <3>2, <3>3, <3>4 DEF Typed, TakeReindex
  <2> QED
    BY <2>1, <2>2, <2>3, <2>4 DEF Reindex
<1>6. CASE UNCHANGED alias
  <2>1. Typed'
    <3>1. /\ alias' \in [Alias -> SUBSET exists'] /\ updates' \subseteq Products
          /\ deaf' \subseteq Workers
      BY <1>1, <1>5, <1>6 DEF Typed
    <3> QED
      BY <1>1, <1>4, <1>5, <3>1, Moving
  <2>2. worker'[w].job \in Reindexes =>
            /\ asked'[worker'[w].job] = "taken"
            /\ \/ worker'[w].job = worker[w].job /\ worker[w].pc \notin {"drop", "finally"}
               \/ asked[worker'[w].job] # "taken"
    BY <1>2, <1>4, <1>5
  <2>3. worker'[w].pc = "newAlias" => New(worker'[w].job) \in exists'
    BY <1>4, <1>5
  <2> QED
    BY <1>4, <1>5, <1>6, <2>1, <2>2, <2>3, Steady
<1>7. CASE ~UNCHANGED alias
  <2>1. PutNewAlias(w)
    BY <1>7 DEF Reindex, TakeReindex, CreateNewIndex, CreateNewFails, ReadPage, PageDone,
                CopyProduct, FetchProduct, BulkFails
  <2>2. PICK r \in Reindexes : r = worker[w].job
    BY <1>1, <2>1, ReindexFacts
  <2>3. /\ worker[w].pc = "newAlias" /\ worker'[w].pc = "page" /\ worker'[w].job = r
        /\ alias' = [alias EXCEPT ![r] = {New(r)}]
        /\ UNCHANGED <<asked, exists>>
    BY <1>1, <2>1, <2>2, ReindexFacts DEF PutNewAlias, New, Onward
  <2>4. New(r) \in exists /\ asked[r] = "taken" /\ ~Used(New(r))
    BY <2>2, <2>3 DEF LifeInv, Kept, Taken, NewIsUnused
  <2>5. /\ alias \in [Alias -> SUBSET exists]
        /\ alias'["live"] = alias["live"] /\ alias'[r] = {New(r)}
        /\ \A q \in Reindexes \ {r} : alias'[q] = alias[q]
        /\ alias' \in [Alias -> SUBSET exists']
    BY <1>1, <2>3, <2>4, NamesDiffer DEF Typed
  <2>6. Typed'
    <3>1. updates' \subseteq Products /\ deaf' \subseteq Workers
      BY <1>1, <1>5 DEF Typed
    <3> QED
      BY <1>1, <1>4, <1>5, <2>5, <3>1, Moving
  <2>7. Taken'
    BY <1>4, <2>2, <2>3, <2>4 DEF LifeInv, Taken, Moved
  <2>8. Names'
    BY <2>5 DEF LifeInv, Names
  <2>9. \A i : Used(i)' => Used(i)
    BY <1>4, <2>5 DEF Used, Moved
  <2>10. NewIsUnused'
    <3>1. ASSUME NEW q \in Reindexes, Used(New(q))'
          PROVE  /\ asked'[q] = "taken" /\ alias'[q] = {}
                 /\ \A v \in Workers : worker'[v].job = q => worker'[v].pc \in {"drop", "finally"}
      <4>1. Used(New(q)) /\ q # r
        BY <2>4, <2>9, <3>1
      <4> QED
        BY <1>4, <2>3, <2>5, <4>1 DEF LifeInv, NewIsUnused, Moved
    <3>2. ASSUME NEW v \in Workers, worker'[v].pc \in {"create", "alias"} PROVE ~Used(New(v))'
      BY <1>4, <2>3, <2>9, <3>2 DEF LifeInv, NewIsUnused, Moved
    <3> QED
      BY <3>1, <3>2 DEF NewIsUnused
  <2>11. Kept'
    <3>1. ASSUME NEW v \in Workers
          PROVE  /\ worker'[v].pc = "alias" => New(v) \in exists'
                 /\ worker'[v].pc = "newAlias" => New(worker'[v].job) \in exists'
                 /\ worker'[v].pc \in {"name", "unplain", "swap"} => alias'[worker'[v].job] # {}
                 /\ worker'[v].from # {} => alias'["live"] # {}
                 /\ worker'[v].pc = "drop" /\ worker'[v].found = "alias" =>
                        worker'[v].from \cap alias'["live"] = {}
      <4>1. CASE v = w
        BY <1>4, <2>3, <4>1
      <4>2. CASE v # w
        <5>1. worker'[v] = worker[v]
          BY <1>4, <4>2 DEF Moved
        <5>2. worker[v].pc \in {"name", "unplain", "swap"} => worker[v].job \in Reindexes
          BY <1>1 DEF Typed, Fits, Reindexers
        <5> QED
          BY <2>3, <2>5, <5>1, <5>2 DEF LifeInv, Kept
      <4> QED
        BY <4>1, <4>2
    <3> QED
      BY <3>1 DEF Kept
  <2> QED
    BY <2>5, <2>6, <2>7, <2>8, <2>10, <2>11 DEF LifeInv
<1> QED
  BY <1>6, <1>7

(* Indices that are deleted are those that no alias but one of the reindex *)
(* itself stands for, and nobody is about to give a name to.               *)
LEMMA Dropping ==
    ASSUME LifeInv, NEW w \in Workers, Moved(w), Typed', UNCHANGED asked,
           NEW is, exists' = exists \ is, \A a \in Alias : alias'[a] = alias[a] \ is,
           is \cap alias["live"] = {},
           \A v \in Workers : New(v) \notin is \/ worker[v].pc # "alias",
           \A r \in Reindexes : New(r) \in is =>
               \A v \in Workers \ {w} : worker[v].job # r \/ worker[v].pc \in {"drop", "finally"},
           \/ worker'[w].pc = "idle" /\ worker'[w].job \notin Reindexes /\ worker'[w].from = {}
           \/ /\ worker'[w].pc = "swap" /\ worker'[w].job = worker[w].job
              /\ worker[w].pc = "unplain" /\ worker'[w].from = worker[w].from
              /\ worker'[w].job \in Reindexes /\ New(worker'[w].job) \notin is
    PROVE  LifeInv' /\ alias'["live"] = alias["live"]
<1>1. Typed
  BY DEF LifeInv
<1>2. /\ alias'["live"] = alias["live"]
      /\ \A r \in Reindexes : alias'[r] = alias[r] \ is
  BY NamesDiffer
<1>3. Taken'
  BY DEF LifeInv, Taken, Moved
<1>4. Names'
  BY <1>2 DEF LifeInv, Names
<1>5. \A i : Used(i)' => Used(i)
  BY <1>2 DEF Used, Moved
<1>6. NewIsUnused'
  <2>1. ASSUME NEW r \in Reindexes, Used(New(r))'
        PROVE  /\ asked'[r] = "taken" /\ alias'[r] = {}
               /\ \A v \in Workers : worker'[v].job = r => worker'[v].pc \in {"drop", "finally"}
    BY <1>2, <1>5, <2>1 DEF LifeInv, NewIsUnused, Moved
  <2>2. ASSUME NEW v \in Workers, worker'[v].pc \in {"create", "alias"} PROVE ~Used(New(v))'
    BY <1>5, <2>2 DEF LifeInv, NewIsUnused, Moved
  <2> QED
    BY <2>1, <2>2 DEF NewIsUnused
<1>7. \A r \in Reindexes : alias[r] # {} => alias[r] = {New(r)}
  BY DEF LifeInv, Names
<1>8. Kept'
  <2>1. ASSUME NEW v \in Workers
        PROVE  /\ worker'[v].pc = "alias" => New(v) \in exists'
               /\ worker'[v].pc = "newAlias" => New(worker'[v].job) \in exists'
               /\ worker'[v].pc \in {"name", "unplain", "swap"} => alias'[worker'[v].job] # {}
               /\ worker'[v].from # {} => alias'["live"] # {}
               /\ worker'[v].pc = "drop" /\ worker'[v].found = "alias" =>
                      worker'[v].from \cap alias'["live"] = {}
    <3>1. CASE v = w
      BY <1>2, <1>7, <3>1 DEF LifeInv, Kept
    <3>2. CASE v # w
      <4>1. worker'[v] = worker[v]
        BY <3>2 DEF Moved
      <4>2. worker[v].pc \in {"newAlias", "name", "unplain", "swap"} =>
                worker[v].job \in Reindexes /\ New(worker[v].job) \notin is
        BY <1>1, <3>2 DEF Typed, Fits, Reindexers
      <4> QED
        BY <1>2, <1>7, <4>1, <4>2 DEF LifeInv, Kept
    <3> QED
      BY <3>1, <3>2
  <2> QED
    BY <2>1 DEF Kept
<1> QED
  BY <1>2, <1>3, <1>4, <1>6, <1>8 DEF LifeInv

(* The alias is moved. *)
LEMMA SwitchMoves ==
    ASSUME LifeInv, NEW w \in Workers, SwitchAlias(w)
    PROVE  LET r == worker[w].job
               leaving == IF worker[w].found = "alias" THEN worker[w].from ELSE {}
           IN  /\ r \in Reindexes /\ Onward(w, "drop")
               /\ alias[r] = {New(r)} /\ alias'[r] = {} /\ ~Used(New(r))
               /\ alias'["live"] = (alias["live"] \ leaving) \cup {New(r)}
               /\ \A q \in Reindexes \ {r} : alias'[q] = alias[q]
               /\ alias' \in [Alias -> SUBSET exists]
               /\ Plain \notin exists
               /\ UNCHANGED <<catalog, updates, asked, exists, docs, notes>>
<1> DEFINE leaving == IF worker[w].found = "alias" THEN worker[w].from ELSE {}
<1>1. Typed
  BY DEF LifeInv
<1>2. PICK r \in Reindexes : r = worker[w].job
  BY <1>1, SwitchFacts DEF Switch
<1>3. worker[w].pc = "swap" /\ CanSwitch(w) /\ Onward(w, "drop")
  BY <1>1, SwitchFacts DEF SwitchAlias
<1>4. alias[r] = {New(r)} /\ ~Used(New(r))
  BY <1>2, <1>3 DEF LifeInv, Kept, Names, NewIsUnused
<1>5. alias \in [Alias -> SUBSET exists]
  BY <1>1 DEF Typed
<1>6. alias' = [alias EXCEPT ![r] = {}, !["live"] = (@ \ leaving) \cup alias[r]]
  BY <1>2 DEF SwitchAlias
<1> HIDE DEF leaving
<1>7. /\ alias'[r] = {} /\ alias'["live"] = (alias["live"] \ leaving) \cup {New(r)}
      /\ \A q \in Reindexes \ {r} : alias'[q] = alias[q]
      /\ alias' \in [Alias -> SUBSET exists]
  BY <1>4, <1>5, <1>6, NamesDiffer
<1>8. UNCHANGED <<catalog, updates, asked, exists, docs, notes>>
  BY DEF SwitchAlias
<1>9. Plain \notin exists
  BY <1>3 DEF CanSwitch, Plain
<1> QED
  BY <1>2, <1>3, <1>4, <1>7, <1>8, <1>9 DEF leaving

(* The request that moves the alias puts it on the new index in the same   *)
(* breath as it takes it off the old one (switchAlias).                    *)
LEMMA SwitchAliasLives ==
    ASSUME LifeInv, NEW w \in Workers, SwitchAlias(w)
    PROVE  LifeInv' /\ alias'["live"] # {}
<1> DEFINE leaving == IF worker[w].found = "alias" THEN worker[w].from ELSE {}
<1>1. Typed
  BY DEF LifeInv
<1>2. PICK r \in Reindexes : r = worker[w].job
  BY SwitchMoves
<1>3. /\ Onward(w, "drop")
      /\ alias[r] = {New(r)} /\ alias'[r] = {} /\ ~Used(New(r))
      /\ alias'["live"] = (alias["live"] \ leaving) \cup {New(r)}
      /\ \A q \in Reindexes \ {r} : alias'[q] = alias[q]
      /\ alias' \in [Alias -> SUBSET exists]
      /\ UNCHANGED <<catalog, updates, asked, exists, docs, notes>>
  BY <1>2, SwitchMoves
<1>4. /\ Moved(w) /\ worker'[w].pc = "drop" /\ worker'[w].job = r
      /\ worker'[w].from = worker[w].from /\ worker'[w].found = worker[w].found
  BY <1>2, <1>3 DEF Onward
<1>5. Typed'
  <2>1. /\ updates' \subseteq Products /\ exists' \subseteq Index /\ faults' \subseteq Faults
        /\ asked' \in [Reindexes -> {"waits", "taken"}]
        /\ deaf' \subseteq Workers /\ missed' \subseteq Products /\ raced' \in BOOLEAN
        /\ docs' \in [Index -> [Products -> Version]] /\ exposed' \subseteq Products
        /\ alias' \in [Alias -> SUBSET exists']
    BY <1>1, <1>3 DEF Typed
  <2> QED
    BY <1>1, <1>3, <1>4, <2>1, Moving
<1>6. Taken'
  BY <1>2, <1>3, <1>4 DEF LifeInv, Taken, Moved
<1>7. Names'
  BY <1>3, NamesDiffer DEF LifeInv, Names
<1>8. \A i : Used(i)' => Used(i) \/ i = New(r)
  BY <1>3, <1>4 DEF Used, Moved
<1>9. NewIsUnused'
  <2>1. ASSUME NEW q \in Reindexes, Used(New(q))'
        PROVE  /\ asked'[q] = "taken" /\ alias'[q] = {}
               /\ \A v \in Workers : worker'[v].job = q => worker'[v].pc \in {"drop", "finally"}
    <3>1. CASE q = r
      <4>1. asked[r] = "taken" /\ \A v \in Workers \ {w} : worker[v].job # r
        BY <1>2 DEF LifeInv, Taken
      <4> QED
        BY <1>3, <1>4, <3>1, <4>1 DEF Moved
    <3>2. CASE q # r
      <4>1. Used(New(q))
        BY <1>8, <2>1, <3>2, NamesDiffer
      <4> QED
        BY <1>3, <1>4, <3>2, <4>1 DEF LifeInv, NewIsUnused, Moved
    <3> QED
      BY <3>1, <3>2
  <2>2. ASSUME NEW v \in Workers, worker'[v].pc \in {"create", "alias"} PROVE ~Used(New(v))'
    <3>1. v # r /\ New(v) # New(r)
      BY NamesDiffer
    <3> QED
      BY <1>4, <1>8, <2>2, <3>1 DEF LifeInv, NewIsUnused, Moved
  <2> QED
    BY <2>1, <2>2 DEF NewIsUnused
<1>10. Kept'
  <2>1. \A v \in Workers : New(r) \notin worker[v].from
    BY <1>3 DEF Used
  <2>2. ASSUME NEW v \in Workers
        PROVE  /\ worker'[v].pc = "alias" => New(v) \in exists'
               /\ worker'[v].pc = "newAlias" => New(worker'[v].job) \in exists'
               /\ worker'[v].pc \in {"name", "unplain", "swap"} => alias'[worker'[v].job] # {}
               /\ worker'[v].from # {} => alias'["live"] # {}
               /\ worker'[v].pc = "drop" /\ worker'[v].found = "alias" =>
                      worker'[v].from \cap alias'["live"] = {}
    <3>1. CASE v = w
      BY <1>3, <1>4, <2>1, <3>1
    <3>2. CASE v # w
      <4>1. worker'[v] = worker[v]
        BY <1>4, <3>2 DEF Moved
      <4>2. worker[v].pc \in {"name", "unplain", "swap"} =>
                worker[v].job \in Reindexes /\ worker[v].job # r
        BY <1>1, <1>2, <3>2 DEF Typed, Fits, Reindexers, LifeInv, Taken
      <4> QED
        BY <1>3, <2>1, <4>1, <4>2 DEF LifeInv, Kept
    <3> QED
      BY <3>1, <3>2
  <2> QED
    BY <2>2 DEF Kept
<1> QED
  BY <1>3, <1>5, <1>6, <1>7, <1>9, <1>10 DEF LifeInv

(* The end of a reindex. *)
LEMMA SwitchLives ==
    ASSUME LifeInv, NEW w \in Workers, Switch(w)
    PROVE  LifeInv' /\ (alias["live"] # {} => alias'["live"] # {})
<1>1. Typed
  BY DEF LifeInv
<1>2. PICK r \in Reindexes : r = worker[w].job
  BY <1>1, SwitchFacts
<1>3. asked[r] = "taken" /\ \A v \in Workers \ {w} : worker[v].job # r
  BY <1>2 DEF LifeInv, Taken
<1>4. Absent \notin Reindexes
  BY ConstantsAssumption DEF Absent
<1>5. CASE SwitchAlias(w)
  BY <1>5, SwitchAliasLives
<1>6. CASE LookAtLive(w) \/ NameLive(w) \/ SwitchRefused(w) \/ SwitchFails(w)
           \/ (DeletePlain(w) /\ Target("live") # {Plain})
  <2>1. /\ UNCHANGED <<catalog, updates, asked, exists, docs, alias, deaf, exposed, missed, raced>>
        /\ faults' \subseteq Faults
    BY <1>1, <1>6, FaultFacts DEF LookAtLive, NameLive, SwitchRefused, SwitchFails, DeletePlain, Plain,
                                  Typed, Faults
  <2>2. worker[w].pc \notin {"drop", "finally"} \/ worker'[w].pc = "finally"
    <3>1. CASE LookAtLive(w) \/ NameLive(w) \/ DeletePlain(w)
      BY <3>1 DEF LookAtLive, NameLive, DeletePlain
    <3>2. CASE SwitchRefused(w) \/ SwitchFails(w)
      BY <1>1, <3>2, SwitchFacts DEF Onward
    <3> QED
      BY <1>6, <3>1, <3>2
  <2>3. /\ Moved(w) /\ worker'[w].job \in {r, Absent}
        /\ worker'[w].from \subseteq worker[w].from \cup alias["live"]
        /\ worker'[w].pc \in {"idle", "name", "unplain", "swap", "finally"}
        /\ worker'[w].pc \in {"name", "unplain", "swap"} => worker'[w].job = r /\ alias[r] # {}
    <3>1. CASE LookAtLive(w)
      BY <1>1, <1>2, <3>1, SwitchFacts DEF Rests
    <3>2. CASE NameLive(w)
      <4>1. alias[r] # {}
        BY <1>2, <3>2 DEF NameLive, LifeInv, Kept
      <4> QED
        BY <1>1, <1>2, <3>2, <4>1, SwitchFacts
    <3>3. CASE SwitchRefused(w) \/ SwitchFails(w) \/ (DeletePlain(w) /\ Target("live") # {Plain})
      BY <1>1, <1>2, <3>3, SwitchFacts DEF Onward
    <3> QED
      BY <1>6, <3>1, <3>2, <3>3
  <2>4. Typed'
    <3>1. /\ updates' \subseteq Products /\ exists' \subseteq Index /\ deaf' \subseteq Workers
          /\ asked' \in [Reindexes -> {"waits", "taken"}]
          /\ docs' \in [Index -> [Products -> Version]] /\ exposed' \subseteq Products
          /\ missed' \subseteq Products /\ raced' \in BOOLEAN
          /\ alias' \in [Alias -> SUBSET exists']
      BY <1>1, <2>1 DEF Typed
    <3> QED
      BY <1>1, <2>1, <2>3, <3>1, Moving
  <2> QED
    BY <1>2, <1>3, <1>4, <2>1, <2>2, <2>3, <2>4, Steady
<1>7. CASE DropOld(w) \/ DropNew(w) \/ (DeletePlain(w) /\ Target("live") = {Plain})
  <2>1. \E is : /\ DeleteIndices(is)
                /\ is \cap alias["live"] = {}
                /\ \A v \in Workers : New(v) \notin is \/ worker[v].pc # "alias"
                /\ \A q \in Reindexes : New(q) \in is =>
                       \A v \in Workers \ {w} : worker[v].job # q \/ worker[v].pc \in {"drop", "finally"}
                /\ DeletePlain(w) => is = {Plain}
    <3>1. CASE DropOld(w)
      <4> DEFINE is == IF worker[w].found = "alias" THEN worker[w].from ELSE {}
      <4>1. \A i \in is : Used(i)
        BY DEF Used
      <4>2. DeleteIndices(is) /\ worker[w].pc = "drop" /\ ~DeletePlain(w)
        BY <3>1 DEF DropOld, DeletePlain
      <4>3. is \cap alias["live"] = {}
        BY <4>2 DEF LifeInv, Kept
      <4>4. \A v \in Workers : New(v) \notin is \/ worker[v].pc # "alias"
        BY <4>1 DEF LifeInv, NewIsUnused
      <4>5. \A q \in Reindexes : New(q) \in is =>
                \A v \in Workers \ {w} : worker[v].job # q \/ worker[v].pc \in {"drop", "finally"}
        BY <4>1 DEF LifeInv, NewIsUnused
      <4> HIDE DEF is
      <4> QED
        BY <4>2, <4>3, <4>4, <4>5
    <3>2. CASE DropNew(w)
      <4>1. DeleteIndices(alias[r]) /\ ~DeletePlain(w)
        BY <1>2, <3>2 DEF DropNew, DeletePlain
      <4>2. alias[r] \subseteq {New(r)} /\ (alias[r] # {} => New(r) \notin alias["live"])
        BY DEF LifeInv, Names, NewIsUnused, Used
      <4>3. \A v \in Workers : New(v) # New(r)
        BY NamesDiffer
      <4>4. \A q \in Reindexes : New(q) = New(r) => q = r
        BY NamesDiffer
      <4> QED
        BY <1>3, <4>1, <4>2, <4>3, <4>4
    <3>3. CASE DeletePlain(w) /\ Target("live") = {Plain}
      <4>1. DeleteIndices({Plain})
        BY <3>3 DEF DeletePlain, Plain
      <4>2. Plain \notin alias["live"] /\ \A x : New(x) # Plain
        BY NamesDiffer DEF LifeInv, Names, Plain
      <4> QED
        BY <4>1, <4>2
    <3> QED
      BY <1>7, <3>1, <3>2, <3>3
  <2>2. PICK is : /\ DeleteIndices(is)
                  /\ is \cap alias["live"] = {}
                  /\ \A v \in Workers : New(v) \notin is \/ worker[v].pc # "alias"
                  /\ \A q \in Reindexes : New(q) \in is =>
                         \A v \in Workers \ {w} : worker[v].job # q \/ worker[v].pc \in {"drop", "finally"}
                  /\ DeletePlain(w) => is = {Plain}
    BY <2>1
  <2>3. /\ exists' = exists \ is
        /\ docs' \in [Index -> [Products -> Version]]
        /\ alias' \in [Alias -> SUBSET exists']
        /\ \A a \in Alias : alias'[a] = alias[a] \ is
    BY <1>1, <2>2, DeleteFacts
  <2>4. UNCHANGED <<catalog, updates, asked, notes>>
    BY <1>7 DEF DropOld, DropNew, DeletePlain
  <2>5. /\ Moved(w)
        /\ \/ worker'[w].pc = "idle" /\ worker'[w].job \notin Reindexes /\ worker'[w].from = {}
           \/ /\ worker'[w].pc = "swap" /\ worker'[w].job = worker[w].job
              /\ worker[w].pc = "unplain" /\ worker'[w].from = worker[w].from
              /\ worker'[w].job \in Reindexes /\ New(worker'[w].job) \notin is
    <3>1. CASE DropOld(w) \/ DropNew(w)
      BY <1>1, <1>4, <3>1, SwitchFacts DEF Rests
    <3>2. CASE DeletePlain(w) /\ Target("live") = {Plain}
      <4>1. worker[w].pc = "unplain" /\ Onward(w, "swap") /\ is = {Plain} /\ New(r) # Plain
        BY <1>1, <2>2, <3>2, SwitchFacts, NamesDiffer DEF DeletePlain, Plain
      <4> QED
        BY <1>2, <4>1 DEF Onward
    <3> QED
      BY <1>7, <3>1, <3>2
  <2>6. Typed'
    <3>1. /\ updates' \subseteq Products /\ exists' \subseteq Index /\ faults' \subseteq Faults
          /\ asked' \in [Reindexes -> {"waits", "taken"}] /\ exposed' \subseteq Products
          /\ deaf' \subseteq Workers /\ missed' \subseteq Products /\ raced' \in BOOLEAN
      BY <1>1, <2>3, <2>4 DEF Typed
    <3> QED
      BY <1>1, <2>3, <2>4, <2>5, <3>1, Moving
  <2>7. /\ UNCHANGED asked /\ is \cap alias["live"] = {} /\ exists' = exists \ is
        /\ \A a \in Alias : alias'[a] = alias[a] \ is
    BY <2>2, <2>3, <2>4
  <2> QED
    BY <2>2, <2>5, <2>6, <2>7, Dropping
<1> QED
  BY <1>5, <1>6, <1>7 DEF Switch

(* The catalog. *)
LEMMA ShopLives ==
    ASSUME LifeInv, NEW w \in Workers, NEW p \in Products, EditProduct(w, p) \/ DeleteProduct(w, p)
    PROVE  LifeInv' /\ UNCHANGED alias
<1>1. Typed
  BY DEF LifeInv
<1>2. /\ UNCHANGED <<asked, exists, docs, alias, worker, deaf, faults, missed, raced>>
      /\ updates' \subseteq Products /\ exposed' \subseteq Products
  BY <1>1 DEF EditProduct, DeleteProduct, Announce, Typed
<1>3. catalog' \in [Products -> Version]
  <2>1. CASE EditProduct(w, p)
    <3>1. catalog[p] + 1 \in Version /\ catalog \in [Products -> Version]
      BY <1>1, <2>1, ConstantsAssumption DEF EditProduct, Typed, Version, Absent
    <3> QED
      BY <1>1, <2>1, <3>1 DEF EditProduct, Typed
  <2>2. CASE DeleteProduct(w, p)
    <3>1. Absent \in Version /\ catalog \in [Products -> Version]
      BY <1>1, ConstantsAssumption DEF Typed, Version, Absent
    <3> QED
      BY <2>2, <3>1 DEF DeleteProduct
  <2> QED
    BY <2>1, <2>2
<1>4. Typed'
  BY <1>1, <1>2, <1>3 DEF Typed
<1>5. Taken' /\ Names' /\ NewIsUnused' /\ Kept'
  BY <1>2 DEF LifeInv, Taken, Names, NewIsUnused, Used, Kept
<1> QED
  BY <1>2, <1>4, <1>5 DEF LifeInv

-----------------------------------------------------------------------------
(* Types, and that there stays an index *)

(* The invariant holds at the start.                                       *)
LEMMA LifeInit == Init => LifeInv
<1> SUFFICES ASSUME Init PROVE LifeInv
  OBVIOUS
<1>1. /\ Fits(At("down")) /\ At("down") \in Worker /\ At("down").pc = "down"
      /\ At("down").job = Absent /\ At("down").from = {}
  <2>1. "down" \in PCs /\ "down" \notin Reindexers
    BY DEF PCs, Reindexers
  <2> QED
    BY <2>1, AtFacts DEF Fits
<1>2. worker = [w \in Workers |-> At("down")] /\ alias = [a \in Alias |-> {}] /\ exists = {}
  BY DEF Init
<1>3. Typed
  <2>1. [p \in Products |-> 0] \in [Products -> Version]
    BY ConstantsAssumption DEF Version, Absent
  <2> QED
    BY <1>1, <2>1, EmptyFacts DEF Init, Typed
<1>4. Absent \notin Reindexes
  BY ConstantsAssumption DEF Absent
<1>5. Taken
  BY <1>1, <1>2, <1>4 DEF Taken
<1>6. Names /\ \A i : ~Used(i)
  BY <1>1, <1>2, NamesDiffer DEF Names, Used
<1>7. NewIsUnused
  BY <1>6 DEF NewIsUnused
<1>8. Kept
  BY <1>1, <1>2 DEF Kept
<1> QED
  BY <1>3, <1>5, <1>6, <1>7, <1>8 DEF LifeInv

(* Every step keeps it, and the live alias as well.                        *)
LEMMA LifeStep == LifeInv /\ [Next]_vars => LifeInv' /\ (alias["live"] # {} => alias'["live"] # {})
<1> SUFFICES ASSUME LifeInv, [Next]_vars
             PROVE  LifeInv' /\ (alias["live"] # {} => alias'["live"] # {})
  OBVIOUS
<1>1. CASE UNCHANGED vars
  BY <1>1 DEF vars, LifeInv, Typed, Taken, Names, NewIsUnused, Used, Kept
<1>2. CASE \E w \in Workers : Boot(w) \/ Update(w) \/ Reindex(w) \/ Switch(w)
                              \/ BulkFails(w) \/ JobFails(w) \/ Crash(w)
  BY <1>2, BootLives, UpdateLives, ReindexLives, SwitchLives
<1>3. CASE \E w \in Workers, p \in Products : EditProduct(w, p) \/ DeleteProduct(w, p)
  BY <1>3, ShopLives
<1> QED
  BY <1>1, <1>2, <1>3 DEF Next

(* So it holds in every reachable state.                                   *)
LEMMA LifeInvariant == Spec => []LifeInv
BY LifeInit, LifeStep, PTL DEF Spec

(* Every variable of SearchIndices keeps its type. *)
THEOREM TypeCorrect == Spec => []TypeOK
<1>1. LifeInv => TypeOK
  BY DEF LifeInv, Typed, TypeOK, Fits
<1> QED
  BY <1>1, LifeInvariant, PTL

(* Once there is a live alias there always is one: no reindex, however     *)
(* many run at a time, no failure and no process that starts or goes down  *)
(* at any step takes it away (switchAlias, createIndicesIfNotExists).      *)
THEOREM AliasStays == Spec => StaysLive
<1>1. LifeInv /\ [Next]_vars => [alias["live"] # {} => alias'["live"] # {}]_vars
  BY LifeStep
<1> QED
  BY <1>1, LifeInvariant, PTL DEF Spec, StaysLive

-----------------------------------------------------------------------------
(* What stays known *)

(* A step of a process. *)
Step(w) ==
    Boot(w) \/ Update(w) \/ Reindex(w) \/ Switch(w) \/ BulkFails(w) \/ JobFails(w) \/ Crash(w)

(* What has gone wrong stays known, and so does a race.                    *)
LEMMA NotesGrow == Typed /\ [Next]_vars => faults \subseteq faults' /\ (raced => raced')
<1> SUFFICES ASSUME Typed, [Next]_vars PROVE faults \subseteq faults' /\ (raced => raced')
  OBVIOUS
<1>1. \A kind \in Faults : Fault(kind) => faults \subseteq faults'
  BY FaultFacts
<1>2. /\ "boot" \in Faults /\ "away" \in Faults /\ "create" \in Faults /\ "bulk" \in Faults
      /\ "switch" \in Faults /\ "job" \in Faults /\ "crash" \in Faults
  BY DEF Faults
<1>3. ASSUME NEW w \in Workers, Boot(w) \/ JobFails(w) \/ Crash(w) PROVE faults \subseteq faults'
  <2>1. CASE StartDeaf(w)
    <3>1. PICK kind \in {"boot", "away"} : Fault(kind)
      BY <2>1 DEF StartDeaf
    <3> QED
      BY <1>1, <1>2, <3>1
  <2>2. CASE Start(w) \/ CheckIndex(w) \/ CreateIndex(w) \/ PutAlias(w) \/ ProbeIndex(w)
    BY <2>2 DEF Start, CheckIndex, CreateIndex, PutAlias, ProbeIndex
  <2>3. CASE CreateFails(w) \/ JobFails(w) \/ Crash(w)
    BY <1>1, <1>2, <2>3 DEF CreateFails, JobFails, Crash
  <2> QED
    BY <1>3, <2>1, <2>2, <2>3 DEF Boot
<1>4. ASSUME NEW w \in Workers, Boot(w) \/ JobFails(w) \/ Crash(w), raced PROVE raced'
  <2>1. CASE CheckIndex(w)
    BY <1>4, <2>1, Zenon DEF CheckIndex
  <2> QED
    BY <1>4, <2>1, Zenon DEF Boot, Start, StartDeaf, CreateIndex, PutAlias, CreateFails, ProbeIndex,
                             JobFails, Crash
<1>5. ASSUME NEW w \in Workers, Update(w) PROVE UNCHANGED <<faults, raced>>
  BY <1>5 DEF Update, TakeUpdate, ClearProduct, ReadProduct, WriteProduct
<1>6. ASSUME NEW w \in Workers, Reindex(w) \/ BulkFails(w) PROVE faults \subseteq faults'
  BY <1>1, <1>2, <1>6 DEF Reindex, TakeReindex, CreateNewIndex, PutNewAlias, CreateNewFails, ReadPage,
                          PageDone, CopyProduct, FetchProduct, BulkFails
<1>7. ASSUME NEW w \in Workers, Reindex(w) \/ BulkFails(w), raced PROVE raced'
  <2>1. CASE \E r \in Reindexes : TakeReindex(w, r)
    BY <1>7, <2>1, Zenon DEF TakeReindex
  <2> QED
    BY <1>7, <2>1, Zenon DEF Reindex, CreateNewIndex, PutNewAlias, CreateNewFails, ReadPage,
                             PageDone, CopyProduct, FetchProduct, BulkFails
<1>8. ASSUME NEW w \in Workers, Switch(w) PROVE faults \subseteq faults' /\ raced' = raced
  <2>1. CASE SwitchFails(w)
    BY <1>1, <1>2, <2>1 DEF SwitchFails
  <2> QED
    BY <1>8, <2>1 DEF Switch, LookAtLive, NameLive, DeletePlain, SwitchAlias, SwitchRefused, DropOld,
                      DropNew
<1>9. ASSUME NEW w \in Workers, NEW p \in Products, EditProduct(w, p) \/ DeleteProduct(w, p)
      PROVE  faults \subseteq faults' /\ raced' = raced
  BY <1>9 DEF EditProduct, DeleteProduct, Announce
<1>10. CASE UNCHANGED vars
  BY <1>10 DEF vars
<1>11. faults \subseteq faults'
  BY <1>3, <1>5, <1>6, <1>8, <1>9, <1>10 DEF Next
<1>12. raced => raced'
  <2>1. ASSUME raced, NEW w \in Workers, Update(w) \/ Switch(w) PROVE raced'
    <3>1. raced' = raced
      BY <1>5, <1>8, <2>1
    <3> QED
      BY <2>1, <3>1, Zenon
  <2>2. ASSUME raced, NEW w \in Workers, NEW p \in Products, EditProduct(w, p) \/ DeleteProduct(w, p)
        PROVE  raced'
    <3>1. raced' = raced
      BY <1>9, <2>2
    <3> QED
      BY <2>2, <3>1, Zenon
  <2>3. ASSUME raced, UNCHANGED vars PROVE raced'
    <3>1. raced' = raced
      BY <2>3 DEF vars
    <3> QED
      BY <2>3, <3>1, Zenon
  <2> QED
    BY <1>4, <1>7, <2>1, <2>2, <2>3, Zenon DEF Next
<1> QED
  BY <1>11, <1>12, Zenon

(* A process that updates is at an update job before and after.            *)
LEMMA UpdateMoves ==
    ASSUME Typed, NEW w \in Workers, Update(w)
    PROVE  /\ Moved(w) /\ worker'[w].job \notin Reindexes
           /\ worker[w].pc \in {"idle", "clear", "read", "write"}
           /\ worker'[w].pc \in {"idle", "clear", "read", "write"}
<1>1. Absent \notin Reindexes /\ \A p \in Products : p \notin Reindexes
  BY ConstantsAssumption DEF Absent
<1>2. worker[w].pc \in {"idle", "clear", "read", "write"}
  BY DEF Update, TakeUpdate, ClearProduct, ReadProduct, WriteProduct
<1>3. CASE \E p \in Products : TakeUpdate(w, p)
  BY <1>1, <1>2, <1>3, UpdateFacts
<1>4. CASE ClearProduct(w) \/ WriteProduct(w) \/ ReadProduct(w)
  BY <1>1, <1>2, <1>4, UpdateFacts DEF Onward, Rests
<1> QED
  BY <1>3, <1>4 DEF Update

(* A process that fills an index is at a reindex, or just takes one.       *)
LEMMA ReindexMoves ==
    ASSUME Typed, NEW w \in Workers, Reindex(w) \/ BulkFails(w)
    PROVE  /\ Moved(w)
           /\ worker[w].pc \in {"idle", "newIndex", "newAlias", "page", "fetch", "copy", "clear", "write"}
           /\ worker'[w].pc \in {"read", "idle", "newIndex", "newAlias", "page", "fetch", "copy", "look"}
           /\ \/ worker'[w].job = worker[w].job
              \/ worker'[w].job \notin Reindexes
              \/ \E r \in Reindexes : TakeReindex(w, r)
<1>1. Absent \notin Reindexes
  BY ConstantsAssumption DEF Absent
<1>2. worker[w].pc \in {"idle", "newIndex", "newAlias", "page", "fetch", "copy", "clear", "write"}
  BY DEF Reindex, TakeReindex, CreateNewIndex, PutNewAlias, CreateNewFails, ReadPage,
         PageDone, CopyProduct, FetchProduct, BulkFails
<1>3. CASE \E r \in Reindexes : TakeReindex(w, r)
  BY <1>2, <1>3, ReindexFacts
<1>4. CASE \E p \in Products : FetchProduct(w, p)
  BY <1>2, <1>4, ReindexFacts
<1>5. CASE ReadPage(w)
  BY <1>2, <1>5, ReindexFacts
<1>6. CASE CreateNewIndex(w) \/ PutNewAlias(w) \/ CreateNewFails(w) \/ PageDone(w)
           \/ CopyProduct(w) \/ BulkFails(w)
  <2>1. \/ \E pc \in {"newAlias", "page", "fetch", "look", "read"} : Onward(w, pc)
        \/ Rests(w, "idle")
    BY <1>6, ReindexFacts
  <2> QED
    BY <1>1, <1>2, <2>1 DEF Onward, Rests
<1> QED
  BY <1>3, <1>4, <1>5, <1>6 DEF Reindex

(* Only switchAlias and the first start move the live alias.               *)
LEMMA LiveStays ==
    ASSUME LifeInv, NEW w \in Workers, Step(w), ~PutAlias(w), ~SwitchAlias(w)
    PROVE  alias'["live"] = alias["live"]
<1>1. Typed
  BY DEF LifeInv
<1>2. CASE Boot(w) \/ JobFails(w) \/ Crash(w)
  BY <1>2 DEF Boot, Start, StartDeaf, CheckIndex, CreateIndex, CreateFails, ProbeIndex, JobFails, Crash
<1>3. CASE Update(w) \/ Reindex(w) \/ BulkFails(w)
  BY <1>3, UpdateLives, ReindexLives
<1>4. CASE LookAtLive(w) \/ NameLive(w) \/ SwitchRefused(w) \/ SwitchFails(w)
           \/ (DeletePlain(w) /\ Target("live") # {Plain})
  BY <1>4 DEF LookAtLive, NameLive, SwitchRefused, SwitchFails, DeletePlain, Plain
<1>5. CASE DropOld(w) \/ DropNew(w) \/ (DeletePlain(w) /\ Target("live") = {Plain})
  <2>1. PICK is : DeleteIndices(is) /\ is \cap alias["live"] = {}
    <3>1. CASE DropOld(w)
      BY <3>1 DEF DropOld, LifeInv, Kept
    <3>2. CASE DropNew(w)
      <4>1. PICK r \in Reindexes : r = worker[w].job
        BY <1>1, <3>2, SwitchFacts DEF Switch
      <4>2. alias[r] \subseteq {New(r)} /\ (alias[r] # {} => New(r) \notin alias["live"])
        BY DEF LifeInv, Names, NewIsUnused, Used
      <4> QED
        BY <3>2, <4>1, <4>2 DEF DropNew
    <3>3. CASE DeletePlain(w) /\ Target("live") = {Plain}
      <4>1. DeleteIndices({Plain})
        BY <3>3 DEF DeletePlain, Plain
      <4>2. Plain \notin alias["live"]
        BY NamesDiffer DEF LifeInv, Names, Plain
      <4> QED
        BY <4>1, <4>2
    <3> QED
      BY <1>5, <3>1, <3>2, <3>3
  <2>2. alias'["live"] = alias["live"] \ is
    BY <1>1, <2>1, DeleteFacts, NamesDiffer
  <2> QED
    BY <2>1, <2>2
<1> QED
  BY <1>2, <1>3, <1>4, <1>5 DEF Step, Switch

-----------------------------------------------------------------------------
(* The first index *)

(* Booted lasts where there stays a live alias, if a process that moves    *)
(* fits.                                                                   *)
LEMMA BootedKept ==
    ASSUME Booted, "boot" \notin faults, NEW w \in Workers, Moved(w),
           alias["live"] # {} => alias'["live"] # {}, Plain \notin exists',
           alias'["live"] = {} => updates' = Products,
           LET y == worker'[w]
           IN  /\ y.pc \notin {"down", "check", "create", "alias"} => alias'["live"] # {}
               /\ y.pc # "unplain"
               /\ y.pc \in {"name", "swap", "drop"} => y.found = "alias"
    PROVE  Booted'
<1>1. \A v \in Workers :
          /\ worker'[v].pc \notin {"down", "check", "create", "alias"} => alias'["live"] # {}
          /\ worker'[v].pc # "unplain"
          /\ worker'[v].pc \in {"name", "swap", "drop"} => worker'[v].found = "alias"
  BY DEF Booted, Moved
<1> QED
  BY <1>1 DEF Booted

(* The steps of a start: it makes the first index where there is none, and *)
(* otherwise makes no index.                                               *)
LEMMA BootBooted ==
    ASSUME OneInv, NEW w \in Workers, Boot(w) \/ JobFails(w) \/ Crash(w), "boot" \notin faults',
           faults \subseteq faults'
    PROVE  Booted'
<1>1. Typed /\ "boot" \in Faults /\ "away" \in Faults
  BY DEF OneInv, LifeInv, Faults
<1>2. "boot" \notin faults
  OBVIOUS
<1>3. Plain \notin exists /\ (alias["live"] = {} => updates = Products)
      /\ \A v \in Workers : worker[v].pc \notin {"down", "check", "create", "alias"} => alias["live"] # {}
  BY <1>2 DEF OneInv, Booted
<1>4. CASE Start(w)
  <2>1. Moved(w) /\ worker'[w].pc = "check" /\ UNCHANGED <<alias, exists, updates>>
    BY <1>1, <1>4, BootFacts DEF Rests, Start
  <2> QED
    BY <1>2, <1>3, <2>1, BootedKept DEF OneInv
<1>5. CASE CheckIndex(w)
  <2>1. Target("live") = {} <=> alias["live"] = {}
    BY <1>3 DEF Target, Plain
  <2>2. /\ Moved(w) /\ worker'[w].pc = IF alias["live"] = {} THEN "create" ELSE "probe"
        /\ UNCHANGED <<alias, exists, updates>>
    BY <1>1, <1>5, <2>1, BootFacts DEF Rests, CheckIndex
  <2> QED
    BY <1>2, <1>3, <2>2, BootedKept DEF OneInv
<1>6. CASE CreateIndex(w)
  <2>1. /\ Moved(w) /\ worker'[w].pc = "alias"
        /\ UNCHANGED <<alias, updates>> /\ exists' = exists \cup {New(w)}
    BY <1>1, <1>6, BootFacts DEF Rests, CreateIndex, New
  <2>2. New(w) # Plain
    BY NamesDiffer DEF Plain
  <2> QED
    BY <1>2, <1>3, <2>1, <2>2, BootedKept DEF OneInv
<1>7. CASE ProbeIndex(w)
  <2>1. /\ Moved(w) /\ worker'[w].pc = "idle" /\ worker[w].pc = "probe"
        /\ UNCHANGED <<alias, updates, exists>>
    BY <1>1, <1>7, BootFacts DEF Rests, ProbeIndex
  <2> QED
    BY <1>2, <1>3, <2>1, BootedKept DEF OneInv
<1>8. CASE JobFails(w) \/ Crash(w)
  <2>1. /\ Moved(w) /\ UNCHANGED <<alias, exists>>
        /\ worker'[w].pc = "down" \/ (worker'[w].pc = "idle" /\ JobFails(w))
        /\ updates = Products => updates' = Products
    BY <1>1, <1>8, BootFacts DEF Rests, JobFails, Crash, Interrupted
  <2>2. JobFails(w) => alias["live"] # {}
    BY <1>3 DEF JobFails
  <2> QED
    BY <1>2, <1>3, <2>1, <2>2, BootedKept DEF OneInv
<1>9. CASE CreateFails(w)
  BY <1>1, <1>9, FaultFacts DEF CreateFails
<1>10. CASE PutAlias(w)
  <2>1. /\ Moved(w) /\ worker'[w].pc = "idle" /\ UNCHANGED <<updates, exists>>
        /\ alias' = [alias EXCEPT !["live"] = @ \cup {New(w)}]
    BY <1>1, <1>3, <1>10, BootFacts DEF Rests, PutAlias, New, Plain
  <2>2. alias'["live"] # {}
    BY <1>1, <2>1, NamesDiffer DEF Typed
  <2> QED
    BY <1>2, <1>3, <2>1, <2>2, BootedKept DEF OneInv
<1>11. CASE StartDeaf(w)
  <2>1. /\ Moved(w) /\ worker'[w].pc = "idle" /\ UNCHANGED <<alias, exists, updates>>
    BY <1>1, <1>11, BootFacts DEF Rests, StartDeaf
  <2>2. Target("live") # {}
    BY <1>1, <1>11, FaultFacts DEF StartDeaf
  <2>3. alias["live"] # {}
    BY <1>3, <2>2 DEF Target, Plain
  <2> QED
    BY <1>2, <1>3, <2>1, <2>3, BootedKept DEF OneInv
<1> QED
  BY <1>4, <1>5, <1>6, <1>7, <1>8, <1>9, <1>10, <1>11 DEF Boot

(* The steps of an update job name no index and delete none.               *)
LEMMA UpdateBooted ==
    ASSUME OneInv, NEW w \in Workers, Update(w), "boot" \notin faults', faults \subseteq faults'
    PROVE  Booted'
<1>1. Typed /\ UNCHANGED alias
  BY UpdateLives DEF OneInv, LifeInv
<1>2. Plain \notin exists /\ alias["live"] # {}
  BY <1>1, UpdateMoves DEF OneInv, Booted
<1>3. exists' = exists
  <2>1. CASE WriteProduct(w)
    BY <1>1, <1>2, <2>1, UpdateFacts, UpsertFacts, NamesDiffer DEF WriteProduct
  <2> QED
    BY <2>1 DEF Update, TakeUpdate, ClearProduct, ReadProduct
<1> QED
  BY <1>1, <1>2, <1>3, UpdateMoves, BootedKept DEF OneInv

(* The steps that fill a new index leave the live alias as it is.          *)
LEMMA ReindexBooted ==
    ASSUME OneInv, NEW w \in Workers, Reindex(w) \/ BulkFails(w), "boot" \notin faults',
           faults \subseteq faults'
    PROVE  Booted'
<1>1. Typed /\ alias'["live"] = alias["live"]
  BY ReindexLives DEF OneInv, LifeInv
<1>2. Plain \notin exists /\ alias["live"] # {}
  BY <1>1, ReindexMoves DEF OneInv, Booted
<1>3. Plain \notin exists'
  <2>1. CASE CreateNewIndex(w)
    BY <1>2, <2>1, NamesDiffer DEF CreateNewIndex, New, Plain
  <2>2. CASE CopyProduct(w)
    <3>1. worker[w].job \in Reindexes /\ worker[w].item \in Products /\ worker[w].seen \in Version
      BY <1>1, <2>2, ReindexFacts
    <3>2. exists' \subseteq exists \cup {<<"plain", worker[w].job>>}
      BY <1>1, <2>2, <3>1, UpsertFacts, NamesDiffer DEF CopyProduct
    <3>3. <<"plain", worker[w].job>> # Plain
      BY <3>1, NamesDiffer
    <3> QED
      BY <1>2, <3>2, <3>3
  <2> QED
    BY <1>2, <2>1, <2>2 DEF Reindex, TakeReindex, PutNewAlias, CreateNewFails, ReadPage,
                            PageDone, FetchProduct, BulkFails
<1> QED
  BY <1>1, <1>2, <1>3, ReindexMoves, BootedKept DEF OneInv

(* The end of a reindex finds a live alias, and leaves one.                *)
LEMMA SwitchBooted ==
    ASSUME OneInv, NEW w \in Workers, Switch(w), "boot" \notin faults', faults \subseteq faults'
    PROVE  /\ Booted'
           /\ ~DeletePlain(w)
           /\ NameLive(w) => worker'[w].pc = "swap"
           /\ SwitchAlias(w) => worker[w].found = "alias"
<1>1. Typed /\ worker[w].job \in Reindexes
  BY SwitchFacts DEF OneInv, LifeInv
<1>2. worker[w].pc \in {"look", "name", "unplain", "swap", "drop", "finally"}
  BY DEF Switch, LookAtLive, NameLive, DeletePlain, SwitchAlias, SwitchRefused, SwitchFails, DropOld,
         DropNew
<1>3. /\ Plain \notin exists /\ alias["live"] # {} /\ worker[w].pc # "unplain"
      /\ worker[w].pc \in {"name", "swap", "drop"} => worker[w].found = "alias"
  BY <1>2 DEF OneInv, Booted
<1>4. ~DeletePlain(w) /\ (SwitchAlias(w) => worker[w].found = "alias")
  BY <1>3 DEF DeletePlain, SwitchAlias
<1>5. Plain \notin exists'
  <2>1. CASE DropOld(w) \/ DropNew(w)
    BY <1>1, <1>3, <2>1, DeleteFacts DEF DropOld, DropNew
  <2> QED
    BY <1>3, <1>4, <2>1 DEF Switch, LookAtLive, NameLive, SwitchAlias, SwitchRefused, SwitchFails
<1>6. alias'["live"] # {}
  BY <1>3, SwitchLives DEF OneInv
<1>7. NameLive(w) => worker'[w].pc = "swap" /\ worker'[w].found = "alias"
  BY <1>1, <1>3, SwitchFacts DEF NameLive
<1>8. /\ Moved(w) /\ worker'[w].pc # "unplain"
      /\ worker'[w].pc \in {"name", "swap", "drop"} => worker'[w].found = "alias"
  <2>1. CASE LookAtLive(w)
    BY <1>1, <1>3, <2>1, SwitchFacts DEF Rests
  <2>2. CASE NameLive(w)
    BY <1>1, <1>7, <2>2, SwitchFacts
  <2>3. CASE SwitchAlias(w)
    BY <1>1, <1>4, <2>3, SwitchFacts DEF Onward
  <2>4. CASE SwitchRefused(w) \/ SwitchFails(w)
    BY <1>1, <2>4, SwitchFacts DEF Onward
  <2>5. CASE DropOld(w) \/ DropNew(w)
    BY <1>1, <2>5, SwitchFacts DEF Rests
  <2> QED
    BY <1>4, <2>1, <2>2, <2>3, <2>4, <2>5 DEF Switch
<1>9. Booted'
  BY <1>3, <1>5, <1>6, <1>8, BootedKept DEF OneInv
<1> QED
  BY <1>4, <1>7, <1>9

-----------------------------------------------------------------------------
(* One mover at a time *)

(* A process becomes a mover when there is none, and reads the live name   *)
(* as it is.                                                               *)
LEMMA SingleKept ==
    ASSUME Single, NEW w \in Workers, Moved(w), raced => raced', alias'["live"] = alias["live"],
           ~raced' =>
               LET x == worker[w]
                   y == worker'[w]
               IN  /\ Moves(y) => Moves(x) \/ \A v \in Workers : ~Moves(worker[v])
                   /\ y.pc \in {"create", "alias"} => alias["live"] = {}
                   /\ y.pc \in {"name", "unplain", "swap"} => (y.found = "alias" <=> alias["live"] # {})
                   /\ y.pc = "swap" /\ y.found = "alias" => y.from = alias["live"]
    PROVE  Single'
<1> SUFFICES ASSUME ~raced'
             PROVE  /\ \A u, v \in Workers : Moves(worker'[u]) /\ Moves(worker'[v]) => u = v
                    /\ \A i, j \in alias'["live"] : i = j
                    /\ \A v \in Workers :
                           LET x == worker'[v]
                           IN  /\ x.pc \in {"create", "alias"} => alias'["live"] = {}
                               /\ x.pc \in {"name", "unplain", "swap"} =>
                                      (x.found = "alias" <=> alias'["live"] # {})
                               /\ x.pc = "swap" /\ x.found = "alias" => x.from = alias'["live"]
  BY DEF Single, Moves
<1>1. /\ \A u, v \in Workers : Moves(worker[u]) /\ Moves(worker[v]) => u = v
      /\ \A i, j \in alias["live"] : i = j
      /\ \A v \in Workers :
             LET x == worker[v]
             IN  /\ x.pc \in {"create", "alias"} => alias["live"] = {}
                 /\ x.pc \in {"name", "unplain", "swap"} => (x.found = "alias" <=> alias["live"] # {})
                 /\ x.pc = "swap" /\ x.found = "alias" => x.from = alias["live"]
  BY DEF Single
<1>2. \A v \in Workers \ {w} : worker'[v] = worker[v]
  BY DEF Moved
<1>3. \A u, v \in Workers : Moves(worker'[u]) /\ Moves(worker'[v]) => u = v
  BY <1>1, <1>2
<1>4. ASSUME NEW v \in Workers
      PROVE  LET x == worker'[v]
             IN  /\ x.pc \in {"create", "alias"} => alias'["live"] = {}
                 /\ x.pc \in {"name", "unplain", "swap"} => (x.found = "alias" <=> alias'["live"] # {})
                 /\ x.pc = "swap" /\ x.found = "alias" => x.from = alias'["live"]
  <2>1. CASE v = w
    BY <2>1
  <2>2. CASE v # w
    BY <1>1, <1>2, <2>2
  <2> QED
    BY <2>1, <2>2
<1> QED
  BY <1>1, <1>3, <1>4

(* The mover gives the live name to one index, and nobody else is a mover. *)
LEMMA SingleMoved ==
    ASSUME Typed, Single, ~raced, NEW w \in Workers, Moved(w), Moves(worker[w]),
           \A i, j \in alias'["live"] : i = j,
           worker'[w].pc \in {"idle", "drop"}
    PROVE  Single'
<1>1. \A v \in Workers \ {w} : worker'[v] = worker[v] /\ ~Moves(worker[v])
  BY DEF Moved, Single
<1>2. \A v \in Workers \ {w} : worker'[v].pc \notin {"create", "alias", "name", "unplain", "swap"}
  BY <1>1 DEF Typed, Fits, Reindexers, Moves
<1> QED
  BY <1>1, <1>2 DEF Single, Moves

(* A first start moves the live name only where there is none.             *)
LEMMA BootSingle ==
    ASSUME OneInv, NEW w \in Workers, Boot(w) \/ JobFails(w) \/ Crash(w), raced => raced'
    PROVE  Single'
<1>1. Typed /\ Single /\ LifeInv
  BY DEF OneInv, LifeInv
<1>2. Absent \notin Reindexes
  BY ConstantsAssumption DEF Absent
<1>3. CASE PutAlias(w)
  <2>1. Moved(w) /\ worker'[w].pc = "idle" /\ Moves(worker[w])
    BY <1>1, <1>3, BootFacts DEF Rests, PutAlias, Moves
  <2>2. \/ alias'["live"] = alias["live"]
        \/ alias'["live"] = alias["live"] \cup {New(w)}
    BY <1>1, <1>3, NamesDiffer DEF PutAlias, New, Typed
  <2>3. ~raced => /\ alias["live"] = {}
                  /\ \A i, j \in alias'["live"] : i = j
    BY <1>1, <1>3, <2>2 DEF PutAlias, Single
  <2>4. raced => raced'
    OBVIOUS
  <2>5. CASE raced
    BY <2>4, <2>5 DEF Single
  <2>6. CASE ~raced
    BY <1>1, <2>1, <2>3, <2>6, SingleMoved
  <2> QED
    BY <2>5, <2>6
<1>4. CASE CheckIndex(w)
  <2>1. Moved(w) /\ worker'[w].job = Absent /\ worker'[w].pc \in {"create", "probe"}
        /\ UNCHANGED alias
        /\ (worker'[w].pc = "create" => Target("live") = {})
    BY <1>1, <1>4, BootFacts DEF Rests, CheckIndex
  <2>2. Target("live") = {} => alias["live"] = {}
    BY DEF Target
  <2>3. ~raced' /\ Target("live") = {} => \A v \in Workers : ~Moves(worker[v])
    BY <1>4 DEF CheckIndex, Movers, Moves
  <2> QED
    BY <1>1, <1>2, <2>1, <2>2, <2>3, SingleKept DEF Moves
<1>5. CASE CreateIndex(w)
  <2>1. Moved(w) /\ worker'[w].job = Absent /\ worker'[w].pc = "alias" /\ worker[w].pc = "create"
        /\ UNCHANGED <<alias, raced>>
    BY <1>1, <1>5, BootFacts DEF Rests, CreateIndex
  <2>2. ~raced' => alias["live"] = {}
    BY <1>1, <2>1 DEF Single
  <2> QED
    BY <1>1, <1>2, <2>1, <2>2, SingleKept DEF Moves
<1>6. CASE Start(w) \/ StartDeaf(w) \/ CreateFails(w) \/ ProbeIndex(w) \/ JobFails(w) \/ Crash(w)
  <2>1. Moved(w) /\ worker'[w].job = Absent /\ worker'[w].pc \in {"idle", "check", "down"}
    BY <1>1, <1>6, BootFacts DEF Rests
  <2>2. UNCHANGED alias
    BY <1>6 DEF Start, StartDeaf, CreateFails, ProbeIndex, JobFails, Crash
  <2> QED
    BY <1>1, <1>2, <2>1, <2>2, SingleKept DEF Moves
<1> QED
  BY <1>3, <1>4, <1>5, <1>6 DEF Boot

(* An update moves nothing; a reindex begins when nobody does.             *)
LEMMA FillSingle ==
    ASSUME OneInv, NEW w \in Workers, Update(w) \/ Reindex(w) \/ BulkFails(w), raced => raced'
    PROVE  Single'
<1>1. Typed /\ Single /\ LifeInv
  BY DEF OneInv, LifeInv
<1>2. Moved(w) /\ alias'["live"] = alias["live"]
  BY <1>1, UpdateMoves, UpdateLives, ReindexMoves, ReindexLives
<1>3. worker'[w].pc \notin {"create", "alias", "name", "unplain", "swap"}
  BY <1>1, UpdateMoves, ReindexMoves
<1>4. Moves(worker'[w]) => Moves(worker[w]) \/ \E r \in Reindexes : TakeReindex(w, r)
  BY <1>1, <1>3, UpdateMoves, ReindexMoves DEF Moves
<1>5. ~raced' /\ (\E r \in Reindexes : TakeReindex(w, r)) => \A v \in Workers : ~Moves(worker[v])
  BY DEF TakeReindex, Movers, Moves
<1> QED
  BY <1>1, <1>2, <1>3, <1>4, <1>5, SingleKept

(* switchAlias finds the live name as it is, and gives it to the new index *)
(* alone.                                                                  *)
LEMMA SwitchSingle ==
    ASSUME OneInv, NEW w \in Workers, Switch(w), raced => raced'
    PROVE  Single'
<1>1. Typed /\ Single /\ LifeInv /\ Moves(worker[w])
  BY SwitchFacts DEF OneInv, LifeInv, Moves
<1>2. CASE raced
  <2>1. raced'
    BY <1>2, Zenon
  <2> QED
    BY <2>1 DEF Single
<1> SUFFICES ASSUME ~raced PROVE Single'
  BY <1>2
<1>3. /\ \A i, j \in alias["live"] : i = j
      /\ worker[w].pc \in {"name", "unplain", "swap"} =>
             (worker[w].found = "alias" <=> alias["live"] # {})
      /\ worker[w].pc = "swap" /\ worker[w].found = "alias" => worker[w].from = alias["live"]
  BY <1>1 DEF Single
<1>4. CASE SwitchAlias(w)
  <2>1. PICK r \in Reindexes : /\ Onward(w, "drop") /\ worker[w].pc = "swap"
                               /\ alias'["live"] = (alias["live"] \ (IF worker[w].found = "alias"
                                                        THEN worker[w].from ELSE {})) \cup {New(r)}
    BY <1>1, <1>4, SwitchMoves DEF SwitchAlias
  <2>2. alias'["live"] = {New(r)}
    BY <1>3, <2>1
  <2>3. Moved(w) /\ worker'[w].pc = "drop"
    BY <2>1 DEF Onward
  <2> QED
    BY <1>1, <2>2, <2>3, SingleMoved
<1>5. CASE ~SwitchAlias(w)
  <2>1. alias'["live"] = alias["live"]
    <3>1. ~PutAlias(w)
      <4>1. worker[w].pc # "alias"
        BY DEF Switch, LookAtLive, NameLive, DeletePlain, SwitchAlias, SwitchRefused, SwitchFails,
               DropOld, DropNew
      <4> QED
        BY <4>1 DEF PutAlias
    <3> QED
      BY <1>1, <1>5, <3>1, LiveStays DEF Step
  <2>2. CASE (LookAtLive(w) /\ alias[worker[w].job] = {}) \/ DropOld(w) \/ DropNew(w)
    <3>1. Moved(w) /\ worker'[w].pc = "idle"
      BY <1>1, <2>2, SwitchFacts DEF Rests
    <3> QED
      BY <1>1, <2>1, <3>1, SingleKept
  <2>3. CASE LookAtLive(w) /\ alias[worker[w].job] # {}
    <3>1. Moved(w) /\ worker'[w].pc = "name" /\ (worker'[w].found = "alias" <=> alias["live"] # {})
      BY <1>1, <2>3, SwitchFacts
    <3> QED
      BY <1>1, <2>1, <3>1, SingleKept
  <2>4. CASE NameLive(w)
    <3>1. /\ Moved(w) /\ worker[w].pc = "name" /\ worker'[w].found = worker[w].found
          /\ worker'[w].pc \in {"unplain", "swap"}
          /\ worker'[w].from \subseteq alias["live"]
          /\ Cardinality(worker'[w].from) = IF alias["live"] = {} THEN 0 ELSE 1
      BY <1>1, <2>4, SwitchFacts DEF NameLive
    <3>2. alias["live"] # {} => worker'[w].from # {}
      BY <3>1, FS_EmptySet
    <3>3. worker'[w].from = alias["live"]
      BY <1>3, <3>1, <3>2
    <3> QED
      BY <1>1, <1>3, <2>1, <3>1, <3>3, SingleKept
  <2>5. CASE DeletePlain(w) /\ Target("live") = {Plain}
    <3>1. /\ Moved(w) /\ worker[w].pc = "unplain" /\ worker'[w].pc = "swap"
          /\ worker'[w].found = worker[w].found
      BY <1>1, <2>5, SwitchFacts DEF DeletePlain, Onward
    <3>2. Plain \notin alias["live"]
      BY <1>1, NamesDiffer DEF LifeInv, Names, Plain
    <3>3. alias["live"] = {}
      BY <2>5, <3>2 DEF Target
    <3> QED
      BY <1>1, <1>3, <2>1, <3>1, <3>3, SingleKept
  <2>6. CASE SwitchRefused(w) \/ SwitchFails(w) \/ (DeletePlain(w) /\ Target("live") # {Plain})
    <3>1. Moved(w) /\ worker'[w].pc = "finally"
      BY <1>1, <2>6, SwitchFacts DEF Onward
    <3> QED
      BY <1>1, <2>1, <3>1, SingleKept
  <2> QED
    BY <1>5, <2>2, <2>3, <2>4, <2>5, <2>6 DEF Switch
<1> QED
  BY <1>4, <1>5

-----------------------------------------------------------------------------
(* No index is left over *)

(* What a process makes it holds, and what it lets go of is live or gone.  *)
LEMMA AccountedKept ==
    ASSUME Typed, Taken, Accounted, NEW w \in Workers, Moved(w), faults \subseteq faults',
           faults' = {} =>
               /\ \A i \in exists' \ exists : i \in alias'["live"] \/ Holds(w, worker'[w], i)
               /\ \A i \in alias["live"] \cap exists' :
                      i \in alias'["live"] \/ Holds(w, worker'[w], i)
               /\ \A i \in exists' : Holds(w, worker[w], i) =>
                      i \in alias'["live"] \/ Holds(w, worker'[w], i)
               /\ \A r \in Reindexes \ {worker[w].job} : alias[r] # {} => alias'[r] # {}
               /\ worker'[w].pc \in {"page", "fetch", "copy", "look", "name", "swap", "finally"} =>
                      alias'[worker'[w].job] # {}
    PROVE  Accounted'
<1> SUFFICES ASSUME faults' = {}
             PROVE  /\ \A i \in exists' : i \in alias'["live"] \/ \E v \in Workers : Holds(v, worker'[v], i)
                    /\ \A v \in Workers :
                           worker'[v].pc \in {"page", "fetch", "copy", "look", "name", "swap", "finally"} =>
                               alias'[worker'[v].job] # {}
  BY DEF Accounted, Holds
<1>1. /\ \A i \in exists : i \in alias["live"] \/ \E v \in Workers : Holds(v, worker[v], i)
      /\ \A v \in Workers :
             worker[v].pc \in {"page", "fetch", "copy", "look", "name", "swap", "finally"} =>
                 alias[worker[v].job] # {}
  BY DEF Accounted
<1>2. ASSUME NEW i \in exists'
      PROVE  i \in alias'["live"] \/ \E v \in Workers : Holds(v, worker'[v], i)
  <2>1. CASE i \notin exists \/ i \in alias["live"]
    BY <2>1
  <2>2. CASE \E v \in Workers : Holds(v, worker[v], i)
    <3>1. PICK v \in Workers : Holds(v, worker[v], i)
      BY <2>2
    <3>2. CASE v = w
      BY <3>1, <3>2
    <3>3. CASE v # w
      BY <3>1, <3>3 DEF Moved
    <3> QED
      BY <3>2, <3>3
  <2> QED
    BY <1>1, <2>1, <2>2
<1>3. ASSUME NEW v \in Workers,
             worker'[v].pc \in {"page", "fetch", "copy", "look", "name", "swap", "finally"}
      PROVE  alias'[worker'[v].job] # {}
  <2>1. CASE v = w
    BY <1>3, <2>1
  <2>2. CASE v # w
    <3>1. worker'[v] = worker[v] /\ worker[v].job \in Reindexes
      BY <1>3, <2>2 DEF Moved, Typed, Fits, Reindexers
    <3>2. worker[v].job # worker[w].job
      BY <2>2, <3>1 DEF Taken
    <3> QED
      BY <1>1, <1>3, <3>1, <3>2
  <2> QED
    BY <2>1, <2>2
<1> QED
  BY <1>2, <1>3

(* An index that is made at the start is held until it is live.            *)
LEMMA BootAccounted ==
    ASSUME OneInv, NEW w \in Workers, Boot(w) \/ JobFails(w) \/ Crash(w), faults \subseteq faults'
    PROVE  Accounted'
<1>1. Typed /\ Taken /\ Accounted /\ "boot" \in Faults /\ "away" \in Faults
      /\ "job" \in Faults /\ "crash" \in Faults
  BY DEF OneInv, LifeInv, Faults
<1>2. \E pc \in {"check", "create", "probe", "alias", "idle", "down"} : Rests(w, pc)
  BY <1>1, BootFacts DEF Boot
<1>3. PICK pc \in {"check", "create", "probe", "alias", "idle", "down"} : Rests(w, pc)
  BY <1>2
<1>4. Moved(w) /\ worker'[w].pc = pc
  BY <1>3 DEF Rests
<1>5. CASE StartDeaf(w) \/ CreateFails(w) \/ JobFails(w) \/ Crash(w)
  <2>1. \E kind \in Faults : Fault(kind)
    BY <1>1, <1>5 DEF StartDeaf, CreateFails, JobFails, Crash
  <2>2. faults' # {}
    BY <1>1, <2>1, FaultFacts
  <2> QED
    BY <2>2 DEF Accounted
<1>6. CASE CreateIndex(w)
  <2>1. /\ exists' = exists \cup {New(w)} /\ UNCHANGED alias
        /\ worker[w].pc = "create" /\ worker'[w].pc = "alias"
    BY <1>1, <1>6, BootFacts DEF CreateIndex, New, Rests
  <2> QED
    BY <1>1, <1>4, <2>1, AccountedKept DEF Holds
<1>7. CASE PutAlias(w)
  <2>1. /\ worker[w].pc = "alias" /\ worker'[w].pc = "idle" /\ UNCHANGED exists
    BY <1>1, <1>7, BootFacts DEF PutAlias, Rests
  <2>2. ASSUME faults' = {}
        PROVE  /\ alias'["live"] = alias["live"] \cup {New(w)}
               /\ \A r \in Reindexes : alias'[r] = alias[r]
    <3>1. Plain \notin exists
      BY <2>2 DEF OneInv, Booted
    <3> QED
      BY <1>1, <1>7, <3>1, NamesDiffer DEF PutAlias, New, Plain, Typed
  <2> QED
    BY <1>1, <1>4, <2>1, <2>2, AccountedKept DEF Holds
<1>8. CASE Start(w) \/ CheckIndex(w) \/ ProbeIndex(w)
  <2>1. UNCHANGED <<exists, alias>> /\ worker[w].pc \in {"down", "check", "probe"}
    BY <1>8 DEF Start, CheckIndex, ProbeIndex
  <2> QED
    BY <1>1, <1>4, <2>1, AccountedKept DEF Holds
<1> QED
  BY <1>5, <1>6, <1>7, <1>8 DEF Boot

(* An update job makes no index: there is a live one to write to.          *)
LEMMA UpdateAccounted ==
    ASSUME OneInv, NEW w \in Workers, Update(w), faults \subseteq faults'
    PROVE  Accounted'
<1>1. Typed /\ Taken /\ Accounted
  BY DEF OneInv, LifeInv
<1>2. UNCHANGED alias /\ worker[w].pc \in {"idle", "clear", "read", "write"}
  BY DEF Update, TakeUpdate, ClearProduct, ReadProduct, WriteProduct
<1>3. faults' = {} => exists' = exists
  <2>1. CASE WriteProduct(w)
    <3>1. faults' = {} => alias["live"] # {}
      BY <2>1 DEF OneInv, Booted, WriteProduct
    <3> QED
      BY <1>1, <2>1, <3>1, UpdateFacts, UpsertFacts, NamesDiffer DEF WriteProduct
  <2> QED
    BY <2>1 DEF Update, TakeUpdate, ClearProduct, ReadProduct
<1>4. Moved(w) /\ worker'[w].pc \in {"idle", "clear", "read", "write"}
  <2>1. CASE \E p \in Products : TakeUpdate(w, p)
    BY <1>1, <2>1, UpdateFacts
  <2>2. CASE ClearProduct(w) \/ WriteProduct(w) \/ ReadProduct(w)
    BY <1>1, <2>2, UpdateFacts DEF Onward, Rests
  <2> QED
    BY <2>1, <2>2 DEF Update
<1> QED
  BY <1>1, <1>2, <1>3, <1>4, AccountedKept DEF Holds

(* A reindex holds the index it makes until the alias is moved.            *)
LEMMA ReindexAccounted ==
    ASSUME OneInv, NEW w \in Workers, Reindex(w) \/ BulkFails(w), faults \subseteq faults'
    PROVE  Accounted'
<1>1. Typed /\ Taken /\ Accounted /\ "create" \in Faults /\ "bulk" \in Faults
  BY DEF OneInv, LifeInv, Faults
<1>2. CASE CreateNewFails(w) \/ BulkFails(w)
  <2>1. faults' # {}
    BY <1>1, <1>2, FaultFacts DEF CreateNewFails, BulkFails
  <2> QED
    BY <2>1 DEF Accounted
<1>3. CASE \E r \in Reindexes : TakeReindex(w, r)
  <2>1. UNCHANGED <<exists, alias>> /\ worker[w].pc = "idle"
    BY <1>3 DEF TakeReindex
  <2>2. Moved(w) /\ worker'[w].pc = "newIndex"
    BY <1>1, <1>3, ReindexFacts
  <2> QED
    BY <1>1, <2>1, <2>2, AccountedKept DEF Holds
<1>4. CASE CreateNewIndex(w)
  <2>1. /\ exists' = exists \cup {New(worker[w].job)} /\ UNCHANGED alias
        /\ worker[w].pc = "newIndex"
    BY <1>4 DEF CreateNewIndex, New
  <2>2. Moved(w) /\ worker'[w].pc = "newAlias" /\ worker'[w].job = worker[w].job
    BY <1>1, <1>4, ReindexFacts DEF Onward
  <2> QED
    BY <1>1, <2>1, <2>2, AccountedKept DEF Holds
<1>5. CASE PutNewAlias(w)
  <2>1. PICK r \in Reindexes : r = worker[w].job
    BY <1>1, <1>5, ReindexFacts
  <2>2. /\ worker[w].pc = "newAlias" /\ UNCHANGED exists
        /\ alias'["live"] = alias["live"] /\ alias'[r] # {}
        /\ \A q \in Reindexes \ {r} : alias'[q] = alias[q]
    BY <1>1, <1>5, <2>1, NamesDiffer DEF PutNewAlias, Typed
  <2>3. Moved(w) /\ worker'[w].pc = "page" /\ worker'[w].job = r
    BY <1>1, <1>5, <2>1, ReindexFacts DEF Onward
  <2> QED
    BY <1>1, <2>1, <2>2, <2>3, AccountedKept DEF Holds
<1>6. CASE \/ ReadPage(w) \/ PageDone(w) \/ CopyProduct(w)
           \/ \E p \in Products : FetchProduct(w, p)
  <2>1. UNCHANGED alias /\ worker[w].pc \in {"page", "fetch", "copy"}
    BY <1>6 DEF ReadPage, PageDone, CopyProduct, FetchProduct
  <2>2. /\ Moved(w) /\ worker'[w].job = worker[w].job /\ worker[w].job \in Reindexes
        /\ worker'[w].pc \in {"page", "fetch", "copy", "look"}
    <3>1. CASE ReadPage(w)
      BY <1>1, <3>1, ReindexFacts
    <3>2. CASE PageDone(w) \/ CopyProduct(w)
      BY <1>1, <3>2, ReindexFacts DEF Onward
    <3>3. CASE \E p \in Products : FetchProduct(w, p)
      BY <1>1, <3>3, ReindexFacts
    <3> QED
      BY <1>6, <3>1, <3>2, <3>3
  <2>3. faults' = {} => alias[worker[w].job] # {}
    BY <1>1, <2>1 DEF Accounted
  <2>4. faults' = {} => exists' = exists
    <3>1. CASE CopyProduct(w)
      BY <1>1, <2>3, <3>1, ReindexFacts, UpsertFacts, NamesDiffer DEF CopyProduct
    <3> QED
      BY <1>6, <3>1 DEF ReadPage, PageDone, FetchProduct
  <2> QED
    BY <1>1, <2>1, <2>2, <2>3, <2>4, AccountedKept DEF Holds
<1> QED
  BY <1>2, <1>3, <1>4, <1>5, <1>6 DEF Reindex

(* When the alias is moved the old index is held, to be deleted; when it   *)
(* cannot be, the new one is held, to be deleted.                          *)
LEMMA SwitchAccounted ==
    ASSUME OneInv, NEW w \in Workers, Switch(w), faults \subseteq faults'
    PROVE  Accounted'
<1>1. Typed /\ Taken /\ Accounted /\ worker[w].job \in Reindexes /\ "switch" \in Faults
  BY SwitchFacts DEF OneInv, LifeInv, Faults
<1> SUFFICES ASSUME faults' = {} PROVE Accounted'
  BY DEF Accounted
<1>2. faults = {}
  OBVIOUS
<1>3. worker[w].pc \in {"look", "name", "swap", "finally"} => alias[worker[w].job] # {}
  BY <1>1, <1>2 DEF Accounted
<1>4. CASE LookAtLive(w)
  <2>1. UNCHANGED <<exists, alias>> /\ worker[w].pc = "look"
    BY <1>4 DEF LookAtLive
  <2>2. Moved(w) /\ worker'[w].pc = "name" /\ worker'[w].job = worker[w].job
    BY <1>1, <1>3, <1>4, <2>1, SwitchFacts
  <2> QED
    BY <1>1, <1>2, <1>3, <2>1, <2>2, AccountedKept DEF Holds
<1>5. CASE NameLive(w)
  <2>1. UNCHANGED <<exists, alias>> /\ worker[w].pc = "name"
    BY <1>5 DEF NameLive
  <2>2. Moved(w) /\ worker'[w].pc = "swap" /\ worker'[w].job = worker[w].job
    BY <1>1, <1>2, <1>5, SwitchFacts, SwitchBooted
  <2> QED
    BY <1>1, <1>2, <1>3, <2>1, <2>2, AccountedKept DEF Holds
<1>6. CASE SwitchAlias(w)
  <2>1. worker[w].pc = "swap" /\ worker[w].found = "alias"
    BY <1>2, <1>6, SwitchBooted DEF SwitchAlias
  <2>2. PICK r \in Reindexes :
            /\ r = worker[w].job /\ Onward(w, "drop") /\ UNCHANGED exists
            /\ alias'["live"] = (alias["live"] \ worker[w].from) \cup {New(r)}
            /\ \A q \in Reindexes \ {r} : alias'[q] = alias[q]
    BY <1>6, <2>1, SwitchMoves DEF OneInv
  <2>3. Moved(w) /\ worker'[w].pc = "drop" /\ worker'[w].from = worker[w].from
    BY <2>2 DEF Onward
  <2> QED
    BY <1>1, <1>2, <2>1, <2>2, <2>3, AccountedKept DEF Holds
<1>7. CASE SwitchRefused(w)
  <2>1. UNCHANGED <<exists, alias>> /\ worker[w].pc = "swap"
    BY <1>7 DEF SwitchRefused
  <2>2. Moved(w) /\ worker'[w].pc = "finally" /\ worker'[w].job = worker[w].job
    BY <1>1, <1>7, SwitchFacts DEF Onward
  <2> QED
    BY <1>1, <1>2, <1>3, <2>1, <2>2, AccountedKept DEF Holds
<1>8. CASE SwitchFails(w)
  BY <1>1, <1>8, FaultFacts DEF SwitchFails
<1>9. CASE DropOld(w)
  <2>1. worker[w].pc = "drop" /\ worker[w].found = "alias"
    BY <1>2, <1>9 DEF DropOld, OneInv, Booted
  <2>2. DeleteIndices(worker[w].from)
    BY <1>9, <2>1 DEF DropOld
  <2>3. exists' = exists \ worker[w].from /\ \A a \in Alias : alias'[a] = alias[a] \ worker[w].from
    BY <1>1, <2>2, DeleteFacts
  <2>4. worker[w].from \cap alias["live"] = {}
    BY <2>1 DEF OneInv, LifeInv, Kept
  <2>5. \A r \in Reindexes : alias[r] # {} => alias'[r] # {}
    <3>1. ASSUME NEW r \in Reindexes, alias[r] # {} PROVE alias'[r] # {}
      <4>1. alias[r] = {New(r)} /\ ~Used(New(r))
        BY <3>1 DEF OneInv, LifeInv, Names, NewIsUnused
      <4> QED
        BY <2>3, <4>1, NamesDiffer DEF Used
    <3> QED
      BY <3>1
  <2>6. Moved(w) /\ worker'[w].pc = "idle"
    BY <1>1, <1>9, SwitchFacts DEF Rests
  <2>7. alias'["live"] = alias["live"]
    BY <2>3, <2>4, NamesDiffer
  <2> QED
    BY <1>1, <1>2, <2>1, <2>3, <2>5, <2>6, <2>7, AccountedKept DEF Holds
<1>10. CASE DropNew(w)
  <2>1. PICK r \in Reindexes : r = worker[w].job
    BY <1>1
  <2>2. worker[w].pc = "finally" /\ DeleteIndices(alias[r])
    BY <1>10, <2>1 DEF DropNew
  <2>3. alias[r] = {New(r)} /\ New(r) \notin alias["live"]
    BY <1>3, <2>1, <2>2 DEF OneInv, LifeInv, Names, NewIsUnused, Used
  <2>4. exists' = exists \ {New(r)} /\ \A a \in Alias : alias'[a] = alias[a] \ {New(r)}
    BY <1>1, <2>2, <2>3, DeleteFacts
  <2>5. alias'["live"] = alias["live"] /\ \A q \in Reindexes \ {r} : alias'[q] = alias[q]
    <3>1. \A q \in Reindexes \ {r} : New(r) \notin alias[q] /\ q \in Alias
      BY NamesDiffer DEF OneInv, LifeInv, Names
    <3>2. "live" \in Alias
      BY NamesDiffer
    <3>3. \A a \in Alias : New(r) \notin alias[a] => alias'[a] = alias[a]
      BY <2>4
    <3> QED
      BY <2>3, <3>1, <3>2, <3>3
  <2>6. Moved(w) /\ worker'[w].pc = "idle"
    BY <1>1, <1>10, SwitchFacts DEF Rests
  <2> QED
    BY <1>1, <1>2, <2>1, <2>2, <2>4, <2>5, <2>6, AccountedKept DEF Holds
<1> QED
  BY <1>2, <1>4, <1>5, <1>6, <1>7, <1>8, <1>9, <1>10, SwitchBooted DEF Switch

(* The catalog leaves the indices alone.                                   *)
LEMMA ShopKeepsOne ==
    ASSUME OneInv, NEW w \in Workers, NEW p \in Products, EditProduct(w, p) \/ DeleteProduct(w, p)
    PROVE  Booted' /\ Single' /\ Accounted'
<1>1. /\ UNCHANGED <<exists, docs, alias, worker, faults, raced>>
      /\ updates \subseteq updates' /\ updates' \subseteq updates \cup Products
  BY DEF EditProduct, DeleteProduct, Announce
<1>2. updates = Products => updates' = Products
  BY <1>1
<1>3. Booted'
  BY <1>1, <1>2 DEF OneInv, Booted
<1>4. Single'
  BY <1>1 DEF OneInv, Single, Moves
<1>5. Accounted'
  BY <1>1 DEF OneInv, Accounted
<1> QED
  BY <1>3, <1>4, <1>5

(* The invariant holds at the start.                                       *)
LEMMA OneInit == Init => OneInv
<1> SUFFICES ASSUME Init PROVE OneInv
  OBVIOUS
<1>1. LifeInv
  BY LifeInit
<1>2. /\ exists = {} /\ updates = Products /\ alias["live"] = {}
      /\ \A w \in Workers : worker[w].pc = "down" /\ worker[w].job = Absent
  BY AtFacts, NamesDiffer DEF Init, PCs
<1>3. Absent \notin Reindexes
  BY ConstantsAssumption DEF Absent
<1>4. Single
  BY <1>2, <1>3 DEF Single, Moves
<1>5. Booted
  BY <1>2 DEF Booted, Plain
<1>6. Accounted
  BY <1>2 DEF Accounted
<1> QED
  BY <1>1, <1>4, <1>5, <1>6 DEF OneInv

(* Every step keeps it, however many processes start and reindex.          *)
LEMMA OneStep == OneInv /\ [Next]_vars => OneInv'
<1> SUFFICES ASSUME OneInv, [Next]_vars PROVE OneInv'
  OBVIOUS
<1>1. LifeInv' /\ faults \subseteq faults' /\ (raced => raced') /\ Typed
  BY LifeStep, NotesGrow DEF OneInv, LifeInv
<1>2. CASE UNCHANGED vars
  BY <1>1, <1>2 DEF vars, OneInv, Booted, Single, Moves, Accounted, Holds
<1>3. ASSUME NEW w \in Workers, Step(w) PROVE OneInv'
  <2>1. Single'
    BY <1>1, <1>3, BootSingle, FillSingle, SwitchSingle DEF Step
  <2>2. "boot" \in faults' => Booted'
    BY DEF Booted
  <2>3. Booted'
    BY <1>1, <1>3, <2>2, BootBooted, UpdateBooted, ReindexBooted, SwitchBooted DEF Step
  <2>4. Accounted'
    BY <1>1, <1>3, BootAccounted, UpdateAccounted, ReindexAccounted, SwitchAccounted DEF Step
  <2> QED
    BY <1>1, <2>1, <2>3, <2>4 DEF OneInv
<1>4. CASE \E w \in Workers, p \in Products : EditProduct(w, p) \/ DeleteProduct(w, p)
  BY <1>1, <1>4, ShopKeepsOne DEF OneInv
<1> QED
  BY <1>2, <1>3, <1>4 DEF Next, Step

(* So it holds in every reachable state.                                   *)
LEMMA OneInvariant == Spec => []OneInv
BY OneInit, OneStep, PTL DEF Spec

(* The live name never stands for two indices unless two processes that    *)
(* may move it were at work at a time: a reindex takes it from the index   *)
(* that has it when it hands it on (switchAlias), and a start gives it     *)
(* only where it found none (createIndicesIfNotExists), whatever fails.    *)
THEOREM LiveNameIsUnique == Spec => []OneLiveIndex
<1>1. OneInv => OneLiveIndex
  <2> SUFFICES ASSUME OneInv, ~raced PROVE Cardinality(alias["live"]) <= 1
    BY DEF OneLiveIndex
  <2>1. CASE alias["live"] = {}
    BY <2>1, FS_EmptySet
  <2>2. CASE alias["live"] # {}
    <3>1. PICK i : alias["live"] = {i}
      BY <2>2 DEF OneInv, Single
    <3>2. Cardinality({i}) = 1
      BY FS_Singleton
    <3> QED
      BY <3>1, <3>2
  <2> QED
    BY <2>1, <2>2
<1> QED
  BY <1>1, OneInvariant, PTL

(* No index is left over when all jobs are done and nothing went wrong,    *)
(* however many processes start and reindex at a time: every index that is *)
(* made is live at last or deleted (reindex, switchAlias,                  *)
(* createIndicesIfNotExists).                                              *)
THEOREM NothingIsLeftOver == Spec => []NoLeftovers
<1>1. OneInv => NoLeftovers
  <2> SUFFICES ASSUME OneInv, AtRest, faults = {}
               PROVE  exists = alias["live"]
    BY DEF NoLeftovers
  <2>1. \A w \in Workers, i \in exists : ~Holds(w, worker[w], i)
    BY DEF AtRest, Holds
  <2>2. alias["live"] \subseteq exists
    BY NamesDiffer DEF OneInv, LifeInv, Typed
  <2> QED
    BY <2>1, <2>2 DEF OneInv, Accounted
<1> QED
  BY <1>1, OneInvariant, PTL

-----------------------------------------------------------------------------
(* What happens to the documents *)

(* A job writes what is live, or its own index; only what is not live is   *)
(* deleted.                                                                *)
LEMMA DocsChange ==
    ASSUME LifeInv, NEW w \in Workers, Step(w), NEW k \in Index, NEW q \in Products
    PROVE  \/ docs'[k][q] = docs[k][q]
           \/ Update(w) /\ q = worker[w].job /\ k \in alias["live"] \cup {Plain}
           \/ /\ CopyProduct(w) /\ q = worker[w].item /\ worker[w].job \in Reindexes
              /\ k \in alias[worker[w].job] \cup {<<"plain", worker[w].job>>}
           \/ Switch(w) /\ docs'[k][q] = Absent /\ k \notin alias["live"]
<1>1. Typed
  BY DEF LifeInv
<1>2. CASE Boot(w) \/ Crash(w) \/ BulkFails(w) \/ JobFails(w)
  BY <1>2 DEF Boot, Start, StartDeaf, CheckIndex, CreateIndex, PutAlias, CreateFails, ProbeIndex, Crash,
              BulkFails, JobFails
<1>3. CASE Update(w)
  <2>1. CASE ClearProduct(w)
    BY <1>1, <1>3, <2>1, UpdateFacts, RemoveFacts DEF ClearProduct
  <2>2. CASE WriteProduct(w)
    BY <1>1, <1>3, <2>2, UpdateFacts, UpsertFacts, NamesDiffer DEF WriteProduct, Plain
  <2> QED
    BY <1>3, <2>1, <2>2 DEF Update, TakeUpdate, ReadProduct
<1>4. CASE Reindex(w)
  <2>1. CASE CopyProduct(w)
    <3>1. /\ worker[w].job \in Reindexes /\ worker[w].item \in Products /\ worker[w].seen \in Version
      BY <1>1, <2>1, ReindexFacts
    <3> QED
      BY <1>1, <2>1, <3>1, UpsertFacts, NamesDiffer DEF CopyProduct
  <2> QED
    BY <1>4, <2>1 DEF Reindex, TakeReindex, CreateNewIndex, PutNewAlias, CreateNewFails, ReadPage,
                      PageDone, FetchProduct
<1>5. CASE Switch(w)
  <2>1. CASE DropOld(w) \/ DropNew(w) \/ (DeletePlain(w) /\ Target("live") = {Plain})
    <3>1. PICK is : DeleteIndices(is) /\ is \cap alias["live"] = {}
      <4>1. CASE DropOld(w)
        <5>1. (IF worker[w].found = "alias" THEN worker[w].from ELSE {}) \cap alias["live"] = {}
          BY <4>1 DEF DropOld, LifeInv, Kept
        <5> QED
          BY <4>1, <5>1 DEF DropOld
      <4>2. CASE DropNew(w)
        <5>1. PICK r \in Reindexes : r = worker[w].job
          BY <1>1, <1>5, SwitchFacts
        <5>2. alias[r] \cap alias["live"] = {}
          BY DEF LifeInv, Names, NewIsUnused, Used
        <5> QED
          BY <4>2, <5>1, <5>2 DEF DropNew
      <4>3. CASE DeletePlain(w) /\ Target("live") = {Plain}
        <5>1. Plain \notin alias["live"]
          BY NamesDiffer DEF LifeInv, Names, Plain
        <5> QED
          BY <4>3, <5>1 DEF DeletePlain, Plain
      <4> QED
        BY <2>1, <4>1, <4>2, <4>3
    <3>2. docs'[k] = IF k \in is THEN Empty ELSE docs[k]
      BY <1>1, <3>1, DeleteFacts
    <3> QED
      BY <1>5, <3>1, <3>2, EmptyFacts
  <2>2. CASE LookAtLive(w) \/ NameLive(w) \/ SwitchAlias(w) \/ SwitchRefused(w) \/ SwitchFails(w)
             \/ (DeletePlain(w) /\ Target("live") # {Plain})
    BY <2>2 DEF LookAtLive, NameLive, SwitchAlias, SwitchRefused, SwitchFails, DeletePlain, Plain
  <2> QED
    BY <1>5, <2>1, <2>2 DEF Switch
<1> QED
  BY <1>2, <1>3, <1>4, <1>5 DEF Step

(* An index that has the alias of a reindex is written by it alone, and    *)
(* keeps the alias while another process is at work.                       *)
LEMMA OwnIndex ==
    ASSUME LifeInv, NEW w \in Workers, Step(w), NEW r \in Reindexes, r # worker[w].job,
           alias'[r] # {}
    PROVE  alias[r] # {} /\ \A q \in Products : docs'[New(r)][q] = docs[New(r)][q]
<1>1. Typed
  BY DEF LifeInv
<1>2. New(r) \in Index /\ New(r) # Plain /\ r \in Alias
  BY NamesDiffer DEF Plain
<1>3. alias'[r] \subseteq alias[r]
  <2>1. CASE Boot(w) \/ JobFails(w) \/ Crash(w)
    BY <1>1, <1>2, <2>1, NamesDiffer DEF Boot, Start, StartDeaf, CheckIndex, CreateIndex, PutAlias,
                                   CreateFails, ProbeIndex, JobFails, Crash, Typed
  <2>2. CASE Update(w)
    BY <2>2, UpdateLives
  <2>3. CASE PutNewAlias(w)
    <3>1. PICK q \in Reindexes : q = worker[w].job
      BY <1>1, <2>3, ReindexFacts
    <3> QED
      BY <1>1, <1>2, <2>3, <3>1, NamesDiffer DEF PutNewAlias, Typed
  <2>4. CASE (Reindex(w) /\ ~PutNewAlias(w)) \/ BulkFails(w)
    BY <2>4 DEF Reindex, TakeReindex, CreateNewIndex, CreateNewFails, ReadPage, PageDone,
                CopyProduct, FetchProduct, BulkFails
  <2>5. CASE SwitchAlias(w)
    BY <2>5, SwitchMoves
  <2>6. CASE DropOld(w) \/ DropNew(w) \/ (DeletePlain(w) /\ Target("live") = {Plain})
    <3>1. PICK is : DeleteIndices(is)
      BY <2>6 DEF DropOld, DropNew, DeletePlain, Plain
    <3> QED
      BY <1>1, <1>2, <3>1, DeleteFacts
  <2>7. CASE LookAtLive(w) \/ NameLive(w) \/ SwitchRefused(w) \/ SwitchFails(w)
             \/ (DeletePlain(w) /\ Target("live") # {Plain})
    BY <2>7 DEF LookAtLive, NameLive, SwitchRefused, SwitchFails, DeletePlain, Plain
  <2> QED
    BY <2>1, <2>2, <2>3, <2>4, <2>5, <2>6, <2>7 DEF Step, Switch
<1>4. alias[r] = {New(r)} /\ ~Used(New(r))
  BY <1>3 DEF LifeInv, Names, NewIsUnused
<1>5. New(r) \in alias'[r]
  BY <1>3, <1>4
<1>6. \A q \in Reindexes : New(r) \in alias[q] \cup {<<"plain", q>>} => q = r
  BY NamesDiffer DEF LifeInv, Names
<1>7. ASSUME NEW q \in Products, Switch(w) PROVE docs'[New(r)][q] = docs[New(r)][q]
  <2>1. CASE DropOld(w) \/ DropNew(w) \/ (DeletePlain(w) /\ Target("live") = {Plain})
    <3>1. PICK is : DeleteIndices(is)
      BY <2>1 DEF DropOld, DropNew, DeletePlain, Plain
    <3>2. New(r) \notin is
      BY <1>1, <1>2, <1>5, <3>1, DeleteFacts
    <3> QED
      BY <1>1, <1>2, <3>1, <3>2, DeleteFacts
  <2>2. CASE LookAtLive(w) \/ NameLive(w) \/ SwitchAlias(w) \/ SwitchRefused(w) \/ SwitchFails(w)
             \/ (DeletePlain(w) /\ Target("live") # {Plain})
    BY <2>2 DEF LookAtLive, NameLive, SwitchAlias, SwitchRefused, SwitchFails, DeletePlain, Plain
  <2> QED
    BY <1>7, <2>1, <2>2 DEF Switch
<1>8. ASSUME NEW q \in Products, ~Switch(w) PROVE docs'[New(r)][q] = docs[New(r)][q]
  BY <1>2, <1>4, <1>6, <1>8, DocsChange DEF Used
<1> QED
  BY <1>4, <1>7, <1>8

(* Who makes a new index has just taken its reindex. *)
LEMMA WhoBegins ==
    ASSUME Typed, NEW w \in Workers, Step(w)
    PROVE  /\ Moved(w)
           /\ worker'[w].pc \in {"newIndex", "newAlias"} =>
                  \/ worker'[w].job \in Reindexes /\ asked[worker'[w].job] = "waits"
                  \/ worker[w].pc = "newIndex" /\ worker'[w].job = worker[w].job
           /\ \A r \in Reindexes : asked[r] = "taken" => asked'[r] = "taken"
<1>1. CASE Boot(w) \/ JobFails(w) \/ Crash(w)
  <2>1. \E pc \in {"check", "create", "probe", "alias", "idle", "down"} : Rests(w, pc)
    BY <1>1, BootFacts DEF Boot
  <2>2. UNCHANGED asked
    BY <1>1 DEF Boot, Start, StartDeaf, CheckIndex, CreateIndex, PutAlias, CreateFails, ProbeIndex,
                JobFails, Crash
  <2> QED
    BY <2>1, <2>2 DEF Rests
<1>2. CASE Update(w)
  <2>1. UNCHANGED asked
    BY <1>2 DEF Update, TakeUpdate, ClearProduct, ReadProduct, WriteProduct
  <2> QED
    BY <1>2, <2>1, UpdateMoves
<1>3. CASE Reindex(w) \/ BulkFails(w)
  <2>1. CASE \E r \in Reindexes : TakeReindex(w, r)
    <3>1. PICK r \in Reindexes : TakeReindex(w, r)
      BY <2>1
    <3>2. asked[r] = "waits" /\ asked' = [asked EXCEPT ![r] = "taken"]
      BY <3>1 DEF TakeReindex
    <3>3. Moved(w) /\ worker'[w].job = r
      BY <3>1, ReindexFacts
    <3> QED
      BY <3>2, <3>3 DEF Typed
  <2>2. CASE CreateNewIndex(w)
    BY <2>2, ReindexFacts DEF CreateNewIndex, Onward
  <2>3. CASE \E p \in Products : FetchProduct(w, p)
    <3>1. UNCHANGED asked
      BY <2>3 DEF FetchProduct
    <3> QED
      BY <2>3, <3>1, ReindexFacts
  <2>4. CASE ReadPage(w)
    <3>1. UNCHANGED asked
      BY <2>4 DEF ReadPage
    <3> QED
      BY <2>4, <3>1, ReindexFacts
  <2>5. CASE PutNewAlias(w) \/ CreateNewFails(w) \/ PageDone(w) \/ CopyProduct(w) \/ BulkFails(w)
    <3>1. UNCHANGED asked
      BY <2>5 DEF PutNewAlias, CreateNewFails, PageDone, CopyProduct, BulkFails
    <3>2. \/ \E pc \in {"page", "fetch", "look", "read"} : Onward(w, pc)
          \/ Rests(w, "idle")
      BY <2>5, ReindexFacts
    <3> QED
      BY <3>1, <3>2 DEF Onward, Rests
  <2> QED
    BY <1>3, <2>1, <2>2, <2>3, <2>4, <2>5 DEF Reindex
<1>4. CASE Switch(w)
  <2>1. UNCHANGED asked
    BY <1>4 DEF Switch, LookAtLive, NameLive, DeletePlain, SwitchAlias, SwitchRefused, SwitchFails,
                DropOld, DropNew
  <2>2. \/ \E pc \in {"swap", "drop", "finally"} : Onward(w, pc)
        \/ Rests(w, "idle")
        \/ Moved(w) /\ worker'[w].pc \in {"name", "unplain", "swap"}
    BY <1>4, SwitchFacts DEF Switch
  <2> QED
    BY <2>1, <2>2 DEF Onward, Rests
<1> QED
  BY <1>1, <1>2, <1>3, <1>4 DEF Step

(* An index nobody has given a name yet has not been written to.           *)
LEMMA FreshStep ==
    ASSUME LifeInv, Fresh, NEW w \in Workers, Step(w)
    PROVE  Fresh'
<1>1. Typed /\ LifeInv'
  BY BootLives, UpdateLives, ReindexLives, SwitchLives DEF LifeInv, Step
<1>2. Moved(w)
  BY <1>1, WhoBegins
<1>3. \A a \in Workers \cup Reindexes : New(a) \in Index /\ New(a) # Plain
  BY NamesDiffer DEF Plain
<1>4. ASSUME NEW r \in Reindexes
      PROVE  \/ Blank(New(r))'
             \/ /\ asked'[r] = "taken"
                /\ \A v \in Workers : worker'[v].job = r => worker'[v].pc \notin {"newIndex", "newAlias"}
  <2>1. CASE Blank(New(r)) /\ New(r) \in alias["live"] /\ Update(w)
    <3>1. Used(New(r))'
      BY <2>1, UpdateLives DEF Used
    <3> QED
      BY <1>1, <3>1 DEF LifeInv, NewIsUnused
  <2>2. CASE Blank(New(r)) /\ CopyProduct(w) /\ worker[w].job = r
    <3>1. worker'[w].pc = "fetch" /\ worker'[w].job = r
      BY <1>1, <2>2, ReindexFacts DEF Onward
    <3>2. asked'[r] = "taken" /\ \A v \in Workers : worker'[v].job = r => v = w
      BY <1>1, <3>1 DEF LifeInv, Taken
    <3> QED
      BY <3>1, <3>2
  <2>3. CASE Blank(New(r)) /\ ~(New(r) \in alias["live"] /\ Update(w))
             /\ ~(CopyProduct(w) /\ worker[w].job = r)
    <3>1. \A q \in Reindexes : New(r) \in alias[q] \cup {<<"plain", q>>} => q = r
      BY NamesDiffer DEF LifeInv, Names
    <3>2. ASSUME NEW q \in Products PROVE docs'[New(r)][q] = Absent
      BY <1>3, <2>3, <3>1, DocsChange DEF Blank
    <3> QED
      BY <3>2 DEF Blank
  <2>4. CASE asked[r] = "taken" /\
             \A v \in Workers : worker[v].job = r => worker[v].pc \notin {"newIndex", "newAlias"}
    <3>1. asked'[r] = "taken"
      BY <1>1, <2>4, WhoBegins
    <3>2. ASSUME NEW v \in Workers, worker'[v].job = r, worker'[v].pc \in {"newIndex", "newAlias"}
          PROVE  FALSE
      <4>1. v = w
        BY <1>2, <2>4, <3>2 DEF Moved
      <4> QED
        BY <1>1, <2>4, <3>2, <4>1, WhoBegins
    <3> QED
      BY <3>1, <3>2
  <2> QED
    BY <2>1, <2>2, <2>3, <2>4 DEF Fresh
<1> QED
  BY <1>4 DEF Fresh

-----------------------------------------------------------------------------
(* The last update of a product *)

(* Only who takes a job has another one, and only then may a product cease *)
(* to wait for an update, to be exposed or to be missed.                   *)
LEMMA JobFacts ==
    ASSUME Typed, NEW w \in Workers, Step(w)
    PROVE  /\ Moved(w) /\ UNCHANGED catalog
           /\ \/ \E p \in Products : TakeUpdate(w, p)
              \/ \E r \in Reindexes : TakeReindex(w, r)
              \/ /\ exposed \subseteq exposed' /\ updates \subseteq updates' /\ missed \subseteq missed'
                 /\ worker'[w].job \in {worker[w].job, Absent}
<1>1. UNCHANGED catalog
  BY DEF Step, Boot, Start, StartDeaf, CheckIndex, CreateIndex, PutAlias, CreateFails, ProbeIndex, Crash,
         JobFails, Update, TakeUpdate, ClearProduct, ReadProduct, WriteProduct,
         Reindex, TakeReindex, CreateNewIndex, PutNewAlias, CreateNewFails, ReadPage, PageDone,
         CopyProduct, FetchProduct, BulkFails,
         Switch, LookAtLive, NameLive, DeletePlain, SwitchAlias, SwitchRefused, SwitchFails, DropOld, DropNew
<1>2. CASE Boot(w) \/ JobFails(w) \/ Crash(w)
  <2>1. \E pc \in {"check", "create", "probe", "alias", "idle", "down"} : Rests(w, pc)
    BY <1>2, BootFacts DEF Boot
  <2>2. exposed \subseteq exposed' /\ updates \subseteq updates' /\ missed \subseteq missed'
    BY <1>2 DEF Boot, Start, StartDeaf, CheckIndex, CreateIndex, PutAlias, CreateFails, ProbeIndex,
                JobFails, Crash, Interrupted
  <2> QED
    BY <1>1, <2>1, <2>2 DEF Rests
<1>3. CASE Update(w)
  <2>1. CASE \E p \in Products : TakeUpdate(w, p)
    BY <1>1, <2>1, UpdateFacts
  <2>2. CASE ClearProduct(w) \/ WriteProduct(w) \/ ReadProduct(w)
    <3>1. UNCHANGED <<updates, exposed, missed>>
      BY <2>2 DEF ClearProduct, WriteProduct, ReadProduct
    <3> QED
      BY <1>1, <2>2, <3>1, UpdateFacts DEF Onward, Rests
  <2> QED
    BY <1>3, <2>1, <2>2 DEF Update
<1>4. CASE Reindex(w) \/ BulkFails(w)
  <2>1. CASE \E r \in Reindexes : TakeReindex(w, r)
    BY <1>1, <2>1, ReindexFacts
  <2>2. CASE \E p \in Products : FetchProduct(w, p)
    <3>1. UNCHANGED <<updates, exposed, missed>>
      BY <2>2 DEF FetchProduct
    <3> QED
      BY <1>1, <2>2, <3>1, ReindexFacts
  <2>3. CASE ReadPage(w)
    <3>1. UNCHANGED <<updates, exposed>>
      BY <2>3 DEF ReadPage
    <3>2. missed \subseteq missed' /\ Moved(w) /\ worker'[w].job = worker[w].job
      BY <2>3, ReindexFacts
    <3> QED
      BY <1>1, <3>1, <3>2
  <2>4. CASE CreateNewIndex(w) \/ PutNewAlias(w) \/ CreateNewFails(w) \/ PageDone(w)
             \/ CopyProduct(w) \/ BulkFails(w)
    <3>1. UNCHANGED <<updates, exposed, missed>>
      BY <2>4 DEF CreateNewIndex, PutNewAlias, CreateNewFails, PageDone, CopyProduct, BulkFails
    <3>2. \/ \E pc \in {"newAlias", "page", "fetch", "look", "read"} : Onward(w, pc)
          \/ Rests(w, "idle")
      BY <2>4, ReindexFacts
    <3> QED
      BY <1>1, <3>1, <3>2 DEF Onward, Rests
  <2> QED
    BY <1>4, <2>1, <2>2, <2>3, <2>4 DEF Reindex
<1>5. CASE Switch(w)
  <2>1. UNCHANGED <<updates, exposed, missed>>
    BY <1>5 DEF Switch, LookAtLive, NameLive, DeletePlain, SwitchAlias, SwitchRefused, SwitchFails,
                DropOld, DropNew
  <2>2. \/ \E pc \in {"swap", "drop", "finally"} : Onward(w, pc)
        \/ Rests(w, "idle")
        \/ Moved(w) /\ worker'[w].job = worker[w].job
    BY <1>5, SwitchFacts DEF Switch
  <2> QED
    BY <1>1, <2>1, <2>2 DEF Onward, Rests
<1> QED
  BY <1>2, <1>3, <1>4, <1>5 DEF Step

(* A product is settled by a step only if that takes a job for it while no *)
(* reindex is at work.                                                     *)
LEMMA Settling ==
    ASSUME Typed, NEW w \in Workers, Step(w), NEW p \in Products, Settled(p)'
    PROVE  Settled(p) \/ (TakeUpdate(w, p) /\ Reindexing = {})
<1>1. CASE \E q \in Products : TakeUpdate(w, q)
  BY <1>1 DEF TakeUpdate, Settled
<1>2. CASE \E r \in Reindexes : TakeReindex(w, r)
  BY <1>2 DEF TakeReindex, Settled
<1>3. CASE exposed \subseteq exposed' /\ updates \subseteq updates' /\ missed \subseteq missed'
  BY <1>3 DEF Settled
<1> QED
  BY <1>1, <1>2, <1>3, JobFacts

(* A job that starts beside another one it may disturb marks the product,  *)
(* and the mark stays while either runs.                                   *)
LEMMA OverlapsStep ==
    ASSUME Typed, Overlaps, NEW w \in Workers, Step(w)
    PROVE  Overlaps'
<1>1. Absent \notin Reindexes /\ Absent \notin Products /\ \A p \in Products : p \notin Reindexes
  BY ConstantsAssumption DEF Absent
<1>2. Moved(w)
  BY JobFacts
<1>3. CASE \E p \in Products : TakeUpdate(w, p)
  <2>1. PICK p \in Products : TakeUpdate(w, p)
    BY <1>3
  <2>2. /\ worker'[w].job = p
        /\ \A v \in Workers \ {w} : worker'[v] = worker[v]
        /\ exposed' = IF Reindexing # {} \/ \E v \in Workers : worker[v].job = p
                      THEN exposed \cup {p} ELSE exposed \ {p}
    BY <1>2, <2>1, UpdateFacts DEF TakeUpdate, Moved
  <2>3. ASSUME NEW u \in Workers, NEW v \in Workers,
               worker'[u].job \in Reindexes, worker'[v].job \in Products
        PROVE  worker'[v].job \in exposed'
    <3>1. u # w /\ u \in Reindexing
      BY <1>1, <2>2, <2>3 DEF Reindexing
    <3> QED
      BY <2>2, <2>3, <3>1 DEF Overlaps
  <2>4. ASSUME NEW u \in Workers, NEW v \in Workers, u # v,
               worker'[u].job = worker'[v].job, worker'[v].job \in Products
        PROVE  worker'[v].job \in exposed'
    <3>1. CASE worker'[v].job = p
      BY <2>2, <2>4, <3>1
    <3>2. CASE worker'[v].job # p
      BY <2>2, <2>4, <3>2 DEF Overlaps
    <3> QED
      BY <3>1, <3>2
  <2> QED
    BY <2>3, <2>4 DEF Overlaps
<1>4. CASE \E r \in Reindexes : TakeReindex(w, r)
  <2>1. PICK r \in Reindexes : TakeReindex(w, r)
    BY <1>4
  <2>2. /\ worker'[w].job = r /\ r \notin Products
        /\ \A v \in Workers \ {w} : worker'[v] = worker[v]
        /\ exposed' = exposed \cup {p \in Products : \E v \in Workers : worker[v].job = p}
    BY <1>1, <1>2, <2>1, ReindexFacts DEF TakeReindex, Moved
  <2> QED
    BY <2>2 DEF Overlaps
<1>5. CASE exposed \subseteq exposed' /\ worker'[w].job \in {worker[w].job, Absent}
  BY <1>1, <1>2, <1>5 DEF Overlaps, Moved
<1> QED
  BY <1>3, <1>4, <1>5, JobFacts

(* A job that is at no product and leaves the live index alone. *)
LEMMA UpToDateKept ==
    ASSUME UpToDate, Undisturbed, ~raced, UNCHANGED catalog, NEW w \in Workers, Moved(w),
           \A p \in Products : Settled(p)' => Settled(p),
           worker[w].job \notin Products, worker'[w].job \notin Products,
           alias'["live"] = alias["live"],
           \A i \in alias["live"], p \in Products : docs'[i][p] = docs[i][p]
    PROVE  UpToDate'
<1> SUFFICES ASSUME NEW p \in Products, NEW i \in alias["live"], Settled(p)'
             PROVE  /\ (\A v \in Workers : worker'[v].job # p) => docs'[i][p] = catalog'[p]
                    /\ \A v \in Workers : worker'[v].job = p =>
                           /\ worker'[v].pc = "read" => docs'[i][p] = Absent
                           /\ worker'[v].pc = "write" => worker'[v].seen = catalog'[p]
  BY DEF UpToDate
<1>1. /\ (\A v \in Workers : worker[v].job # p) => docs[i][p] = catalog[p]
      /\ \A v \in Workers : worker[v].job = p =>
             /\ worker[v].pc = "read" => docs[i][p] = Absent
             /\ worker[v].pc = "write" => worker[v].seen = catalog[p]
  BY DEF UpToDate
<1> QED
  BY <1>1 DEF Moved

(* What is undisturbed, or without a race, after a step was so before it.  *)
LEMMA UndisturbedBefore ==
    Typed /\ [Next]_vars => (Undisturbed' => Undisturbed) /\ (~raced' => ~raced)
BY NotesGrow DEF Undisturbed

(* The steps of an update that has the product to itself. *)
LEMMA UpdateUpToDate ==
    ASSUME OneInv, Overlaps, UpToDate, Undisturbed, ~raced,
           NEW w \in Workers, Update(w)
    PROVE  UpToDate'
<1>1. Typed /\ Moved(w) /\ UNCHANGED catalog
  BY JobFacts DEF OneInv, LifeInv, Step
<1>2. UNCHANGED alias /\ \A i, j \in alias["live"] : i = j
  BY UpdateLives DEF OneInv, Single
<1>3. alias["live"] \subseteq Index
  BY <1>1, NamesDiffer DEF Typed
<1> SUFFICES ASSUME NEW p \in Products, NEW i \in alias["live"], Settled(p)'
             PROVE  /\ (\A v \in Workers : worker'[v].job # p) => docs'[i][p] = catalog[p]
                    /\ \A v \in Workers : worker'[v].job = p =>
                           /\ worker'[v].pc = "read" => docs'[i][p] = Absent
                           /\ worker'[v].pc = "write" => worker'[v].seen = catalog[p]
  BY <1>1, <1>2 DEF UpToDate
<1>4. Settled(p) =>
          /\ (\A v \in Workers : worker[v].job # p) => docs[i][p] = catalog[p]
          /\ \A v \in Workers : worker[v].job = p =>
                 /\ worker[v].pc = "read" => docs[i][p] = Absent
                 /\ worker[v].pc = "write" => worker[v].seen = catalog[p]
  BY DEF UpToDate
<1>5. CASE \E q \in Products : TakeUpdate(w, q)
  <2>1. PICK q \in Products : TakeUpdate(w, q)
    BY <1>5
  <2>2. /\ worker[w].job = Absent /\ worker'[w].job = q /\ worker'[w].pc = "clear"
        /\ UNCHANGED docs /\ updates' = updates \ {q} /\ missed \subseteq missed' \cup {q}
        /\ exposed' = IF Reindexing # {} \/ \E v \in Workers : worker[v].job = q
                      THEN exposed \cup {q} ELSE exposed \ {q}
    BY <1>1, <2>1, UpdateFacts DEF TakeUpdate, Typed, Fits
  <2>3. CASE p = q
    <3>1. \A v \in Workers : worker[v].job # q
      BY <2>2, <2>3 DEF Settled
    <3> QED
      BY <1>1, <2>2, <2>3, <3>1 DEF Moved
  <2>4. CASE p # q
    <3>1. Settled(p)
      BY <2>2, <2>4 DEF Settled
    <3>2. Absent # p
      BY ConstantsAssumption DEF Absent
    <3> QED
      BY <1>1, <1>4, <2>2, <2>4, <3>1, <3>2 DEF Moved
  <2> QED
    BY <2>3, <2>4
<1>6. CASE ClearProduct(w) \/ ReadProduct(w) \/ WriteProduct(w)
  <2>1. PICK q \in Products : q = worker[w].job
    BY <1>1, <1>6, UpdateFacts
  <2>2. Settled(p)
    BY <1>6 DEF ClearProduct, ReadProduct, WriteProduct, Settled
  <2>3. alias["live"] = {i}
    BY <1>2
  <2>4. CASE p # q
    <3>1. docs'[i][p] = docs[i][p]
      <4>1. CASE ClearProduct(w)
        BY <1>1, <1>3, <2>1, <2>4, <4>1, RemoveFacts DEF ClearProduct
      <4>2. CASE WriteProduct(w)
        <5>1. worker[w].seen \in Version
          BY <1>1, <4>2, UpdateFacts
        <5> QED
          BY <1>1, <1>3, <2>1, <2>4, <4>2, <5>1, UpsertFacts, NamesDiffer DEF WriteProduct
      <4> QED
        BY <1>6, <4>1, <4>2 DEF ReadProduct
    <3>2. worker'[w].job # p
      <4>1. worker'[w].job \in {q, Absent}
        BY <1>1, <1>6, <2>1, UpdateFacts DEF Onward, Rests
      <4> QED
        BY <2>4, <4>1, ConstantsAssumption DEF Absent
    <3> QED
      BY <1>1, <1>4, <2>1, <2>2, <2>4, <3>1, <3>2 DEF Moved
  <2>5. CASE p = q
    <3>1. \A v \in Workers \ {w} : worker[v].job # q
      BY <2>1, <2>2, <2>5 DEF Overlaps, Settled
    <3>2. /\ worker[w].pc = "read" => docs[i][p] = Absent
          /\ worker[w].pc = "write" => worker[w].seen = catalog[p]
      BY <1>4, <2>1, <2>2, <2>5
    <3>3. CASE ClearProduct(w)
      <4>1. docs'[i][p] = Absent
        BY <1>1, <1>3, <2>1, <2>3, <2>5, <3>3, RemoveFacts DEF ClearProduct
      <4>2. worker'[w].pc = "read" /\ worker'[w].job = q
        BY <1>1, <2>1, <3>3, UpdateFacts DEF Onward
      <4> QED
        BY <1>1, <2>5, <3>1, <4>1, <4>2 DEF Moved
    <3>4. CASE ReadProduct(w)
      <4>1. UNCHANGED docs /\ worker[w].pc = "read"
        BY <3>4 DEF ReadProduct
      <4>2. CASE catalog[q] = Absent
        <5>1. Rests(w, "idle")
          BY <1>1, <2>1, <3>4, <4>2, UpdateFacts
        <5> QED
          BY <1>1, <2>5, <3>1, <3>2, <4>1, <4>2, <5>1, ConstantsAssumption DEF Moved, Rests, Absent
      <4>3. CASE catalog[q] # Absent
        <5>1. worker'[w].pc = "write" /\ worker'[w].job = q /\ worker'[w].seen = catalog[q]
          BY <1>1, <2>1, <3>4, <4>3, UpdateFacts
        <5> QED
          BY <1>1, <2>5, <3>1, <5>1 DEF Moved
      <4> QED
        BY <4>2, <4>3
    <3>5. CASE WriteProduct(w)
      <4>1. worker[w].pc = "write" /\ worker[w].seen \in Version
        BY <1>1, <3>5, UpdateFacts DEF WriteProduct
      <4>2. docs'[i][p] = worker[w].seen
        BY <1>1, <1>3, <2>1, <2>3, <2>5, <3>5, <4>1, UpsertFacts, NamesDiffer DEF WriteProduct
      <4>3. Rests(w, "idle")
        BY <1>1, <3>5, UpdateFacts
      <4> QED
        BY <1>1, <2>5, <3>1, <3>2, <4>1, <4>2, <4>3, ConstantsAssumption DEF Moved, Rests, Absent
    <3> QED
      BY <1>6, <3>3, <3>4, <3>5
  <2> QED
    BY <2>4, <2>5
<1> QED
  BY <1>5, <1>6 DEF Update

(* While a reindex is at work, no product ceases to be one it missed.      *)
LEMMA MissedStays ==
    ASSUME Typed, NEW w \in Workers, Step(w), Reindexing # {}
    PROVE  missed \subseteq missed'
<1>1. CASE \E q \in Products : TakeUpdate(w, q)
  BY <1>1 DEF TakeUpdate
<1>2. CASE \E r \in Reindexes : TakeReindex(w, r)
  BY <1>2 DEF TakeReindex
<1> QED
  BY <1>1, <1>2, JobFacts

(* The other steps of a process: the live index is left alone, or another  *)
(* one becomes live that is filled.                                        *)
LEMMA OtherUpToDate ==
    ASSUME OneInv, Filling, Overlaps, UpToDate, Undisturbed, ~raced, NEW w \in Workers,
           Boot(w) \/ JobFails(w) \/ Reindex(w) \/ Switch(w) \/ Crash(w),
           "boot" \notin faults', faults \subseteq faults'
    PROVE  UpToDate'
<1>1. Typed /\ LifeInv /\ Moved(w) /\ UNCHANGED catalog /\ Step(w)
  BY JobFacts DEF OneInv, LifeInv, Step
<1>2. Absent \notin Products /\ \A r \in Reindexes : r \notin Products
  BY ConstantsAssumption DEF Absent
<1>3. alias["live"] \subseteq Index
  BY <1>1, NamesDiffer DEF Typed
<1>4. CASE Crash(w) \/ JobFails(w)
  <2>1. /\ UNCHANGED <<docs, alias>>
        /\ \A p \in Products : Settled(p)' => Settled(p) /\ worker[w].job # p
    BY <1>4 DEF Crash, JobFails, Interrupted, Settled
  <2>2. worker'[w].job = Absent
    BY <1>1, <1>4, BootFacts DEF Rests
  <2> QED
    BY <1>1, <1>2, <2>1, <2>2 DEF UpToDate, Moved
<1>5. CASE Boot(w) /\ ~PutAlias(w)
  <2>1. /\ UNCHANGED <<docs, alias, updates, exposed, missed>>
        /\ worker[w].pc \in {"down", "check", "create", "alias", "probe"}
    BY <1>5 DEF Boot, Start, StartDeaf, CheckIndex, CreateIndex, CreateFails, ProbeIndex
  <2>2. worker[w].job = Absent /\ worker'[w].job \in {worker[w].job, Absent}
    <3>1. ~(\E p \in Products : TakeUpdate(w, p)) /\ ~(\E r \in Reindexes : TakeReindex(w, r))
      BY <2>1 DEF TakeUpdate, TakeReindex
    <3>2. worker[w].job = Absent
      BY <1>1, <2>1 DEF Typed, Fits
    <3> QED
      BY <1>1, <3>1, <3>2, JobFacts
  <2>3. \A p \in Products : Settled(p)' => Settled(p)
    BY <2>1 DEF Settled
  <2> QED
    BY <1>1, <1>2, <2>1, <2>2, <2>3, UpToDateKept
<1>6. CASE PutAlias(w)
  <2>1. alias["live"] = {} /\ updates' = updates
    BY <1>6 DEF PutAlias, OneInv, Single
  <2>2. updates' = Products
    BY <2>1 DEF OneInv, Booted, Undisturbed
  <2> QED
    BY <2>2 DEF UpToDate, Settled
<1>7. CASE \E r \in Reindexes : TakeReindex(w, r)
  <2>1. PICK r \in Reindexes : TakeReindex(w, r)
    BY <1>7
  <2>2. /\ worker[w].job = Absent /\ worker'[w].job = r
        /\ UNCHANGED <<docs, alias, updates, missed>> /\ exposed \subseteq exposed'
    BY <1>1, <2>1, ReindexFacts DEF TakeReindex, Typed, Fits
  <2>3. \A p \in Products : Settled(p)' => Settled(p)
    BY <2>2 DEF Settled
  <2> QED
    BY <1>1, <1>2, <2>2, <2>3, UpToDateKept
<1>8. CASE Reindex(w) /\ ~\E r \in Reindexes : TakeReindex(w, r)
  <2>1. worker[w].job \in Reindexes
    BY <1>1, <1>8, ReindexFacts DEF Reindex
  <2>2. ~\E p \in Products : TakeUpdate(w, p)
    <3>1. worker[w].pc # "idle"
      BY <1>1, <2>1, ConstantsAssumption DEF Typed, Fits, Absent
    <3> QED
      BY <3>1 DEF TakeUpdate
  <2>3. worker'[w].job \in {worker[w].job, Absent}
    BY <1>1, <1>8, <2>2, JobFacts
  <2>4. alias'["live"] = alias["live"] /\ \A p \in Products : Settled(p)' => Settled(p)
    BY <1>1, <1>8, <2>2, ReindexLives, Settling
  <2>5. ASSUME NEW i \in alias["live"], NEW p \in Products PROVE docs'[i][p] = docs[i][p]
    <3>1. i \notin alias[worker[w].job] \cup {<<"plain", worker[w].job>>}
      BY <2>1, <2>5, NamesDiffer DEF OneInv, LifeInv, Names, NewIsUnused, Used
    <3>2. ~Update(w) /\ ~Switch(w)
      <4>1. worker[w].pc \in {"newIndex", "newAlias", "page", "fetch", "copy"}
        BY <1>8 DEF Reindex, CreateNewIndex, PutNewAlias, CreateNewFails, ReadPage, PageDone,
                    CopyProduct, FetchProduct
      <4> QED
        BY <4>1 DEF Update, TakeUpdate, ClearProduct, ReadProduct, WriteProduct,
                    Switch, LookAtLive, NameLive, DeletePlain, SwitchAlias, SwitchRefused, SwitchFails,
                    DropOld, DropNew
    <3> QED
      BY <1>1, <1>3, <3>1, <3>2, DocsChange
  <2> QED
    BY <1>1, <1>2, <2>1, <2>3, <2>4, <2>5, UpToDateKept
<1>9. CASE Switch(w)
  <2>1. worker[w].job \in Reindexes
    BY <1>1, <1>9, SwitchFacts
  <2>2. worker[w].pc \in {"look", "name", "unplain", "swap", "drop", "finally"}
    BY <1>9 DEF Switch, LookAtLive, NameLive, DeletePlain, SwitchAlias, SwitchRefused, SwitchFails,
                DropOld, DropNew
  <2>3. worker'[w].job \in {worker[w].job, Absent} /\ ~\E p \in Products : TakeUpdate(w, p)
    <3>1. ~(\E p \in Products : TakeUpdate(w, p)) /\ ~(\E r \in Reindexes : TakeReindex(w, r))
      BY <2>2 DEF TakeUpdate, TakeReindex
    <3> QED
      BY <1>1, <3>1, JobFacts
  <2>4. \A p \in Products : Settled(p)' => Settled(p)
    BY <1>1, <2>3, Settling
  <2>5. CASE SwitchAlias(w)
    <3>1. worker[w].pc = "swap" /\ worker[w].found = "alias"
      BY <1>9, <2>5, SwitchBooted DEF SwitchAlias
    <3>2. worker[w].from = alias["live"]
      BY <3>1 DEF OneInv, Single
    <3>3. PICK r \in Reindexes :
              /\ r = worker[w].job /\ alias[r] = {New(r)} /\ UNCHANGED docs
              /\ alias'["live"] = (alias["live"] \ worker[w].from) \cup {New(r)}
      BY <1>1, <2>5, <3>1, SwitchMoves
    <3>4. alias'["live"] = {New(r)}
      BY <3>2, <3>3
    <3>5. ASSUME NEW p \in Products, Settled(p)
          PROVE  docs[New(r)][p] = catalog[p] /\ \A v \in Workers : worker[v].job # p
      <4>1. Filled(worker[w])
        BY DEF Filling
      <4>2. Reached(worker[w], p)
        BY <3>1, <3>3, <4>1 DEF Filled, Fillers
      <4>3. docs[New(r)][p] = catalog[p]
        BY <3>1, <3>3, <3>5, <4>2 DEF Reached, Ahead
      <4>4. \A v \in Workers : worker[v].job # p
        BY <2>1, <3>5 DEF Overlaps, Settled
      <4> QED
        BY <4>3, <4>4
    <3>6. \A p \in Products, v \in Workers : worker'[v].job = p => worker[v].job = p
      BY <1>1, <1>2, <2>1, <2>3 DEF Moved
    <3> QED
      BY <1>1, <2>4, <3>3, <3>4, <3>5, <3>6 DEF UpToDate
  <2>6. CASE ~SwitchAlias(w)
    <3>1. alias'["live"] = alias["live"]
      BY <1>1, <2>2, <2>6, LiveStays DEF PutAlias
    <3>2. ASSUME NEW i \in alias["live"], NEW p \in Products PROVE docs'[i][p] = docs[i][p]
      <4>1. ~Update(w) /\ ~CopyProduct(w)
        BY <2>2 DEF Update, TakeUpdate, ClearProduct, ReadProduct, WriteProduct, CopyProduct
      <4> QED
        BY <1>1, <1>3, <4>1, DocsChange
    <3> QED
      BY <1>1, <1>2, <2>1, <2>3, <2>4, <3>1, <3>2, UpToDateKept
  <2> QED
    BY <2>5, <2>6
<1> QED
  BY <1>4, <1>5, <1>6, <1>7, <1>8, <1>9 DEF Boot

-----------------------------------------------------------------------------
(* The new index fills *)

(* There are finitely many products. *)
LEMMA PresentIsFinite == Cardinality(Present) \in Nat
<1>1. IsFiniteSet(Present)
  BY FS_Subset, ConstantsAssumption DEF Present
<1> QED
  BY <1>1, FS_CardinalityType

(* A page that is not full is the last one. *)
LEMMA LastPage ==
    ASSUME NEW skip \in Nat, NEW page \in Pages(skip), ~(Cardinality(page) >= PageSize)
    PROVE  ~(skip + PageSize < Cardinality(Present))
<1> DEFINE all == Cardinality(Present)
<1>1. all \in Nat /\ PageSize \in Nat
  BY PresentIsFinite, ConstantsAssumption
<1>2. Cardinality(page) = IF all - skip < 0 THEN 0
                          ELSE IF all - skip < PageSize THEN all - skip ELSE PageSize
  BY DEF Pages
<1> HIDE DEF all
<1>3. ~(skip + PageSize < all)
  BY <1>1, <1>2
<1> QED
  BY <1>3 DEF all

(* The steps of another process leave the index of a reindex alone, and    *)
(* settle nothing while that is at work.                                   *)
LEMMA FilledByOthers ==
    ASSUME OneInv, Filling, Undisturbed, NEW w \in Workers, Step(w), NEW v \in Workers \ {w}
    PROVE  Filled(worker[v])'
<1>1. Typed /\ LifeInv /\ UNCHANGED catalog /\ worker'[v] = worker[v]
  BY JobFacts DEF OneInv, LifeInv, Moved
<1>2. CASE worker[v].job \notin Reindexes
  BY <1>1, <1>2 DEF Typed, Fits, Reindexers, Fillers, Filled
<1>3. CASE worker[v].job \in Reindexes
  <2> SUFFICES ASSUME worker[v].pc \in Fillers, alias'[worker[v].job] # {}, NEW p \in Products
               PROVE  Reached(worker[v], p)'
    BY <1>1 DEF Filled
  <2>1. PICK r \in Reindexes : r = worker[v].job
    BY <1>3
  <2>2. r # worker[w].job
    BY <1>1, <2>1 DEF LifeInv, Taken
  <2>3. alias[r] # {} /\ docs'[New(r)][p] = docs[New(r)][p]
    BY <1>1, <2>1, <2>2, OwnIndex
  <2>4. Reindexing # {}
    BY <1>3 DEF Reindexing
  <2>5. (Settled(p)' => Settled(p)) /\ missed \subseteq missed'
    BY <1>1, <2>4, Settling, MissedStays
  <2>6. Reached(worker[v], p)
    BY <2>1, <2>3 DEF Filling, Filled
  <2>7. Ahead(worker[v], p)' <=> Ahead(worker[v], p)
    BY <1>1 DEF Ahead
  <2> QED
    BY <1>1, <2>1, <2>3, <2>5, <2>6, <2>7 DEF Reached
<1> QED
  BY <1>2, <1>3

(* A change of a product makes a job for it, or is announced to nobody;    *)
(* either way nothing is asked of the version that is indexed.             *)
LEMMA ShopFilling ==
    ASSUME Typed, Filling, UpToDate, NEW w \in Workers, NEW q \in Products,
           EditProduct(w, q) \/ DeleteProduct(w, q)
    PROVE  Filling' /\ UpToDate'
<1>1. /\ UNCHANGED <<exists, docs, alias, worker, faults, missed, raced>>
      /\ q \in updates' \cup exposed' /\ updates \subseteq updates' /\ exposed \subseteq exposed'
  BY DEF EditProduct, DeleteProduct, Announce
<1>2. catalog[q] # Absent /\ \A p \in Products \ {q} : catalog'[p] = catalog[p]
  BY ConstantsAssumption DEF EditProduct, DeleteProduct, Typed, Absent
<1>3. \A p \in Products : /\ Settled(p)' => Settled(p) /\ catalog'[p] = catalog[p]
                          /\ catalog'[p] # Absent => catalog[p] # Absent
  BY <1>1, <1>2 DEF Settled
<1>4. Undisturbed' = Undisturbed
  BY <1>1 DEF Undisturbed
<1>5. ASSUME Undisturbed, NEW v \in Workers PROVE Filled(worker[v])'
  <2> SUFFICES ASSUME worker[v].pc \in Fillers, alias[worker[v].job] # {}, NEW p \in Products
               PROVE  Reached(worker[v], p)'
    BY <1>1 DEF Filled
  <2>1. Reached(worker[v], p)
    BY <1>5 DEF Filling, Filled
  <2>2. Ahead(worker[v], p)' <=> Ahead(worker[v], p)
    BY <1>1 DEF Ahead
  <2> QED
    BY <1>1, <1>3, <2>1, <2>2 DEF Reached
<1>6. UpToDate'
  BY <1>1, <1>3, <1>4 DEF UpToDate
<1> QED
  BY <1>4, <1>5, <1>6 DEF Filling

(* A reindex comes to every product of the catalog, or knows which it has  *)
(* missed.                                                                 *)
LEMMA ReindexFilling ==
    ASSUME OneInv, Fresh, Filling, Undisturbed, NEW w \in Workers, Reindex(w)
    PROVE  Filled(worker[w])'
<1>1. Typed /\ Moved(w) /\ UNCHANGED catalog
  BY JobFacts DEF OneInv, LifeInv, Step
<1>2. CASE (\E r \in Reindexes : TakeReindex(w, r)) \/ CreateNewIndex(w)
  <2>1. worker'[w].pc \in {"newIndex", "newAlias"}
    BY <1>1, <1>2, ReindexFacts DEF Onward
  <2> QED
    BY <2>1 DEF Filled, Fillers
<1>3. ASSUME \/ PutNewAlias(w) \/ CreateNewFails(w) \/ ReadPage(w) \/ PageDone(w) \/ CopyProduct(w)
             \/ \E p \in Products : FetchProduct(w, p)
      PROVE  worker[w].job \in Reindexes /\ worker'[w].job = worker[w].job
  <2>1. CASE PutNewAlias(w) \/ CreateNewFails(w) \/ PageDone(w) \/ CopyProduct(w)
    BY <1>1, <2>1, ReindexFacts DEF Onward
  <2>2. CASE ReadPage(w) \/ \E p \in Products : FetchProduct(w, p)
    BY <1>1, <2>2, ReindexFacts
  <2> QED
    BY <1>3, <2>1, <2>2
<1>4. CASE PutNewAlias(w) \/ CreateNewFails(w)
  <2>1. PICK r \in Reindexes : r = worker[w].job /\ worker'[w].job = r
    BY <1>3, <1>4
  <2>2. UNCHANGED <<docs, missed>> /\ worker[w].pc \in {"newIndex", "newAlias"}
    BY <1>4 DEF PutNewAlias, CreateNewFails
  <2>3. Onward(w, "page") /\ worker[w].more
    BY <1>1, <1>4, ReindexFacts
  <2>4. worker[w].read = {}
    BY <2>2 DEF OneInv, LifeInv, Typed, Fits
  <2>5. worker'[w].pc = "page" /\ worker'[w].more /\ worker'[w].read = {}
    BY <2>3, <2>4 DEF Onward
  <2>6. Blank(New(r))
    BY <2>1, <2>2 DEF Fresh
  <2>7. ASSUME NEW p \in Products PROVE Reached(worker[w], p)'
    <3>1. Ahead(worker[w], p)'
      BY <2>5 DEF Ahead
    <3> QED
      BY <1>1, <2>1, <2>2, <2>5, <2>6, <3>1 DEF Blank, Reached
  <2> QED
    BY <2>7 DEF Filled
<1>5. CASE \/ ReadPage(w) \/ PageDone(w) \/ CopyProduct(w)
           \/ \E p \in Products : FetchProduct(w, p)
  <2>1. PICK r \in Reindexes : r = worker[w].job /\ worker'[w].job = r
    BY <1>3, <1>5
  <2>2. /\ worker[w].pc \in {"page", "fetch", "copy"} /\ worker[w].pc \in Fillers
        /\ UNCHANGED alias
    BY <1>5 DEF ReadPage, PageDone, CopyProduct, FetchProduct, Fillers
  <2> SUFFICES ASSUME alias[r] # {}, NEW p \in Products PROVE Reached(worker[w], p)'
    BY <2>1, <2>2 DEF Filled
  <2>3. Reached(worker[w], p)
    BY <2>1, <2>2 DEF Filling, Filled
  <2>4. (Settled(p)' => Settled(p)) /\ missed \subseteq missed'
    <3>1. Reindexing # {} /\ Step(w)
      BY <2>1 DEF Reindexing, Step
    <3> QED
      BY <1>1, <3>1, Settling, MissedStays
  <2>5. CASE ReadPage(w)
    <3>1. PICK skip \in Nat : skip = worker[w].skip
      BY <1>1 DEF Typed, Worker
    <3>2. PICK page : page = worker'[w].page
      OBVIOUS
    <3>3. /\ worker'[w].pc = "fetch" /\ page \in Pages(skip)
          /\ worker'[w].read = worker[w].read \cup page
          /\ worker'[w].more = (Cardinality(page) >= PageSize)
          /\ missed' = IF skip + PageSize < Cardinality(Present)
                       THEN missed ELSE missed \cup (Present \ worker'[w].read)
          /\ worker[w].page = {}
      BY <1>1, <2>5, <3>1, <3>2, ReindexFacts
    <3>4. UNCHANGED docs /\ worker[w].pc = "page"
      BY <2>5 DEF ReadPage
    <3>5. ASSUME catalog[p] # Absent, Ahead(worker[w], p) PROVE Ahead(worker[w], p)' \/ p \in missed'
      <4>1. p \notin worker[w].read
        BY <3>3, <3>4, <3>5 DEF Ahead
      <4>2. CASE p \in page
        BY <3>2, <3>3, <4>2 DEF Ahead
      <4>3. CASE p \notin page /\ Cardinality(page) >= PageSize
        BY <3>3, <4>1, <4>3 DEF Ahead
      <4>4. CASE p \notin page /\ ~(Cardinality(page) >= PageSize)
        <5>1. ~(skip + PageSize < Cardinality(Present))
          BY <3>3, <4>4, LastPage
        <5> QED
          BY <3>3, <3>5, <4>1, <4>4, <5>1 DEF Present
      <4> QED
        BY <4>2, <4>3, <4>4
    <3>6. Settled(p)' => p \notin missed'
      BY DEF Settled
    <3> QED
      BY <1>1, <2>1, <2>3, <2>4, <3>3, <3>4, <3>5, <3>6 DEF Reached
  <2>6. CASE PageDone(w)
    <3>1. /\ UNCHANGED docs /\ worker[w].pc = "fetch" /\ worker[w].page = {}
          /\ Onward(w, IF worker[w].more THEN "page" ELSE "look")
      BY <1>1, <2>6, ReindexFacts DEF PageDone
    <3>2. /\ worker'[w].more = worker[w].more /\ worker'[w].read = worker[w].read
          /\ worker'[w].pc = IF worker[w].more THEN "page" ELSE "look"
      BY <3>1 DEF Onward
    <3>3. Ahead(worker[w], p) => Ahead(worker[w], p)'
      BY <3>1, <3>2 DEF Ahead
    <3> QED
      BY <1>1, <2>1, <2>3, <2>4, <3>1, <3>2, <3>3 DEF Reached
  <2>7. ASSUME NEW q \in Products, FetchProduct(w, q) PROVE Reached(worker[w], p)'
    <3>1. UNCHANGED docs /\ worker[w].pc = "fetch"
      BY <2>7 DEF FetchProduct
    <3>2. /\ worker'[w].page = worker[w].page \ {q}
          /\ worker'[w].read = worker[w].read /\ worker'[w].more = worker[w].more
          /\ \/ catalog[q] = Absent /\ worker'[w].pc = "fetch"
             \/ /\ catalog[q] # Absent /\ worker'[w].pc = "copy"
                /\ worker'[w].item = q /\ worker'[w].seen = catalog[q]
      BY <1>1, <2>7, ReindexFacts
    <3>3. catalog[p] # Absent /\ Ahead(worker[w], p) => Ahead(worker[w], p)'
      BY <3>1, <3>2 DEF Ahead
    <3> QED
      BY <1>1, <2>1, <2>3, <2>4, <3>1, <3>2, <3>3 DEF Reached
  <2>8. CASE CopyProduct(w)
    <3>1. /\ worker[w].pc = "copy" /\ worker'[w].pc = "fetch" /\ worker'[w].page = worker[w].page
          /\ worker'[w].read = worker[w].read /\ worker'[w].more = worker[w].more
          /\ worker[w].item \in Products /\ worker[w].seen \in Version /\ worker[w].seen # Absent
      BY <1>1, <2>8, ReindexFacts DEF CopyProduct, Onward
    <3>2. alias[r] = {New(r)} /\ New(r) \in Index /\ r \in Alias
      BY NamesDiffer DEF OneInv, LifeInv, Names
    <3>3. /\ docs'[New(r)][worker[w].item] = worker[w].seen
          /\ p # worker[w].item => docs'[New(r)][p] = docs[New(r)][p]
      BY <1>1, <2>1, <2>8, <3>1, <3>2, UpsertFacts DEF CopyProduct
    <3>4. CASE p = worker[w].item
      BY <1>1, <2>1, <2>3, <2>4, <3>1, <3>3, <3>4 DEF Reached
    <3>5. CASE p # worker[w].item
      <4>1. Ahead(worker[w], p) => Ahead(worker[w], p)'
        BY <3>1, <3>5 DEF Ahead
      <4> QED
        BY <1>1, <2>1, <2>3, <2>4, <3>1, <3>3, <3>5, <4>1 DEF Reached
    <3> QED
      BY <3>4, <3>5
  <2> QED
    BY <1>5, <2>5, <2>6, <2>7, <2>8
<1> QED
  BY <1>2, <1>4, <1>5 DEF Reindex

(* The reindex that moves the alias has filled its index, and keeps it     *)
(* filled until it is done.                                                *)
LEMMA SwitchFilling ==
    ASSUME OneInv, Filling, Undisturbed, NEW w \in Workers, Switch(w), "boot" \notin faults',
           faults \subseteq faults'
    PROVE  Filled(worker[w])'
<1>1. /\ Typed /\ Moved(w) /\ UNCHANGED catalog /\ ~DeletePlain(w)
      /\ NameLive(w) => worker'[w].pc = "swap"
  BY JobFacts, SwitchBooted DEF OneInv, LifeInv, Step
<1>2. PICK r \in Reindexes : r = worker[w].job
  BY <1>1, SwitchFacts
<1>3. CASE worker'[w].pc \notin Fillers
  BY <1>3 DEF Filled
<1>4. CASE worker'[w].pc \in Fillers
  <2>1. LookAtLive(w) \/ NameLive(w)
    <3>1. ~SwitchAlias(w) /\ ~SwitchRefused(w) /\ ~SwitchFails(w)
      BY <1>1, <1>4, SwitchFacts DEF Onward, Fillers
    <3>2. ~DropOld(w) /\ ~DropNew(w)
      BY <1>1, <1>4, SwitchFacts DEF Rests, Fillers
    <3> QED
      BY <1>1, <3>1, <3>2 DEF Switch
  <2>2. /\ UNCHANGED <<docs, alias, updates, exposed, missed>>
        /\ worker[w].pc \in {"look", "name"} /\ worker[w].pc \in Fillers
    BY <2>1 DEF LookAtLive, NameLive, Fillers
  <2>3. worker'[w].job = r /\ worker'[w].pc \in {"name", "swap"}
    <3>1. CASE LookAtLive(w)
      <4>1. alias[r] # {}
        BY <1>1, <1>2, <1>4, <3>1, SwitchFacts DEF Rests, Fillers
      <4> QED
        BY <1>1, <1>2, <3>1, <4>1, SwitchFacts
    <3>2. CASE NameLive(w)
      BY <1>1, <1>2, <3>2, SwitchFacts
    <3> QED
      BY <2>1, <3>1, <3>2
  <2> SUFFICES ASSUME alias[r] # {}, NEW p \in Products PROVE Reached(worker[w], p)'
    BY <2>2, <2>3 DEF Filled
  <2>4. Reached(worker[w], p)
    BY <1>2, <2>2 DEF Filling, Filled
  <2>5. ~Ahead(worker[w], p)
    BY <2>2 DEF Ahead
  <2>6. Settled(p)' <=> Settled(p)
    BY <2>2 DEF Settled
  <2> QED
    BY <1>1, <1>2, <2>2, <2>3, <2>4, <2>5, <2>6 DEF Reached
<1> QED
  BY <1>3, <1>4

(* Every step of a process keeps the new indices filled. *)
LEMMA FillingStep ==
    ASSUME OneInv, Fresh, Filling, Undisturbed, NEW w \in Workers, Step(w), ~BulkFails(w),
           "boot" \notin faults', faults \subseteq faults'
    PROVE  Filling'
<1>1. Typed
  BY DEF OneInv, LifeInv
<1>2. CASE Boot(w) \/ JobFails(w) \/ Crash(w)
  <2>1. \E pc \in {"check", "create", "probe", "alias", "idle", "down"} : Rests(w, pc)
    BY <1>1, <1>2, BootFacts DEF Boot
  <2>2. worker'[w].pc \notin Fillers
    BY <2>1 DEF Rests, Fillers
  <2>3. Filled(worker[w])'
    BY <2>2 DEF Filled
  <2> QED
    BY <2>3, FilledByOthers DEF Filling
<1>3. CASE Update(w)
  <2>1. worker'[w].pc \notin Fillers
    BY <1>1, <1>3, UpdateMoves DEF Fillers
  <2>2. Filled(worker[w])'
    BY <2>1 DEF Filled
  <2> QED
    BY <2>2, FilledByOthers DEF Filling
<1>4. CASE Reindex(w) \/ Switch(w)
  <2>1. Filled(worker[w])'
    BY <1>4, ReindexFilling, SwitchFilling
  <2> QED
    BY <2>1, FilledByOthers DEF Filling
<1> QED
  BY <1>2, <1>3, <1>4 DEF Step

(* The invariant holds at the start.                                       *)
LEMMA DocsInit == Init => DocsInv
<1> SUFFICES ASSUME Init PROVE DocsInv
  OBVIOUS
<1>1. OneInv /\ Absent \notin Products \cup Reindexes
  BY OneInit, ConstantsAssumption DEF Absent
<1>2. /\ updates = Products /\ docs = [i \in Index |-> Empty]
      /\ \A w \in Workers : worker[w].pc = "down" /\ worker[w].job = Absent
  BY AtFacts DEF Init, PCs
<1>3. Fresh
  BY <1>2, NamesDiffer, EmptyFacts DEF Fresh, Blank
<1>4. Filling
  BY <1>2 DEF Filling, Filled, Fillers
<1>5. Overlaps
  BY <1>1, <1>2 DEF Overlaps
<1>6. UpToDate
  BY <1>2 DEF UpToDate, Settled
<1> QED
  BY <1>1, <1>3, <1>4, <1>5, <1>6 DEF DocsInv

(* Every step keeps it, however many processes start and reindex.          *)
LEMMA DocsStep == DocsInv /\ [Next]_vars => DocsInv'
<1> SUFFICES ASSUME DocsInv, [Next]_vars PROVE DocsInv'
  OBVIOUS
<1>1. OneInv /\ OneInv' /\ Typed /\ Typed' /\ LifeInv /\ faults \subseteq faults'
  BY OneStep, NotesGrow DEF DocsInv, OneInv, LifeInv
<1>2. (Undisturbed' => Undisturbed) /\ (~raced' => ~raced)
  BY <1>1, UndisturbedBefore
<1>3. (~Undisturbed' => Filling') /\ (~(Undisturbed' /\ ~raced') => UpToDate')
  BY DEF Filling, UpToDate
<1>4. CASE UNCHANGED vars
  <2>1. Fresh' /\ Overlaps'
    BY <1>4 DEF vars, DocsInv, Fresh, Blank, Overlaps
  <2>2. Filling'
    BY <1>4 DEF vars, DocsInv, Filling, Undisturbed, Filled, Reached, Ahead, Settled
  <2>3. UpToDate'
    BY <1>4 DEF vars, DocsInv, UpToDate, Undisturbed, Settled
  <2> QED
    BY <1>1, <2>1, <2>2, <2>3 DEF DocsInv
<1>5. ASSUME NEW w \in Workers, Step(w) PROVE DocsInv'
  <2>1. Fresh' /\ Overlaps'
    BY <1>1, <1>5, FreshStep, OverlapsStep DEF DocsInv
  <2>2. Undisturbed' => ~BulkFails(w)
    BY <1>1, FaultFacts DEF BulkFails, Undisturbed, Faults
  <2>3. Undisturbed' => "boot" \notin faults'
    BY DEF Undisturbed
  <2>4. Filling'
    BY <1>1, <1>2, <1>3, <1>5, <2>2, <2>3, FillingStep DEF DocsInv
  <2>5. UpToDate'
    BY <1>1, <1>2, <1>3, <1>5, <2>2, <2>3, UpdateUpToDate, OtherUpToDate DEF DocsInv, Step
  <2> QED
    BY <1>1, <2>1, <2>4, <2>5 DEF DocsInv
<1>6. ASSUME NEW w \in Workers, NEW p \in Products, EditProduct(w, p) \/ DeleteProduct(w, p)
      PROVE  DocsInv'
  <2>1. UNCHANGED <<asked, docs, worker>> /\ exposed \subseteq exposed'
    BY <1>6 DEF EditProduct, DeleteProduct, Announce
  <2>2. Fresh' /\ Overlaps'
    BY <2>1 DEF DocsInv, Fresh, Blank, Overlaps
  <2>3. Filling' /\ UpToDate'
    BY <1>1, <1>6, ShopFilling DEF DocsInv
  <2> QED
    BY <1>1, <2>2, <2>3 DEF DocsInv
<1> QED
  BY <1>4, <1>5, <1>6 DEF Next, Step

(* So it holds in every reachable state.                                   *)
LEMMA DocsInvariant == Spec => []DocsInv
BY DocsInit, DocsStep, PTL DEF Spec

(* The indices of the live name, where it is no plain index. *)
LEMMA LiveTarget == Typed /\ Plain \notin exists => Target("live") = alias["live"]
BY DEF Target, Plain

(* When all jobs are done, the live index has the version of the database  *)
(* of each product that no reindex missed and whose last update overlapped *)
(* no other job, whatever crashes and in whatever order the pages of the   *)
(* catalog come (updateProductsOperations, reindex), unless two processes  *)
(* were about to move the live alias at a time.                            *)
THEOREM LiveIndexMirrorsCatalog == Spec => []MirrorsCatalog
<1>1. DocsInv => MirrorsCatalog
  <2> SUFFICES ASSUME DocsInv, AtRest, Undisturbed, ~raced,
                      NEW p \in Products \ (exposed \cup missed), NEW i \in Target("live")
               PROVE  docs[i][p] = catalog[p]
    BY DEF MirrorsCatalog
  <2>1. i \in alias["live"]
    BY LiveTarget DEF DocsInv, OneInv, LifeInv, Booted, Undisturbed
  <2>2. Settled(p)
    BY DEF AtRest, Settled
  <2>3. \A w \in Workers : worker[w].job # p
    BY ConstantsAssumption DEF DocsInv, OneInv, LifeInv, Typed, Fits, AtRest, Absent
  <2> QED
    BY <2>1, <2>2, <2>3 DEF DocsInv, UpToDate
<1> QED
  BY <1>1, DocsInvariant, PTL

(* A product that is indexed stays so in every step that is not of its own *)
(* job, and across the switch to a new index.                              *)
LEMMA FoundStep ==
    ASSUME DocsInv, [Next]_vars, NEW p \in Products,
           Indexed(p), Quiet(p), Quiet(p)', Undisturbed'
    PROVE  Indexed(p)'
<1>1. Typed /\ Undisturbed /\ OneInv /\ LifeInv
  BY UndisturbedBefore DEF DocsInv, OneInv, LifeInv
<1>2. Plain \notin exists
  BY <1>1 DEF OneInv, Booted, Undisturbed
<1>3. PICK i \in alias["live"] : docs[i][p] # Absent
  BY <1>1, <1>2, LiveTarget DEF Indexed
<1>4. i \in Index
  BY <1>1, NamesDiffer DEF Typed
<1>5. alias'["live"] # {} /\ Target("live")' = alias'["live"]
  BY <1>1, <1>3, LifeStep DEF Target
<1>6. CASE ~\E w \in Workers : Step(w)
  <2>1. UNCHANGED <<docs, alias>>
    BY <1>6 DEF Next, Step, vars, EditProduct, DeleteProduct, Announce
  <2> QED
    BY <1>3, <1>5, <2>1 DEF Indexed
<1>7. ASSUME NEW w \in Workers, Step(w) PROVE Indexed(p)'
  <2>1. CASE SwitchAlias(w)
    <3>1. PICK r \in Reindexes :
              /\ r = worker[w].job /\ alias[r] = {New(r)} /\ UNCHANGED docs
              /\ New(r) \in alias'["live"]
      BY <1>1, <2>1, SwitchMoves
    <3>2. worker[w].pc = "swap"
      BY <2>1 DEF SwitchAlias
    <3>3. Reached(worker[w], p)
      BY <1>1, <3>1, <3>2 DEF DocsInv, Filling, Filled, Fillers
    <3>4. docs[New(r)][p] # Absent
      BY <3>1, <3>2, <3>3 DEF Reached, Ahead, Quiet
    <3> QED
      BY <1>5, <3>1, <3>4 DEF Indexed
  <2>2. CASE ~SwitchAlias(w)
    <3>1. i \in alias'["live"]
      <4>1. CASE PutAlias(w)
        BY <1>1, <1>3, <4>1, NamesDiffer DEF PutAlias, Typed
      <4>2. CASE ~PutAlias(w)
        BY <1>1, <1>3, <1>7, <2>2, <4>2, LiveStays
      <4> QED
        BY <4>1, <4>2
    <3>2. docs'[i][p] = docs[i][p]
      <4>1. ~(Update(w) /\ p = worker[w].job)
        BY DEF Quiet
      <4>2. ~(/\ CopyProduct(w) /\ worker[w].job \in Reindexes
              /\ i \in alias[worker[w].job] \cup {<<"plain", worker[w].job>>})
        BY <1>1, <1>3, NamesDiffer DEF LifeInv, Names, NewIsUnused, Used
      <4> QED
        BY <1>1, <1>3, <1>4, <1>7, <4>1, <4>2, DocsChange
    <3> QED
      BY <1>3, <1>5, <3>1, <3>2 DEF Indexed
  <2> QED
    BY <2>1, <2>2
<1> QED
  BY <1>6, <1>7

(* A reindex never takes a product out of the search: one that is indexed  *)
(* and not missed by its pages stays so in every step of every job that is *)
(* not its own, and across every switch to a new index, however many       *)
(* reindexes run at a time.                                                *)
THEOREM ProductsStayFound == Spec => StaysFound
<1>1. DocsInv /\ [Next]_vars =>
          [\A p \in Products : Indexed(p) /\ Quiet(p) /\ Quiet(p)' /\ Undisturbed' => Indexed(p)']_vars
  BY FoundStep
<1> QED
  BY <1>1, DocsInvariant, PTL DEF Spec, StaysFound
=============================================================================
