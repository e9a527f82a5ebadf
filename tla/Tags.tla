-------------------------------- MODULE Tags -------------------------------
(***************************************************************************)
(* The tags of one member's transactions (src/lib/server/tags/service.ts,  *)
(* tags/bulk.ts).                                                          *)
(*                                                                         *)
(* Every request is made once, and each of its statements is atomic.  A    *)
(* tag is a number, so that a name deleted and typed again is another tag; *)
(* a link is a transaction and a tag.  The colour, the bound on a bulk's   *)
(* transactions, the four attempts of an upsert and the resolves that a    *)
(* failed attempt leaves running are left out.                             *)
(***************************************************************************)
EXTENDS Integers, FiniteSets

CONSTANTS
    Requests,
    Transactions,
    Names,              \* of tags, folded
    NoName,             \* of a tag that is not stored
    OldLinks,           \* at the start, of tags 1, 2 and so on
    Filters,            \* the transactions the filter of a bulk may match
    MaxTags,            \* MAX_TAGS_PER_TRANSACTION
    MaxLinkAttempts,    \* MAX_LINK_ATTEMPTS
    MaxRows             \* tags ever stored (a bound)

(* What the constants are; assumed by Ledger, and by every theorem.        *)
TagConstants ==
    /\ NoName \notin Names /\ IsFiniteSet(Names)
    /\ OldLinks \subseteq Transactions \X (1 .. Cardinality(Names))
    /\ \A t \in Transactions :
          Cardinality({i \in 1 .. Cardinality(Names) : <<t, i>> \in OldLinks}) <= MaxTags
    /\ Filters \subseteq SUBSET Transactions
    /\ MaxTags \in Nat \ {0}
    /\ MaxLinkAttempts \in Nat \ {0}
    /\ MaxRows \in Nat /\ Cardinality(Names) <= MaxRows

Tags == 1 .. MaxRows
Links == Transactions \X Tags

VARIABLES
    present,        \* the stored transactions
    nameOf,         \* of each tag
    made,           \* tags ever stored
    links,
    task, at,       \* of each request
    targets,        \* the transactions it tags
    names,          \* the names it gives them
    selected,       \* names and tags its resolves have found, 0 is none
    resolved,       \* names and tags its resolves have returned
    read,           \* the links it read
    try,            \* its attempts to link
    given,          \* the links it added, for the undo
    \* History.
    unlinked,       \* links it removed
    excused,        \* tags a failure, a rename or a deletion may leave unused
    disturbed       \* requests whose transactions changed while they wrote

tagStore == <<nameOf, made, links>>
progress == <<selected, resolved, read, try>>
history == <<unlinked, excused, disturbed>>
tagVars == <<tagStore, task, at, targets, names, progress, given, history>>
vars == <<present, tagVars>>

-----------------------------------------------------------------------------
Stored == {i \in Tags : nameOf[i] # NoName}
Named(N) == {i \in Stored : nameOf[i] \in N}
TagsIn(L) == {l[2] : l \in L}
Unused == {i \in Stored : \A t \in Transactions : <<t, i>> \notin links}

Chosen(r) == {x[2] : x \in resolved[r]}

(* The difference with the links as they were read.                        *)
Wanted(r) == targets[r] \X Chosen(r)
Added(r) == Wanted(r) \ read[r]
Removed(r) == read[r] \ Wanted(r)

OfTransactions(S) == {l \in links : l[1] \in S}

TagsOf(t) == {i \in Tags : <<t, i>> \in links}

(* A bulk refuses a transaction that has as many tags as it may.           *)
BeyondCap(r) ==                                    \* mutant: > for >=
    \E l \in Added(r) : Cardinality(TagsOf(l[1])) > MaxTags
OverCap(r) == \E l \in Added(r) : Cardinality(TagsOf(l[1])) >= MaxTags

(* The statements of an edit, in order.                                    *)
DeleteFirst(done) ==                               \* mutant: the other order
    CASE done = "read" -> "remove" [] done = "remove" -> "insert" [] OTHER -> "prune"
After(done) ==
    CASE done = "read" -> "insert" [] done = "insert" -> "remove" [] OTHER -> "prune"

Step(r, place) == at' = [at EXCEPT ![r] = place]

Broken == {"failed", "halfway", "unpruned"}
InFlight(r) == at[r] \notin {"idle", "done"} \cup Broken

(* Between reading the links and the last write that rests on them.        *)
Writing(r) == at[r] \in {"count", "insert", "remove"}

Relinks(S) ==
    /\ links' = S
    /\ disturbed' = disturbed \cup
          {q \in Requests : Writing(q) /\ at'[q] = at[q] /\
              \E l \in (links \cup S) \ (links \cap S) : l[1] \in targets[q]}

Excuses(S) == excused' = excused \cup S

-----------------------------------------------------------------------------
OldName == CHOOSE f \in [1 .. Cardinality(Names) -> Names] :
              \A i, j \in DOMAIN f : i # j => f[i] # f[j]

(* At the start every stored tag is used.                                  *)
TagInit ==
    /\ links = OldLinks
    /\ nameOf = [i \in Tags |-> IF i \in TagsIn(OldLinks) THEN OldName[i] ELSE NoName]
    /\ made = Cardinality(Names)
    /\ task = [r \in Requests |-> "none"]
    /\ at = [r \in Requests |-> "idle"]
    /\ targets = [r \in Requests |-> {}]
    /\ names = [r \in Requests |-> {}]
    /\ selected = [r \in Requests |-> {}]
    /\ resolved = [r \in Requests |-> {}]
    /\ read = [r \in Requests |-> {}]
    /\ try = [r \in Requests |-> 1]
    /\ given = [r \in Requests |-> {}]
    /\ unlinked = [r \in Requests |-> {}]
    /\ excused = {}
    /\ disturbed = {}

Init == present = Transactions /\ TagInit

Asks(r, k, S, N) ==
    /\ at[r] = "idle"
    /\ task' = [task EXCEPT ![r] = k]
    /\ targets' = [targets EXCEPT ![r] = S]
    /\ names' = [names EXCEPT ![r] = N]
    /\ UNCHANGED <<selected, resolved, try, given, unlinked>>

(* setTransactionTags: counts the names, finds the transaction.            *)
AskEdit(r, t, N) ==
    /\ Cardinality(N) <= MaxTags
    /\ Asks(r, "edit", {t}, N)
    /\ Step(r, IF t \in present THEN "resolve" ELSE "done")
    /\ UNCHANGED <<present, tagStore, read, excused, disturbed>>

(* applyTagToFilteredSet: collects the transactions of the filter.         *)
AskBulk(r, S, n) ==
    /\ Asks(r, "bulk", S \cap present, {n})
    /\ Step(r, IF S \cap present = {} THEN "done" ELSE "resolve")
    /\ UNCHANGED <<present, tagStore, read, excused, disturbed>>

(* undoBulkTag, with the answer of bulk q.                                 *)
AskUndoBulk(r, q) ==
    /\ given[q] # {}
    /\ Asks(r, "undoBulk", {l[1] : l \in given[q]}, {})
    /\ read' = [read EXCEPT ![r] = given[q]]
    /\ Step(r, "remove")
    /\ UNCHANGED <<present, tagStore, excused, disturbed>>

(* deleteTag and renameTag.                                                *)
DeleteTag(r, i) ==
    /\ Asks(r, "deleteTag", {}, {})
    /\ Step(r, "done")
    /\ nameOf' = [nameOf EXCEPT ![i] = NoName]
    /\ Relinks({l \in links : l[2] # i})
    /\ UNCHANGED <<present, made, read, excused>>

RenameTag(r, i, n) ==
    /\ nameOf[i] # NoName
    /\ Asks(r, "renameTag", {}, {})
    /\ Step(r, "done")
    /\ IF \E j \in Tags \ {i} : nameOf[j] = n
       THEN UNCHANGED <<nameOf, excused>>
       ELSE nameOf' = [nameOf EXCEPT ![i] = n] /\ Excuses({i})
    /\ UNCHANGED <<present, made, links, read, disturbed>>

-----------------------------------------------------------------------------
(* resolveTagByName, an upsert that is a SELECT and then a write.          *)

Select(r, n) ==
    /\ at[r] = "resolve"
    /\ n \in names[r]
    /\ \A x \in selected[r] \cup resolved[r] : x[1] # n
    /\ selected' = [selected EXCEPT ![r] =
          @ \cup {<<n, i>> : i \in IF Named({n}) = {} THEN {0} ELSE Named({n})}]
    /\ UNCHANGED <<present, tagStore, task, at, targets, names, resolved, read,
                   try, given, history>>

Resolves(r, x, i) ==
    /\ selected' = [selected EXCEPT ![r] = @ \ {x}]
    /\ resolved' = [resolved EXCEPT ![r] = @ \cup {<<x[1], i>>}]
    /\ UNCHANGED <<present, links, task, at, targets, names, read, try, given, history>>

Update(r, x) ==
    /\ x \in selected[r]
    /\ x[2] \in Stored
    /\ Resolves(r, x, x[2])
    /\ UNCHANGED <<nameOf, made>>

Insert(r, x) ==
    /\ x \in selected[r]
    /\ x[2] = 0
    /\ Named({x[1]}) = {}
    /\ made < MaxRows
    /\ made' = made + 1
    /\ nameOf' = [nameOf EXCEPT ![made + 1] = x[1]]
    /\ Resolves(r, x, made + 1)

(* Another made the tag meanwhile: the upsert runs again.                  *)
InsertAgain(r, x) ==
    /\ x \in selected[r]
    /\ x[2] = 0
    /\ Named({x[1]}) # {}
    /\ selected' = [selected EXCEPT ![r] = @ \ {x}]
    /\ UNCHANGED <<present, tagStore, task, at, targets, names, resolved, read,
                   try, given, history>>

(* The next attempt resolves again, or the request throws.                 *)
Retry(r) ==
    /\ selected' = [selected EXCEPT ![r] = {}]
    /\ resolved' = [resolved EXCEPT ![r] = {}]
    /\ IF try[r] < MaxLinkAttempts
       THEN /\ try' = [try EXCEPT ![r] = @ + 1]
            /\ Step(r, "resolve")
            /\ UNCHANGED excused
       ELSE Step(r, "failed") /\ Excuses(Named(names[r])) /\ UNCHANGED try

Throw(r) ==
    /\ Step(r, "failed")
    /\ Excuses(Named(names[r]))
    /\ UNCHANGED <<selected, resolved, try>>

(* TagVanishedError: a prune or a deletion came between the two.           *)
Vanish(r, x) ==
    /\ x \in selected[r]
    /\ x[2] # 0
    /\ x[2] \notin Stored
    /\ Retry(r)
    /\ UNCHANGED <<present, tagStore, task, targets, names, read, given,
                   unlinked, disturbed>>

-----------------------------------------------------------------------------
(* replaceLinks, and the loop of a bulk.                                   *)

ReadLinks(r) ==
    /\ at[r] = "resolve"
    /\ {x[1] : x \in resolved[r]} = names[r]
    /\ IF task[r] = "edit"
       THEN /\ read' = [read EXCEPT ![r] = OfTransactions(targets[r])]
            /\ Step(r, After("read"))
       ELSE /\ read' = [read EXCEPT ![r] = links \cap Wanted(r)]
            /\ Step(r, IF Wanted(r) \subseteq links THEN "done" ELSE "count")
    /\ UNCHANGED <<present, tagStore, task, targets, names, selected, resolved,
                   try, given, history>>

CountTags(r) ==
    /\ at[r] = "count"
    /\ IF OverCap(r) THEN Step(r, "done") /\ Excuses(Named(names[r]))
                     ELSE Step(r, "insert") /\ UNCHANGED excused
    /\ UNCHANGED <<present, tagStore, task, targets, names, progress, given,
                   unlinked, disturbed>>

Inserted(r) == IF task[r] = "edit" THEN After("insert") ELSE "done"

Dangling(r) == \E l \in Added(r) : l[1] \notin present \/ l[2] \notin Stored

InsertLinks(r) ==
    /\ at[r] = "insert"
    /\ ~Dangling(r)
    /\ Added(r) \cap links = {}
    /\ Step(r, Inserted(r))
    /\ Relinks(links \cup Added(r))
    /\ given' = [given EXCEPT ![r] = IF task[r] = "bulk" THEN Added(r) ELSE {}]
    /\ UNCHANGED <<present, nameOf, made, task, targets, names, progress,
                   unlinked, excused>>

(* The primary key: another request made one of the links.                 *)
LinkExists(r) ==
    /\ at[r] = "insert"
    /\ Added(r) \cap links # {}
    /\ Throw(r)
    /\ UNCHANGED <<present, tagStore, task, targets, names, read, given,
                   unlinked, disturbed>>

(* The foreign key: a tag or a transaction is gone.                        *)
LinkDangles(r) ==
    /\ at[r] = "insert"
    /\ Dangling(r)
    /\ IF task[r] = "edit" /\ try[r] < MaxLinkAttempts
       THEN Step(r, "recheck") /\ UNCHANGED <<selected, resolved, try, excused>>
       ELSE Retry(r)
    /\ UNCHANGED <<present, tagStore, task, targets, names, read, given,
                   unlinked, disturbed>>

Recheck(r) ==
    /\ at[r] = "recheck"
    /\ IF targets[r] \subseteq present THEN Retry(r) ELSE Throw(r)
    /\ UNCHANGED <<present, tagStore, task, targets, names, read, given,
                   unlinked, disturbed>>

RemoveLinks(r) ==
    /\ at[r] = "remove"
    /\ Step(r, After("remove"))
    /\ Relinks(links \ Removed(r))
    /\ unlinked' = [unlinked EXCEPT ![r] = @ \cup (links \cap Removed(r))]
    /\ UNCHANGED <<present, nameOf, made, task, targets, names, progress, given,
                   excused>>

(* pruneOrphanTags: the condition is inside the DELETE.                    *)
Prunable(r) == TagsIn(Removed(r)) \cap Unused

Prune(r) ==
    /\ at[r] = "prune"
    /\ nameOf' = [i \in Tags |-> IF i \in Prunable(r) THEN NoName ELSE nameOf[i]]
    /\ Step(r, "done")
    /\ UNCHANGED <<present, made, links, task, targets, names, progress, given,
                   history>>

(* A statement throws, or the process stops before it: before the removal, *)
(* at the removal or at the prune.                                         *)
Break(r) ==
    /\ \/ at[r] \in {"resolve", "count", "insert", "recheck"} /\ Step(r, "failed")
       \/ at[r] = "remove" /\ Step(r, "halfway")
       \/ at[r] = "prune" /\ Step(r, "unpruned")
    /\ selected' = [selected EXCEPT ![r] = {}]
    /\ Excuses(Named(names[r]) \cup TagsIn(read[r]))
    /\ UNCHANGED <<present, tagStore, task, targets, names, resolved, read, try,
                   given, unlinked, disturbed>>

-----------------------------------------------------------------------------
(* Transactions S are deleted, and their links with them.                  *)
Cascade(S) ==
    /\ Excuses(TagsIn(OfTransactions(S)))
    /\ UNCHANGED at
    /\ Relinks({l \in links : l[1] \notin S})
    /\ UNCHANGED <<nameOf, made, task, targets, names, progress, given, unlinked>>

AsksTags(r) ==
    \/ \E t \in Transactions, N \in SUBSET Names : AskEdit(r, t, N)
    \/ \E S \in Filters, n \in Names : AskBulk(r, S, n)
    \/ \E q \in Requests : AskUndoBulk(r, q)
    \/ \E i \in Stored : DeleteTag(r, i) \/ \E n \in Names : RenameTag(r, i, n)

RunsTags(r) ==
    \/ \E n \in names[r] : Select(r, n)
    \/ \E x \in selected[r] : Update(r, x) \/ Insert(r, x) \/ InsertAgain(r, x) \/ Vanish(r, x)
    \/ ReadLinks(r) \/ CountTags(r)
    \/ InsertLinks(r) \/ LinkExists(r) \/ LinkDangles(r) \/ Recheck(r)
    \/ RemoveLinks(r) \/ Prune(r) \/ Break(r)

Next ==
    \/ \E r \in Requests : AsksTags(r) \/ RunsTags(r)
    \/ \E S \in SUBSET present : S # {} /\ present' = present \ S /\ Cascade(S)

Spec == Init /\ [][Next]_vars

-----------------------------------------------------------------------------
TagTypeOK ==
    /\ present \in SUBSET Transactions
    /\ nameOf \in [Tags -> Names \cup {NoName}]
    /\ made \in Nat
    /\ links \in SUBSET Links
    /\ task \in [Requests -> {"none", "edit", "bulk", "undoBulk", "deleteTag", "renameTag"}]
    /\ at \in [Requests -> {"idle", "resolve", "count", "insert", "recheck", "remove",
                            "prune", "done"} \cup Broken]
    /\ targets \in [Requests -> SUBSET Transactions]
    /\ names \in [Requests -> SUBSET Names]
    /\ selected \in [Requests -> SUBSET (Names \X (Tags \cup {0}))]
    /\ resolved \in [Requests -> SUBSET (Names \X Tags)]
    /\ read \in [Requests -> SUBSET Links]
    /\ try \in [Requests -> Nat]
    /\ given \in [Requests -> SUBSET Links]
    /\ unlinked \in [Requests -> SUBSET Links]
    /\ excused \in SUBSET Tags
    /\ disturbed \in SUBSET Requests

(* service.ts:279-283, 333-342.  A tag without transactions is in the      *)
(* hands of a request that will link or prune it, unless a request failed, *)
(* a bulk was refused at the cap, the tag was renamed or a transaction     *)
(* that had it was deleted.                                                *)
OrphansExplained ==
    \A i \in Unused :
        \/ i \in excused
        \/ \E r \in Requests :
             InFlight(r) /\ (nameOf[i] \in names[r] \/ i \in TagsIn(read[r]))

(* service.ts:295-297.  A request that fails has removed no link, at       *)
(* whichever attempt and whichever statement it failed: a failure costs no *)
(* tag.  Only the prune comes after the removal, and its failure leaves    *)
(* the edit made.                                                          *)
FailedEditsUnlinkNothing ==
    \A r \in Requests : at[r] \in {"failed", "halfway"} => unlinked[r] = {}

(* service.ts:185-190, bulk.ts.  A transaction has at most the maximum of  *)
(* tags, but while an edit has still to remove what it replaces, when it   *)
(* broke there, or when another request changed the transaction's tags     *)
(* between an edit's read and its last write.                              *)
CapKeptUnlessRaced ==
    \A t \in present :
        \/ Cardinality(TagsOf(t)) <= MaxTags
        \/ \E r \in Requests :
             t \in targets[r] /\ (r \in disturbed \/ at[r] \in {"remove", "halfway"})
=============================================================================
