------------------------------ MODULE DocPage -------------------------------
(***************************************************************************)
(* Loading a page of the generated documentation.                          *)
(*                                                                         *)
(* A page includes three kinds of script, each run once, atomically (the   *)
(* browser runs one script at a time):                                     *)
(*                                                                         *)
(*  - the implementor fragment of the trait it documents, included async,  *)
(*    so it may run at any moment.  Its last line is                       *)
(*      if (window.register_implementors)                                  *)
(*          {window.register_implementors(implementors);}                  *)
(*      else {window.pending_implementors = implementors;}                 *)
(*  - the sidebar manifest of its module, included defer, which sets       *)
(*    window.SIDEBAR_ITEMS;                                                *)
(*  - the documentation runtime main.js, included defer after the          *)
(*    manifest.  It defines window.register_implementors, registers        *)
(*    window.pending_implementors if set, and builds the sidebar from      *)
(*    window.SIDEBAR_ITEMS.                                                *)
(*                                                                         *)
(* Each open page is its own window; Pages are the windows open at once.  *)
(***************************************************************************)
EXTENDS Naturals, ImplementorTables, SidebarManifests

CONSTANTS
    Pages,          \* the open pages (windows)
    PageFragments,  \* PageFragments[p]: the implementor fragments page p includes
    PageManifest    \* PageManifest[p]: its sidebar manifest, or NoManifest

Runtime    == "main.js"
NoManifest == "none"
NoTable    == "undefined"     \* window.pending_implementors not set
NoItems    == <<>>            \* window.SIDEBAR_ITEMS not set / sidebar empty

ASSUME PageAssumption ==
    /\ PageFragments \in [Pages -> SUBSET Fragments]
    /\ PageManifest \in [Pages -> Manifests \cup {NoManifest}]

VARIABLES
    ran,           \* ran[p]: the scripts of page p that have run
    hook,          \* hook[p]: window.register_implementors is defined
    pending,       \* pending[p]: window.pending_implementors
    sidebarItems,  \* sidebarItems[p]: window.SIDEBAR_ITEMS
    sidebarShown,  \* sidebarShown[p]: the items the sidebar was built from
    rows           \* rows[p][e]: how many times impl row e is in the list

vars == <<ran, hook, pending, sidebarItems, sidebarShown, rows>>

\* The deferred scripts that precede main.js in page p's document: deferred
\* scripts run in document order, and the manifest is written before main.js.
DeferredBefore(p) ==
    IF PageManifest[p] = NoManifest THEN {} ELSE {PageManifest[p]}

ItemsValues == {SidebarItems(m) : m \in Manifests} \cup {NoItems}

TypeOK ==
    /\ ran \in [Pages -> SUBSET (Fragments \cup Manifests \cup {Runtime})]
    /\ hook \in [Pages -> BOOLEAN]
    /\ pending \in [Pages -> Fragments \cup {NoTable}]
    /\ sidebarItems \in [Pages -> ItemsValues]
    /\ sidebarShown \in [Pages -> ItemsValues]
    /\ rows \in [Pages -> [Entries -> Nat]]

Init ==
    /\ ran = [p \in Pages |-> {}]
    /\ hook = [p \in Pages |-> FALSE]
    /\ pending = [p \in Pages |-> NoTable]
    /\ sidebarItems = [p \in Pages |-> NoItems]
    /\ sidebarShown = [p \in Pages |-> NoItems]
    /\ rows = [p \in Pages |-> [e \in Entries |-> 0]]

\* register_implementors(imp) of main.js: one row per impl of every crate of
\* the table but the page's own (window.currentCrate).
RegisterImplementors(p, f) ==
    rows' = [rows EXCEPT ![p] =
                [e \in Entries |-> IF e \in ExternEntries(f) THEN rows[p][e] + 1
                                                             ELSE rows[p][e]]]

\* Variant of LoadFragment without the test of window.register_implementors:
\* the table is always left in the buffer.
LoadFragmentAlwaysBuffers(p, f) ==
    /\ f \in PageFragments[p] \ ran[p]
    /\ ran' = [ran EXCEPT ![p] = @ \cup {f}]
    /\ pending' = [pending EXCEPT ![p] = f]
    /\ UNCHANGED <<hook, sidebarItems, sidebarShown, rows>>

\* Variant of LoadFragment that calls window.register_implementors without
\* testing it: before main.js the call throws and the table is dropped.
LoadFragmentAlwaysCallsHook(p, f) ==
    /\ f \in PageFragments[p] \ ran[p]
    /\ ran' = [ran EXCEPT ![p] = @ \cup {f}]
    /\ IF hook[p] THEN RegisterImplementors(p, f) ELSE UNCHANGED rows
    /\ UNCHANGED <<hook, pending, sidebarItems, sidebarShown>>

\* Variant of LoadFragment whose script may run again (the page includes it
\* twice): the test of window.register_implementors is repeated each time.
LoadFragmentRerun(p, f) ==
    /\ f \in PageFragments[p]
    /\ ran' = [ran EXCEPT ![p] = @ \cup {f}]
    /\ IF hook[p]
         THEN RegisterImplementors(p, f) /\ UNCHANGED pending
         ELSE pending' = [pending EXCEPT ![p] = f] /\ UNCHANGED rows
    /\ UNCHANGED <<hook, sidebarItems, sidebarShown>>

\* Fragment f runs: it registers its table through the hook if main.js has
\* defined it, and otherwise leaves it in window.pending_implementors.
LoadFragment(p, f) ==
    /\ f \in PageFragments[p] \ ran[p]
    /\ ran' = [ran EXCEPT ![p] = @ \cup {f}]
    /\ IF hook[p]
         THEN RegisterImplementors(p, f) /\ UNCHANGED pending
         ELSE pending' = [pending EXCEPT ![p] = f] /\ UNCHANGED rows
    /\ UNCHANGED <<hook, sidebarItems, sidebarShown>>

\* Variant of LoadManifest that assigns a misspelt global, leaving
\* window.SIDEBAR_ITEMS undefined.
LoadManifestMisnamedGlobal(p) ==
    /\ PageManifest[p] \in Manifests \ ran[p]
    /\ ran' = [ran EXCEPT ![p] = @ \cup {PageManifest[p]}]
    /\ UNCHANGED <<hook, pending, sidebarItems, sidebarShown, rows>>

\* The sidebar manifest runs: window.SIDEBAR_ITEMS = {...}.
LoadManifest(p) ==
    /\ PageManifest[p] \in Manifests \ ran[p]
    /\ ran' = [ran EXCEPT ![p] = @ \cup {PageManifest[p]}]
    /\ sidebarItems' = [sidebarItems EXCEPT ![p] = SidebarItems(PageManifest[p])]
    /\ UNCHANGED <<hook, pending, sidebarShown, rows>>

\* Variant of LoadRuntime that clears the buffer with null once registered.
LoadRuntimeNullsBuffer(p) ==
    /\ Runtime \notin ran[p]
    /\ DeferredBefore(p) \subseteq ran[p]
    /\ ran' = [ran EXCEPT ![p] = @ \cup {Runtime}]
    /\ hook' = [hook EXCEPT ![p] = TRUE]
    /\ IF pending[p] # NoTable
         THEN RegisterImplementors(p, pending[p])
         ELSE UNCHANGED rows
    /\ sidebarShown' = [sidebarShown EXCEPT ![p] = sidebarItems[p]]
    /\ pending' = [pending EXCEPT ![p] = "null"]
    /\ UNCHANGED sidebarItems

\* main.js runs after the deferred scripts before it: it defines the hook,
\* registers a buffered table, and builds the sidebar from SIDEBAR_ITEMS.
LoadRuntime(p) ==
    /\ Runtime \notin ran[p]
    /\ DeferredBefore(p) \subseteq ran[p]
    /\ ran' = [ran EXCEPT ![p] = @ \cup {Runtime}]
    /\ hook' = [hook EXCEPT ![p] = TRUE]
    /\ IF pending[p] # NoTable
         THEN RegisterImplementors(p, pending[p])
         ELSE UNCHANGED rows
    /\ sidebarShown' = [sidebarShown EXCEPT ![p] = sidebarItems[p]]
    /\ UNCHANGED <<pending, sidebarItems>>

Next ==
    \E p \in Pages :
        \/ \E f \in Fragments : LoadFragment(p, f)
        \/ LoadManifest(p)
        \/ LoadRuntime(p)

\* The browser eventually runs every script a page includes.
Fairness ==
    \A p \in Pages :
        /\ \A f \in Fragments : WF_vars(LoadFragment(p, f))
        /\ WF_vars(LoadManifest(p))
        /\ WF_vars(LoadRuntime(p))

Spec == Init /\ [][Next]_vars

FairSpec == Spec /\ Fairness

-----------------------------------------------------------------------------
(* Properties *)

\* Once main.js has run on a page, every impl of every fragment that has run
\* there is listed exactly once, and no impl of a fragment that has not run
\* is listed: the hook/buffer handshake of the fragment's last line neither
\* loses nor repeats a table, whatever order the async fragment and the
\* deferred main.js run in.
ImplementorsShownOnce ==
    \A p \in Pages : Runtime \in ran[p] =>
        \A f \in Fragments : \A e \in ExternEntries(f) :
            rows[p][e] = IF f \in ran[p] THEN 1 ELSE 0

\* Once main.js has run on a page with a sidebar manifest, the sidebar was
\* built from that manifest's items: window.SIDEBAR_ITEMS was set before
\* main.js read it.
SidebarShown ==
    \A p \in Pages :
        (Runtime \in ran[p] /\ PageManifest[p] # NoManifest)
            => sidebarShown[p] = SidebarItems(PageManifest[p])

\* A step changes an impl row of a page's list only by adding it for the
\* first time (RowsOnlyAdded, as a property of every step): between the fragment's hook call and main.js's drain of
\* window.pending_implementors no table is registered twice, and nothing
\* ever removes a row, whatever the number of fragments and the order in
\* which the scripts run.
RowsOnlyAdded ==
    \A p \in Pages : \A e \in Entries :
        rows'[p][e] # rows[p][e] => rows[p][e] = 0 /\ rows'[p][e] = 1

RowsAddedOnce == [][RowsOnlyAdded]_rows

\* Every impl of every fragment a page includes is eventually listed on it.
ImplementorsEventuallyShown ==
    \A p \in Pages : \A f \in PageFragments[p] :
        <>(\A e \in ExternEntries(f) : rows[p][e] >= 1)
==============================================================================
