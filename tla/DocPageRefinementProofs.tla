------------------------- MODULE DocPageRefinementProofs -------------------------
(***************************************************************************)
(* Proof that DocPage implements DocPageListing under the mapping of      *)
(* DocPageRefinement, for every set of pages and every assignment of       *)
(* fragments and manifests to them, including pages with several          *)
(* fragments: a lost table is never listed, which the abstract            *)
(* specification allows, so the safety part needs no one-fragment rule.    *)
(***************************************************************************)
EXTENDS DocPageRefinement, DocPageProofs

\* A buffered table is that of a fragment that has run.
PendingRan ==
    \A p \in Pages : pending[p] # NoTable => pending[p] \in ran[p]

\* A row is in the list only if its fragment and main.js have both run.
QuietInv ==
    \A p \in Pages : \A f \in Fragments : \A e \in ExternEntries(f) :
        rows[p][e] # 0 => f \in ran[p] /\ hook[p]

\* A page without a manifest never sets window.SIDEBAR_ITEMS.
ItemsInv ==
    \A p \in Pages : PageManifest[p] = NoManifest => sidebarItems[p] = NoItems

\* The sidebar is empty until main.js builds it.
ShownInv ==
    \A p \in Pages : ~hook[p] => sidebarShown[p] = NoItems

RefIInv ==
    SidebarIInv /\ HookInv /\ RanInv /\ PendingRan /\ QuietInv /\ ItemsInv /\ ShownInv

\* Registering fragment f adds one to each of f's rows and leaves every
\* other fragment's rows alone.
LEMMA RegisterEntry ==
    ASSUME NEW r \in [Entries -> Nat], NEW f \in Fragments, NEW g \in Fragments,
           NEW e \in ExternEntries(g)
    PROVE  [d \in Entries |-> IF d \in ExternEntries(f) THEN r[d] + 1 ELSE r[d]][e]
             = IF g = f THEN r[e] + 1 ELSE r[e]
  <1>1. e \in Entries
    BY EntriesOfFragment
  <1>2. g # f => e \notin ExternEntries(f)
    BY EntryOwner
  <1>3. QED
    BY <1>1, <1>2

\* The list of a page whose rows did not change lists the same tables.
LEMMA ListedFrame ==
    ASSUME NEW p \in Pages, rows'[p] = rows[p]
    PROVE  Listed(p)' = Listed(p)
  BY DEF Listed

\* The names NoManifest and NoTable are not script names.
LEMMA SentinelsDistinct ==
    /\ NoManifest \notin Manifests
    /\ NoTable \notin Fragments
  BY DEF NoManifest, NoTable, Manifests, Fragments, ProstTypes, SerdeJsonWasmDe,
         OsmosisTwap, CosmosStaking, DefaultIsZeroes, DigestVerifier, FusedIterator

-----------------------------------------------------------------------------

\* The refinement invariant holds initially.
LEMMA RefInit == Init => RefIInv
  <1> SUFFICES ASSUME Init PROVE RefIInv
    OBVIOUS
  <1>1. SidebarIInv
    BY DEF Init, SidebarIInv, SidebarInv, SidebarShown, TypeOK, ItemsValues
  <1>2. QuietInv
    BY EntriesOfFragment DEF Init, QuietInv
  <1>3. QED
    BY <1>1, <1>2 DEF Init, RefIInv, HookInv, RanInv, PendingRan, ItemsInv, ShownInv

\* Every step keeps the refinement invariant.
LEMMA RefStep == RefIInv /\ [Next]_vars => RefIInv'
  <1> SUFFICES ASSUME RefIInv, [Next]_vars PROVE RefIInv'
    OBVIOUS
  <1> USE ScriptNamesDistinct, SentinelsDistinct
  <1>0. SidebarIInv' /\ TypeOK'
    BY SidebarStep DEF RefIInv, SidebarIInv
  <1>1. ASSUME NEW p \in Pages, NEW f \in Fragments, LoadFragment(p, f)
        PROVE  RefIInv'
    <2>0. /\ f \notin ran[p]
          /\ f \in PageFragments[p]
          /\ ran' = [ran EXCEPT ![p] = ran[p] \cup {f}]
          /\ UNCHANGED <<hook, sidebarItems, sidebarShown>>
      BY <1>1 DEF LoadFragment
    <2>1. (HookInv /\ RanInv /\ ItemsInv /\ ShownInv)'
      BY <2>0 DEF RefIInv, HookInv, RanInv, ItemsInv, ShownInv, SidebarIInv, TypeOK
    <2>2. PendingRan'
      BY <1>1, <2>0 DEF LoadFragment, PendingRan, RefIInv, SidebarIInv, TypeOK
    <2>3. QuietInv'
      <3>1. CASE hook[p]
        <4>a. rows' = [rows EXCEPT ![p] =
                 [d \in Entries |-> IF d \in ExternEntries(f) THEN rows[p][d] + 1
                                                              ELSE rows[p][d]]]
          BY <1>1, <3>1 DEF LoadFragment, RegisterImplementors
        <4>b. SUFFICES ASSUME NEW q \in Pages, NEW g \in Fragments,
                              NEW e \in ExternEntries(g), rows'[q][e] # 0
                       PROVE  g \in ran'[q] /\ hook'[q]
          BY DEF QuietInv
        <4>c. CASE q = p /\ g = f
          BY <2>0, <3>1, <4>c DEF RefIInv, SidebarIInv, TypeOK
        <4>d. CASE q = p /\ g # f
          <5>a. rows[p] \in [Entries -> Nat]
            BY DEF RefIInv, SidebarIInv, TypeOK
          <5>b. rows'[p] = [d \in Entries |-> IF d \in ExternEntries(f)
                                                THEN rows[p][d] + 1 ELSE rows[p][d]]
            BY <4>a DEF RefIInv, SidebarIInv, TypeOK
          <5>1. rows'[p][e] = rows[p][e]
            BY <4>d, <5>a, <5>b, RegisterEntry
          <5>2. QED
            BY <2>0, <4>b, <4>d, <5>1 DEF QuietInv, RefIInv, SidebarIInv, TypeOK
        <4>e. CASE q # p
          BY <2>0, <4>a, <4>b, <4>e DEF QuietInv, RefIInv, SidebarIInv, TypeOK
        <4>f. QED
          BY <4>c, <4>d, <4>e
      <3>2. CASE ~hook[p]
        BY <1>1, <2>0, <3>2 DEF LoadFragment, QuietInv, RefIInv, SidebarIInv, TypeOK
      <3>3. QED
        BY <3>1, <3>2
    <2>4. QED
      BY <1>0, <2>1, <2>2, <2>3 DEF RefIInv
  <1>2. ASSUME NEW p \in Pages, LoadManifest(p) PROVE RefIInv'
    <2>1. /\ PageManifest[p] \in Manifests
          /\ ran' = [ran EXCEPT ![p] = ran[p] \cup {PageManifest[p]}]
          /\ sidebarItems' = [sidebarItems EXCEPT ![p] =
                                 SidebarItems(PageManifest[p])]
          /\ UNCHANGED <<hook, pending, sidebarShown, rows>>
      BY <1>2 DEF LoadManifest
    <2>2. QED
      BY <1>0, <2>1 DEF RefIInv, HookInv, RanInv, PendingRan, QuietInv, ItemsInv,
         ShownInv, SidebarIInv, TypeOK
  <1>3. ASSUME NEW p \in Pages, LoadRuntime(p) PROVE RefIInv'
    <2>0. /\ ~hook[p]
          /\ ran' = [ran EXCEPT ![p] = ran[p] \cup {Runtime}]
          /\ hook' = [hook EXCEPT ![p] = TRUE]
          /\ sidebarShown' = [sidebarShown EXCEPT ![p] = sidebarItems[p]]
          /\ UNCHANGED <<pending, sidebarItems>>
      BY <1>3 DEF LoadRuntime, HookInv, RefIInv, SidebarIInv, TypeOK
    <2>1. (HookInv /\ RanInv /\ PendingRan /\ ItemsInv /\ ShownInv)'
      BY <2>0 DEF RefIInv, HookInv, RanInv, PendingRan, ItemsInv, ShownInv,
         SidebarIInv, TypeOK
    <2>2. QuietInv'
      <3> SUFFICES ASSUME NEW q \in Pages, NEW g \in Fragments,
                          NEW e \in ExternEntries(g), rows'[q][e] # 0
                   PROVE  g \in ran'[q] /\ hook'[q]
        BY DEF QuietInv
      <3>1. CASE q # p
        <4>1. rows'[q] = rows[q]
          BY <1>3, <3>1 DEF LoadRuntime, RegisterImplementors, RefIInv,
             SidebarIInv, TypeOK
        <4>2. QED
          BY <2>0, <3>1, <4>1 DEF QuietInv, RefIInv, SidebarIInv, TypeOK
      <3>2. CASE q = p
        <4>1. rows[p][e] = 0
          BY <2>0 DEF QuietInv, RefIInv
        <4>2. pending[p] # NoTable /\ g = pending[p]
          <5>1. CASE pending[p] = NoTable
            BY <1>3, <3>2, <4>1, <5>1 DEF LoadRuntime
          <5>2. CASE pending[p] # NoTable
            <6>1. pending[p] \in Fragments
              BY <5>2 DEF RefIInv, SidebarIInv, TypeOK
            <6>a. rows[p] \in [Entries -> Nat]
              BY DEF RefIInv, SidebarIInv, TypeOK
            <6>b. rows'[p] = [d \in Entries |-> IF d \in ExternEntries(pending[p])
                                                  THEN rows[p][d] + 1 ELSE rows[p][d]]
              BY <1>3, <5>2 DEF LoadRuntime, RegisterImplementors, RefIInv,
                 SidebarIInv, TypeOK
            <6>c. PICK h \in Fragments : h = pending[p]
              BY <6>1
            <6>d. [d \in Entries |-> IF d \in ExternEntries(h)
                                      THEN rows[p][d] + 1 ELSE rows[p][d]][e]
                    = IF g = h THEN rows[p][e] + 1 ELSE rows[p][e]
              BY <6>a, RegisterEntry
            <6>2. rows'[p][e] = IF g = pending[p] THEN rows[p][e] + 1 ELSE rows[p][e]
              BY <6>b, <6>c, <6>d
            <6>3. QED
              BY <3>2, <4>1, <5>2, <6>2
          <5>3. QED
            BY <5>1, <5>2
        <4>3. QED
          BY <2>0, <3>2, <4>2 DEF PendingRan, RefIInv, SidebarIInv, TypeOK
      <3>3. QED
        BY <3>1, <3>2
    <2>3. QED
      BY <1>0, <2>1, <2>2 DEF RefIInv
  <1>4. CASE UNCHANGED vars
    BY <1>0, <1>4 DEF vars, RefIInv, HookInv, RanInv, PendingRan, QuietInv,
       ItemsInv, ShownInv
  <1>5. QED
    BY <1>1, <1>2, <1>3, <1>4 DEF Next

-----------------------------------------------------------------------------
(* The refinement.  Under the mapping a fragment's run is a List step when *)
(* main.js has run and the table has rows to list, and a stutter          *)
(* otherwise; a manifest's run is a stutter; main.js's run is Build.       *)

\* The initial page maps to an unrendered page that lists nothing.
LEMMA RefinementInit == Init => Listing!Init
  <1> SUFFICES ASSUME Init PROVE Listing!Init
    OBVIOUS
  <1>1. \A p \in Pages : Listed(p) = {}
    BY EntriesOfFragment DEF Init, Listed
  <1>2. QED
    BY <1>1 DEF Init, Listing!Init

\* Every step of the loading protocol is a step of the page's promise, or
\* leaves the rendering, the listed tables and the sidebar as they were.
LEMMA RefinementStep ==
    RefIInv /\ RefIInv' /\ [Next]_vars
        => [Listing!Next]_Listing!absvars
  <1> SUFFICES ASSUME RefIInv, RefIInv', [Next]_vars
               PROVE  [Listing!Next]_Listing!absvars
    OBVIOUS
  <1> USE ScriptNamesDistinct, SentinelsDistinct
  <1> DEFINE listedMap == [q \in Pages |-> Listed(q)]
  \* A step that changes no page's rows, no hook and no sidebar stutters.
  <1>0. ASSUME rows' = rows, hook' = hook, sidebarShown' = sidebarShown
        PROVE  [Listing!Next]_Listing!absvars
    <2>1. listedMap' = listedMap
      BY <1>0, ListedFrame
    <2>2. QED
      BY <1>0, <2>1 DEF Listing!absvars
  <1>1. ASSUME NEW p \in Pages, NEW f \in Fragments, LoadFragment(p, f)
        PROVE  [Listing!Next]_Listing!absvars
    <2>0. /\ f \notin ran[p]
          /\ f \in PageFragments[p]
          /\ UNCHANGED <<hook, sidebarShown>>
      BY <1>1 DEF LoadFragment
    <2>1. CASE ~hook[p]
      BY <1>0, <1>1, <2>0, <2>1 DEF LoadFragment
    <2>2. CASE hook[p]
      <3>a. rows[p] \in [Entries -> Nat]
        BY DEF RefIInv, SidebarIInv, TypeOK
      <3>b. rows' = [rows EXCEPT ![p] =
               [d \in Entries |-> IF d \in ExternEntries(f) THEN rows[p][d] + 1
                                                            ELSE rows[p][d]]]
        BY <1>1, <2>2 DEF LoadFragment, RegisterImplementors
      <3>c. \A g \in Fragments : \A e \in ExternEntries(g) :
               rows'[p][e] = IF g = f THEN rows[p][e] + 1 ELSE rows[p][e]
        BY <3>a, <3>b, RegisterEntry DEF RefIInv, SidebarIInv, TypeOK
      <3>d. \A e \in ExternEntries(f) : rows[p][e] = 0
        BY <2>0 DEF QuietInv, RefIInv
      <3>e. \A q \in Pages \ {p} : Listed(q)' = Listed(q)
        BY <3>b, ListedFrame DEF RefIInv, SidebarIInv, TypeOK
      <3>f. \A g \in Fragments \ {f} : g \in Listed(p)' <=> g \in Listed(p)
        BY <3>c DEF Listed
      <3>1. CASE ExternEntries(f) = {}
        <4>1. Listed(p)' = Listed(p)
          BY <3>1, <3>f DEF Listed
        <4>2. listedMap' = listedMap
          BY <3>e, <4>1
        <4>3. QED
          BY <2>0, <4>2 DEF Listing!absvars
      <3>2. CASE ExternEntries(f) # {}
        <4>1. f \notin Listed(p)
          BY <3>d DEF Listed
        <4>2. f \in Listed(p)'
          <5>1. PICK e \in ExternEntries(f) : TRUE
            BY <3>2
          <5>2. rows'[p][e] # 0
            BY <3>a, <3>c, <3>d, EntriesOfFragment
          <5>3. QED
            BY <5>2 DEF Listed
        <4>3. Listed(p)' = Listed(p) \cup {f}
          BY <3>f, <4>2 DEF Listed
        <4>4. listedMap' = [listedMap EXCEPT ![p] = @ \cup {f}]
          BY <3>e, <4>3
        <4>5. Listing!List(p, f)
          BY <2>0, <2>2, <4>1, <4>4 DEF Listing!List
        <4>6. QED
          BY <2>0, <4>5 DEF Listing!Next
      <3>3. QED
        BY <3>1, <3>2
    <2>3. QED
      BY <2>1, <2>2
  <1>2. ASSUME NEW p \in Pages, LoadManifest(p)
        PROVE  [Listing!Next]_Listing!absvars
    BY <1>0, <1>2 DEF LoadManifest
  <1>3. ASSUME NEW p \in Pages, LoadRuntime(p)
        PROVE  [Listing!Next]_Listing!absvars
    <2>0. /\ ~hook[p]
          /\ DeferredBefore(p) \subseteq ran[p]
          /\ ran' = [ran EXCEPT ![p] = ran[p] \cup {Runtime}]
          /\ hook' = [hook EXCEPT ![p] = TRUE]
          /\ sidebarShown' = [sidebarShown EXCEPT ![p] = sidebarItems[p]]
      BY <1>3 DEF LoadRuntime, HookInv, RefIInv
    <2>1. sidebarItems[p] = ManifestItems[p]
      <3>1. CASE PageManifest[p] = NoManifest
        BY <3>1 DEF ItemsInv, RefIInv, ManifestItems
      <3>2. CASE PageManifest[p] # NoManifest
        BY <2>0, <3>2 DEF DeferredBefore, SidebarInv, SidebarIInv, RefIInv,
           ManifestItems
      <3>3. QED
        BY <3>1, <3>2
    <2>2. \A q \in Pages \ {p} : Listed(q)' = Listed(q)
      <3> SUFFICES ASSUME NEW q \in Pages \ {p} PROVE Listed(q)' = Listed(q)
        OBVIOUS
      <3>1. rows'[q] = rows[q]
        BY <1>3 DEF LoadRuntime, RegisterImplementors, RefIInv, SidebarIInv, TypeOK
      <3>2. QED
        BY <3>1, ListedFrame
    <2>3. Listed(p)' \subseteq PageFragments[p]
      <3> SUFFICES ASSUME NEW g \in Listed(p)' PROVE g \in PageFragments[p]
        OBVIOUS
      <3>1. g \in Fragments /\ g \in ran'[p]
        BY DEF Listed, QuietInv, RefIInv
      <3>2. g \in ran[p]
        BY <2>0, <3>1 DEF RefIInv, SidebarIInv, TypeOK
      <3>3. QED
        BY <3>1, <3>2 DEF RanInv, RefIInv
    <2>4. listedMap' = [listedMap EXCEPT ![p] = Listed(p)']
      BY <2>2
    <2>5. Listing!Build(p)
      BY <2>0, <2>1, <2>3, <2>4 DEF Listing!Build, RefIInv, SidebarIInv, TypeOK
    <2>6. QED
      BY <2>5 DEF Listing!Next
  <1>4. CASE UNCHANGED vars
    BY <1>0, <1>4 DEF vars
  <1>5. QED
    BY <1>1, <1>2, <1>3, <1>4 DEF Next

\* On every set of pages, with any number of fragments per page, loading a
\* page implements what it promises (DocPageListing): main.js renders it
\* once with its own manifest's sidebar, the fragment's hook call and
\* main.js's drain of window.pending_implementors list only the page's own
\* tables, and no listed table is ever removed.
THEOREM Refinement == Spec => ListingRefined
  <1>1. Spec => []RefIInv
    BY RefInit, RefStep, PTL DEF Spec
  <1>2. QED
    BY <1>1, RefinementInit, RefinementStep, PTL DEF Spec, ListingRefined, Listing!Spec


-----------------------------------------------------------------------------
(* Rows are only ever added, once.  The same invariant RefIInv carries     *)
(* this action property: QuietInv says that a fragment's rows are all 0   *)
(* until both it and main.js have run, and each step registers at most a  *)
(* fragment that has not been registered yet -- the fragment itself, run   *)
(* once, after main.js, or the buffered one, drained once, by main.js      *)
(* before which nothing is listed.                                         *)

\* Registering a table whose rows are all 0 takes each of them from 0 to 1
\* and leaves the other rows alone.
LEMMA RegisterFromZero ==
    ASSUME NEW r \in [Entries -> Nat], NEW f \in Fragments,
           \A e \in ExternEntries(f) : r[e] = 0
    PROVE  LET r2 == [d \in Entries |-> IF d \in ExternEntries(f) THEN r[d] + 1
                                                               ELSE r[d]]
           IN  \A e \in Entries : r2[e] # r[e] => r[e] = 0 /\ r2[e] = 1
  BY DEF Entries

\* Every step of the loading protocol only adds impl rows, each once.
LEMMA RowsStep == RefIInv /\ [Next]_vars => [RowsOnlyAdded]_rows
  <1> SUFFICES ASSUME RefIInv, [Next]_vars PROVE [RowsOnlyAdded]_rows
    OBVIOUS
  <1> USE SentinelsDistinct
  <1>0. rows \in [Pages -> [Entries -> Nat]]
    BY DEF RefIInv, SidebarIInv, TypeOK
  \* A step that registers table f on page p, all of whose rows are 0.
  <1>1. ASSUME NEW p \in Pages, NEW f \in Fragments,
               \A e \in ExternEntries(f) : rows[p][e] = 0,
               rows' = [rows EXCEPT ![p] =
                 [d \in Entries |-> IF d \in ExternEntries(f) THEN rows[p][d] + 1
                                                              ELSE rows[p][d]]]
        PROVE  RowsOnlyAdded
    <2>1. \A e \in Entries : rows'[p][e] # rows[p][e] =>
                                rows[p][e] = 0 /\ rows'[p][e] = 1
      BY <1>0, <1>1, RegisterFromZero
    <2>2. \A q \in Pages \ {p} : rows'[q] = rows[q]
      BY <1>0, <1>1
    <2>3. QED
      BY <2>1, <2>2 DEF RowsOnlyAdded
  <1>2. ASSUME NEW p \in Pages, NEW f \in Fragments, LoadFragment(p, f)
        PROVE  [RowsOnlyAdded]_rows
    <2>1. CASE hook[p]
      <3>1. f \notin ran[p]
        BY <1>2 DEF LoadFragment
      <3>2. \A e \in ExternEntries(f) : rows[p][e] = 0
        BY <3>1 DEF QuietInv, RefIInv
      <3>3. QED
        BY <1>1, <1>2, <2>1, <3>2 DEF LoadFragment, RegisterImplementors
    <2>2. CASE ~hook[p]
      BY <1>2, <2>2 DEF LoadFragment
    <2>3. QED
      BY <2>1, <2>2
  <1>3. ASSUME NEW p \in Pages, LoadRuntime(p) PROVE [RowsOnlyAdded]_rows
    <2>1. CASE pending[p] # NoTable
      <3>1. pending[p] \in Fragments
        BY <2>1 DEF RefIInv, SidebarIInv, TypeOK
      <3>2. ~hook[p]
        BY <1>3 DEF LoadRuntime, HookInv, RefIInv
      <3>3. \A e \in ExternEntries(pending[p]) : rows[p][e] = 0
        BY <3>1, <3>2 DEF QuietInv, RefIInv
      <3>4. PICK h \in Fragments : h = pending[p]
        BY <3>1
      <3>5. QED
        BY <1>1, <1>3, <2>1, <3>3, <3>4 DEF LoadRuntime, RegisterImplementors
    <2>2. CASE pending[p] = NoTable
      BY <1>3, <2>2 DEF LoadRuntime
    <2>3. QED
      BY <2>1, <2>2
  <1>4. ASSUME NEW p \in Pages, LoadManifest(p) PROVE [RowsOnlyAdded]_rows
    BY <1>4 DEF LoadManifest
  <1>5. CASE UNCHANGED vars
    BY <1>5 DEF vars
  <1>6. QED
    BY <1>2, <1>3, <1>4, <1>5 DEF Next

\* On every set of pages, with any number of fragments per page, no impl
\* row is ever listed twice or removed: the fragment's hook call and
\* main.js's drain of window.pending_implementors never register the same
\* table twice, in any order of the async and deferred scripts.
THEOREM RowsAddedOnceHolds == Spec => RowsAddedOnce
  <1>1. Spec => []RefIInv
    BY RefInit, RefStep, PTL DEF Spec
  <1>2. QED
    BY <1>1, RowsStep, PTL DEF Spec, RowsAddedOnce


\* On every page, whatever the number of fragments and the order of the
\* scripts, only tables the page includes have rows in its list, and before
\* main.js has run nothing is listed and the sidebar is empty: neither the
\* fragment's buffer branch nor the manifest's assignment shows anything
\* on their own.
THEOREM ListsOwnTablesOnly == Spec => []Listing!OwnTables
  <1>1. RefIInv => Listing!OwnTables
    <2> SUFFICES ASSUME RefIInv, NEW p \in Pages
                 PROVE  /\ Listed(p) \subseteq PageFragments[p]
                        /\ ~hook[p] => Listed(p) = {} /\ sidebarShown[p] = NoItems
      BY DEF Listing!OwnTables
    <2>1. Listed(p) \subseteq ran[p] \cap Fragments
      BY DEF Listed, QuietInv, RefIInv
    <2>2. ~hook[p] => Listed(p) = {}
      BY DEF Listed, QuietInv, RefIInv
    <2>3. QED
      BY <2>1, <2>2 DEF RanInv, ShownInv, RefIInv
  <1>2. QED
    BY <1>1, RefInit, RefStep, PTL DEF Spec

==============================================================================
