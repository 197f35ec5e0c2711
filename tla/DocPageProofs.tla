---------------------------- MODULE DocPageProofs ----------------------------
(***************************************************************************)
(* Proofs about the page-loading protocol of DocPage, for every set of    *)
(* pages and every assignment of fragments and manifests to them.          *)
(***************************************************************************)
EXTENDS DocPage, TLAPS

\* rustdoc writes the fragment of one trait into the trait's page: a page
\* includes at most one implementor fragment.
SingleFragmentPerPage ==
    \A p \in Pages : \A f, g \in PageFragments[p] : f = g

\* The scripts of the three kinds have distinct names.
LEMMA ScriptNamesDistinct ==
    /\ Runtime \notin Fragments
    /\ Runtime \notin Manifests
    /\ Fragments \cap Manifests = {}
  BY DEF Runtime, Fragments, Manifests, DefaultIsZeroes, DigestVerifier,
         FusedIterator, ProstTypes, SerdeJsonWasmDe, OsmosisTwap, CosmosStaking

\* A row names the fragment it comes from: the rows of two fragments differ.
LEMMA EntryOwner ==
    ASSUME NEW f, NEW e \in ExternEntries(f)
    PROVE  e[1] = f
  BY DEF ExternEntries

\* The rows of a fragment are rows of the list.
LEMMA EntriesOfFragment ==
    ASSUME NEW f \in Fragments
    PROVE  ExternEntries(f) \subseteq Entries
  BY DEF Entries

-----------------------------------------------------------------------------
(* Type correctness *)

\* Every step keeps the state well typed.
LEMMA TypeStep == TypeOK /\ [Next]_vars => TypeOK'
  <1> SUFFICES ASSUME TypeOK, [Next]_vars PROVE TypeOK'
    OBVIOUS
  <1>1. ASSUME NEW p \in Pages, NEW f \in Fragments, LoadFragment(p, f)
        PROVE  TypeOK'
    <2>1. ran' \in [Pages -> SUBSET (Fragments \cup Manifests \cup {Runtime})]
      BY <1>1 DEF LoadFragment, TypeOK
    <2>2. CASE hook[p]
      <3>1. rows' \in [Pages -> [Entries -> Nat]]
        BY <1>1, <2>2 DEF LoadFragment, RegisterImplementors, TypeOK
      <3>2. QED
        BY <1>1, <2>1, <2>2, <3>1 DEF LoadFragment, TypeOK
    <2>3. CASE ~hook[p]
      BY <1>1, <2>1, <2>3 DEF LoadFragment, TypeOK
    <2>4. QED
      BY <2>2, <2>3
  <1>2. ASSUME NEW p \in Pages, LoadManifest(p) PROVE TypeOK'
    BY <1>2 DEF LoadManifest, TypeOK, ItemsValues
  <1>3. ASSUME NEW p \in Pages, LoadRuntime(p) PROVE TypeOK'
    <2>1. rows' \in [Pages -> [Entries -> Nat]]
      <3>1. CASE pending[p] # NoTable
        BY <1>3, <3>1 DEF LoadRuntime, RegisterImplementors, TypeOK
      <3>2. CASE pending[p] = NoTable
        BY <1>3, <3>2 DEF LoadRuntime, TypeOK
      <3>3. QED
        BY <3>1, <3>2
    <2>2. QED
      BY <1>3, <2>1 DEF LoadRuntime, TypeOK
  <1>4. CASE UNCHANGED vars
    BY <1>4 DEF vars, TypeOK
  <1>5. QED
    BY <1>1, <1>2, <1>3, <1>4 DEF Next

\* Every reachable state is well typed.
THEOREM TypeCorrect == Spec => []TypeOK
  <1>1. Init => TypeOK
    BY DEF Init, TypeOK, ItemsValues
  <1>2. QED
    BY <1>1, TypeStep, PTL DEF Spec

-----------------------------------------------------------------------------
(* The listing of implementors.  ImplementorsShownOnce is not inductive:   *)
(* it says nothing before main.js runs, so it cannot tell that a fragment *)
(* that ran early is waiting in window.pending_implementors.  ImplIInv     *)
(* adds that the hook is defined exactly when main.js has run, that a      *)
(* fragment that ran before it is the buffered table, and what the list    *)
(* holds at every moment, not only after main.js.                          *)

\* window.register_implementors is defined exactly when main.js has run.
HookInv ==
    \A p \in Pages : hook[p] <=> Runtime \in ran[p]

\* The fragments that have run are fragments of the page.
RanInv ==
    \A p \in Pages : ran[p] \cap Fragments \subseteq PageFragments[p]

\* A buffered table is that of a fragment that has run, and before main.js
\* every fragment that has run is the buffered one.
PendingInv ==
    \A p \in Pages :
        /\ pending[p] # NoTable => pending[p] \in ran[p]
        /\ ~hook[p] => \A f \in ran[p] \cap Fragments : pending[p] = f

\* A fragment's rows are listed once if it and main.js have both run, and
\* are absent otherwise.
RowsInv ==
    \A p \in Pages : \A f \in Fragments : \A e \in ExternEntries(f) :
        rows[p][e] = IF f \in ran[p] /\ hook[p] THEN 1 ELSE 0

ImplIInv == TypeOK /\ HookInv /\ RanInv /\ PendingInv /\ RowsInv

\* The invariant holds initially.
LEMMA ImplInit == Init => ImplIInv
  <1> SUFFICES ASSUME Init PROVE ImplIInv
    OBVIOUS
  <1>1. TypeOK
    BY DEF Init, TypeOK, ItemsValues
  <1>2. HookInv
    BY DEF Init, HookInv
  <1>3. RanInv
    BY DEF Init, RanInv
  <1>4. PendingInv
    BY DEF Init, PendingInv
  <1>5. RowsInv
    BY EntriesOfFragment DEF Init, RowsInv
  <1>6. QED
    BY <1>1, <1>2, <1>3, <1>4, <1>5 DEF ImplIInv

\* Every step keeps the invariant, on pages with one fragment each.
LEMMA ImplStep ==
    SingleFragmentPerPage /\ ImplIInv /\ [Next]_vars => ImplIInv'
  <1> SUFFICES ASSUME SingleFragmentPerPage, ImplIInv, [Next]_vars
               PROVE  ImplIInv'
    OBVIOUS
  <1> USE ScriptNamesDistinct
  <1>0. TypeOK'
    BY TypeStep DEF ImplIInv
  <1>1. ASSUME NEW p \in Pages, NEW f \in Fragments, LoadFragment(p, f)
        PROVE  ImplIInv'
    <2>0. /\ f \notin ran[p]
          /\ f \in PageFragments[p]
          /\ ran' = [ran EXCEPT ![p] = ran[p] \cup {f}]
          /\ hook' = hook
      BY <1>1 DEF LoadFragment
    <2>1. HookInv'
      BY <2>0 DEF HookInv, ImplIInv, TypeOK
    <2>2. RanInv'
      BY <2>0 DEF RanInv, ImplIInv, TypeOK
    <2>3. PendingInv'
      <3>1. CASE hook[p]
        BY <1>1, <2>0, <3>1 DEF LoadFragment, PendingInv, ImplIInv, TypeOK
      <3>2. CASE ~hook[p]
        <4>a. pending' = [pending EXCEPT ![p] = f]
          BY <1>1, <3>2 DEF LoadFragment
        <4>b. \A g \in ran'[p] \cap Fragments : g = f
          BY <2>0, <2>2 DEF SingleFragmentPerPage, RanInv, ImplIInv, TypeOK
        <4>c. QED
          BY <2>0, <4>a, <4>b DEF PendingInv, ImplIInv, TypeOK
      <3>3. QED
        BY <3>1, <3>2
    <2>4. RowsInv'
      <3>1. CASE hook[p]
        <4>a. rows' = [rows EXCEPT ![p] =
                 [e \in Entries |-> IF e \in ExternEntries(f) THEN rows[p][e] + 1
                                                              ELSE rows[p][e]]]
          BY <1>1, <3>1 DEF LoadFragment, RegisterImplementors
        <4>b. SUFFICES ASSUME NEW q \in Pages, NEW g \in Fragments,
                              NEW e \in ExternEntries(g)
                       PROVE  rows'[q][e] = IF g \in ran'[q] /\ hook'[q] THEN 1 ELSE 0
          BY DEF RowsInv
        <4>c. e \in Entries
          BY EntriesOfFragment
        <4>d. CASE q = p /\ g = f
          <5>1. rows[p][e] = 0
            BY <2>0, <4>d DEF RowsInv, ImplIInv
          <5>2. rows'[p][e] = rows[p][e] + 1
            BY <4>a, <4>c, <4>d DEF ImplIInv, TypeOK
          <5>3. QED
            BY <2>0, <3>1, <4>d, <5>1, <5>2 DEF ImplIInv, TypeOK
        <4>e. CASE q = p /\ g # f
          <5>1. e \notin ExternEntries(f)
            BY <4>e, EntryOwner
          <5>2. rows'[p][e] = rows[p][e]
            BY <4>a, <4>c, <5>1 DEF ImplIInv, TypeOK
          <5>3. QED
            BY <2>0, <4>e, <5>2 DEF RowsInv, ImplIInv, TypeOK
        <4>f. CASE q # p
          BY <2>0, <4>a, <4>f DEF RowsInv, ImplIInv, TypeOK
        <4>g. QED
          BY <4>d, <4>e, <4>f
      <3>2. CASE ~hook[p]
        BY <1>1, <2>0, <3>2 DEF LoadFragment, RowsInv, ImplIInv, TypeOK
      <3>3. QED
        BY <3>1, <3>2
    <2>5. QED
      BY <1>0, <2>1, <2>2, <2>3, <2>4 DEF ImplIInv
  <1>2. ASSUME NEW p \in Pages, LoadManifest(p) PROVE ImplIInv'
    <2>1. /\ PageManifest[p] \in Manifests
          /\ ran' = [ran EXCEPT ![p] = ran[p] \cup {PageManifest[p]}]
          /\ UNCHANGED <<hook, pending, rows>>
      BY <1>2 DEF LoadManifest
    <2>2. QED
      BY <1>0, <2>1
      DEF ImplIInv, HookInv, RanInv, PendingInv, RowsInv, TypeOK
  <1>3. ASSUME NEW p \in Pages, LoadRuntime(p) PROVE ImplIInv'
    <2>0. /\ Runtime \notin ran[p]
          /\ ~hook[p]
          /\ ran' = [ran EXCEPT ![p] = ran[p] \cup {Runtime}]
          /\ hook' = [hook EXCEPT ![p] = TRUE]
          /\ pending' = pending
      BY <1>3 DEF LoadRuntime, HookInv, ImplIInv, TypeOK
    <2>1. HookInv'
      BY <2>0 DEF HookInv, ImplIInv, TypeOK
    <2>2. RanInv'
      BY <2>0 DEF RanInv, ImplIInv, TypeOK
    <2>3. PendingInv'
      BY <2>0 DEF PendingInv, ImplIInv, TypeOK
    <2>4. RowsInv'
      <3>1. CASE pending[p] # NoTable
        <4>a. rows' = [rows EXCEPT ![p] =
                 [e \in Entries |->
                    IF e \in ExternEntries(pending[p]) THEN rows[p][e] + 1
                                                       ELSE rows[p][e]]]
          BY <1>3, <3>1 DEF LoadRuntime, RegisterImplementors
        <4>b. pending[p] \in ran[p] \cap Fragments
          BY <3>1 DEF PendingInv, ImplIInv, TypeOK
        <4>c. \A g \in ran[p] \cap Fragments : g = pending[p]
          BY <2>0 DEF PendingInv, ImplIInv
        <4>d. \A g \in Fragments : \A e \in ExternEntries(g) : rows[p][e] = 0
          BY <2>0 DEF RowsInv, ImplIInv
        <4>e. \A g \in Fragments \ {pending[p]} : \A e \in ExternEntries(g) :
                e \notin ExternEntries(pending[p])
          BY EntryOwner
        <4>f. QED
          BY <2>0, <4>a, <4>b, <4>c, <4>d, <4>e, EntriesOfFragment
          DEF RowsInv, ImplIInv, TypeOK
      <3>2. CASE pending[p] = NoTable
        <4>a. rows' = rows
          BY <1>3, <3>2 DEF LoadRuntime
        <4>b. ran[p] \cap Fragments = {}
          BY <2>0, <3>2 DEF PendingInv, ImplIInv, TypeOK, NoTable, Fragments,
             DefaultIsZeroes, DigestVerifier, FusedIterator
        <4>c. QED
          BY <2>0, <4>a, <4>b DEF RowsInv, ImplIInv, TypeOK
      <3>3. QED
        BY <3>1, <3>2
    <2>5. QED
      BY <1>0, <2>1, <2>2, <2>3, <2>4 DEF ImplIInv
  <1>4. CASE UNCHANGED vars
    BY <1>4 DEF vars, ImplIInv, HookInv, RanInv, PendingInv, RowsInv, TypeOK
  <1>5. QED
    BY <1>1, <1>2, <1>3, <1>4 DEF Next

\* On pages with one implementor fragment each -- the pages rustdoc writes --
\* once main.js has run every impl of the fragment is listed exactly once,
\* whichever of the async fragment and the deferred main.js runs first.
THEOREM ImplementorsShownOnceHolds ==
    ASSUME SingleFragmentPerPage
    PROVE  Spec => []ImplementorsShownOnce
  <1>1. ImplIInv => ImplementorsShownOnce
    BY DEF ImplIInv, HookInv, RowsInv, ImplementorsShownOnce
  <1>2. QED
    BY <1>1, ImplInit, ImplStep, PTL DEF Spec

-----------------------------------------------------------------------------
(* The sidebar.  SidebarShown is not inductive either: it needs that      *)
(* window.SIDEBAR_ITEMS already holds the manifest's items when main.js   *)
(* runs, which holds because the manifest precedes main.js among the      *)
(* deferred scripts.                                                       *)

\* window.SIDEBAR_ITEMS holds the page's manifest once that has run, and
\* main.js has run only after the deferred scripts before it.
SidebarInv ==
    \A p \in Pages :
        /\ PageManifest[p] \in ran[p] =>
              sidebarItems[p] = SidebarItems(PageManifest[p])
        /\ Runtime \in ran[p] => DeferredBefore(p) \subseteq ran[p]

SidebarIInv == TypeOK /\ SidebarInv /\ SidebarShown

\* Every step keeps the sidebar invariant.
LEMMA SidebarStep == SidebarIInv /\ [Next]_vars => SidebarIInv'
  <1> SUFFICES ASSUME SidebarIInv, [Next]_vars PROVE SidebarIInv'
    OBVIOUS
  <1> USE ScriptNamesDistinct
  <1>0. TypeOK'
    BY TypeStep DEF SidebarIInv
  <1>1. ASSUME NEW p \in Pages, NEW f \in Fragments, LoadFragment(p, f)
        PROVE  (SidebarInv /\ SidebarShown)'
    <2>1. /\ ran' = [ran EXCEPT ![p] = ran[p] \cup {f}]
          /\ UNCHANGED <<sidebarItems, sidebarShown>>
      BY <1>1 DEF LoadFragment
    <2>2. f # PageManifest[p]
      BY PageAssumption DEF NoManifest, Fragments, DefaultIsZeroes,
         DigestVerifier, FusedIterator
    <2>3. QED
      BY <2>1, <2>2 DEF SidebarInv, SidebarShown, SidebarIInv, TypeOK,
         DeferredBefore
  <1>2. ASSUME NEW p \in Pages, LoadManifest(p)
        PROVE  (SidebarInv /\ SidebarShown)'
    <2>1. /\ PageManifest[p] \in Manifests \ ran[p]
          /\ ran' = [ran EXCEPT ![p] = ran[p] \cup {PageManifest[p]}]
          /\ sidebarItems' = [sidebarItems EXCEPT ![p] =
                                 SidebarItems(PageManifest[p])]
          /\ UNCHANGED sidebarShown
      BY <1>2 DEF LoadManifest
    <2>2. Runtime \notin ran[p]
      BY <2>1 DEF SidebarInv, SidebarIInv, DeferredBefore, NoManifest,
         Manifests, ProstTypes, SerdeJsonWasmDe, OsmosisTwap, CosmosStaking
    <2>3. QED
      BY <2>1, <2>2 DEF SidebarInv, SidebarShown, SidebarIInv, TypeOK,
         DeferredBefore
  <1>3. ASSUME NEW p \in Pages, LoadRuntime(p)
        PROVE  (SidebarInv /\ SidebarShown)'
    <2>1. /\ DeferredBefore(p) \subseteq ran[p]
          /\ ran' = [ran EXCEPT ![p] = ran[p] \cup {Runtime}]
          /\ sidebarShown' = [sidebarShown EXCEPT ![p] = sidebarItems[p]]
          /\ UNCHANGED sidebarItems
      BY <1>3 DEF LoadRuntime
    <2>2. PageManifest[p] # NoManifest =>
            sidebarItems[p] = SidebarItems(PageManifest[p])
      BY <2>1 DEF DeferredBefore, SidebarInv, SidebarIInv
    <2>3. PageManifest[p] # Runtime
      BY PageAssumption DEF NoManifest, Runtime
    <2>4. SidebarInv'
      BY <2>1, <2>3 DEF SidebarInv, SidebarIInv, TypeOK, DeferredBefore
    <2>5. SidebarShown'
      BY <2>1, <2>2 DEF SidebarShown, SidebarIInv, TypeOK
    <2>6. QED
      BY <2>4, <2>5
  <1>4. CASE UNCHANGED vars
    BY <1>0, <1>4 DEF vars, SidebarIInv, SidebarInv, SidebarShown, DeferredBefore
  <1>5. QED
    BY <1>0, <1>1, <1>2, <1>3, <1>4 DEF Next, SidebarIInv

\* On every page, once main.js has run, its sidebar was built from the
\* page's manifest: the deferred sidebar-items.js always sets
\* window.SIDEBAR_ITEMS before main.js reads it.
THEOREM SidebarShownHolds == Spec => []SidebarShown
  <1>1. Init => SidebarIInv
    BY DEF Init, SidebarIInv, SidebarInv, SidebarShown, TypeOK, ItemsValues
  <1>2. SidebarIInv => SidebarShown
    BY DEF SidebarIInv
  <1>3. QED
    BY <1>1, <1>2, SidebarStep, PTL DEF Spec
==============================================================================
