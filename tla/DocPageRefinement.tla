--------------------------- MODULE DocPageRefinement ---------------------------
(***************************************************************************)
(* DocPage as an implementation of DocPageListing.  A page is rendered    *)
(* when main.js has defined window.register_implementors.  A table is     *)
(* listed when some impl row of it is in the page's list.  The sidebar is *)
(* what main.js built it from.                                             *)
(***************************************************************************)
EXTENDS DocPage

\* The tables that have a row in page p's implementor list.
Listed(p) ==
    {f \in Fragments : \E e \in ExternEntries(f) : rows[p][e] # 0}

\* The items page p's sidebar should show: its manifest's, if it has one.
ManifestItems ==
    [p \in Pages |-> IF PageManifest[p] = NoManifest THEN NoItems
                                                     ELSE SidebarItems(PageManifest[p])]

Listing == INSTANCE DocPageListing
    WITH built <- hook,
         listed <- [p \in Pages |-> Listed(p)],
         sidebar <- sidebarShown,
         PageSidebar <- ManifestItems

\* The loading protocol implements the page's promise: main.js renders each
\* page once with its own manifest's sidebar; it and the fragment's hook
\* call list only tables of the page; and a listed table is never removed.
ListingRefined == Listing!Spec
==============================================================================
