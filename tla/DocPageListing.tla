---------------------------- MODULE DocPageListing ----------------------------
(***************************************************************************)
(* What a documentation page promises its reader, with no scripts, hooks  *)
(* or buffers: each page is rendered once, which builds its sidebar from  *)
(* its own module's items and may already list some of its trait's        *)
(* implementor tables.  After that, each table the page includes is       *)
(* listed when it arrives, and a listed table stays listed.  Nothing is   *)
(* listed on a page that has not been rendered, and nothing from another  *)
(* page is listed.                                                         *)
(***************************************************************************)
CONSTANTS
    Pages,          \* the open pages
    PageFragments,  \* PageFragments[p]: the implementor tables page p includes
    PageSidebar,    \* PageSidebar[p]: the items page p's sidebar shows
    NoItems         \* the empty sidebar

VARIABLES
    built,   \* built[p]: page p has been rendered
    listed,  \* listed[p]: the tables whose impls page p lists
    sidebar  \* sidebar[p]: the items page p's sidebar shows

absvars == <<built, listed, sidebar>>

Init ==
    /\ built = [p \in Pages |-> FALSE]
    /\ listed = [p \in Pages |-> {}]
    /\ sidebar = [p \in Pages |-> NoItems]

\* The page is rendered: its sidebar gets its own items, and some of its
\* tables, those already at hand, are listed.
Build(p) ==
    /\ ~built[p]
    /\ built' = [built EXCEPT ![p] = TRUE]
    /\ sidebar' = [sidebar EXCEPT ![p] = PageSidebar[p]]
    /\ \E S \in SUBSET PageFragments[p] : listed' = [listed EXCEPT ![p] = S]

\* One more of the page's tables is listed, after rendering.
List(p, f) ==
    /\ built[p]
    /\ f \in PageFragments[p] \ listed[p]
    /\ listed' = [listed EXCEPT ![p] = @ \cup {f}]
    /\ UNCHANGED <<built, sidebar>>

Next ==
    \E p \in Pages :
        \/ Build(p)
        \/ \E f \in PageFragments[p] : List(p, f)

Spec == Init /\ [][Next]_absvars

-----------------------------------------------------------------------------
\* Each page lists only tables it includes, and before it is rendered it
\* lists nothing and its sidebar is empty.
OwnTables ==
    \A p \in Pages :
        /\ listed[p] \subseteq PageFragments[p]
        /\ ~built[p] => listed[p] = {} /\ sidebar[p] = NoItems

==============================================================================
