# TLA+ models of the generated documentation scripts

## The system

The repository's source files (`src/doc/...`) are seven generated rustdoc
scripts. They hold no algorithm. Their only behaviour is how they hand their
data to the documentation runtime (`main.js`) while a page loads.

| Component | Files | State it touches | Operation |
|---|---|---|---|
| Implementor fragments | `implementors/zeroize/trait.DefaultIsZeroes.js`, `implementors/signature/verifier/trait.DigestVerifier.js`, `implementors/core/iter/traits/marker/trait.FusedIterator.js` | `window.register_implementors` (read), `window.pending_implementors` (written) | an IIFE that builds the table `implementors` (crate → list of impl blocks of one trait) and then either calls `window.register_implementors(implementors)`, if the runtime has defined it, or stores the table in `window.pending_implementors` |
| Sidebar manifests | `prost_types/`, `serde_json_wasm/de/`, `osmosis_std/types/osmosis/twap/v1beta1/`, `osmosis_std/types/cosmos/staking/v1beta1/` `sidebar-items.js` | `window.SIDEBAR_ITEMS` (written) | one assignment of the item table (kind → list of name/summary pairs) |
| Runtime `main.js` and the page template | not among the source files; modelled from the spec (`spec_modelled` in the map) | defines `window.register_implementors`; reads `window.pending_implementors` and `window.SIDEBAR_ITEMS` once | defines the hook, registers a buffered table, builds the sidebar |
| Impl and item markup | the strings inside all seven tables | none | not modelled: rendering data with no behaviour |

How they interact. A trait's page includes its implementor fragment
*async*, and includes its module's sidebar manifest and then `main.js`, both
*defer*. Deferred scripts run in document order. An async script runs
whenever it arrives, before or after either deferred script. The browser runs
one script at a time and runs each to completion. So the fragment's test of
`window.register_implementors` and its write to the buffer cannot be split by
`main.js`. The two sides meet only through globals of the page's window. There
are two handshakes:

* **Implementors**: a hook plus a one-slot buffer. If the fragment runs
  first, it buffers its table and `main.js` drains the buffer when it defines
  the hook. If `main.js` runs first, the fragment calls the hook.
* **Sidebar**: no hook. `main.js` reads `window.SIDEBAR_ITEMS` once, so the
  manifest must run before it. Only the order of the deferred scripts
  guarantees that.

What is hard. Nothing is concurrent inside one script, but script order is
not fixed: the async fragment may run at any point relative to the deferred
scripts. The hazards (`PROJECT.json`, `hazards`) are:

* the fragment/runtime interleaving (exactly one registration in both orders);
* the sidebar's reliance on script order.

`window.pending_implementors` holds one table. That is enough because
rustdoc writes exactly one implementor fragment into a trait's page. This is
an assumption about the generator (`SingleFragmentPerPage` in the proofs),
not a hazard of this code.

Nothing is persisted, nothing is retried, and there are no messages to lose.

Properties that make it correct:

* each trait page lists every external impl exactly once (`ImplementorsShownOnce`);
* each page eventually lists them all (`ImplementorsEventuallyShown`);
* the sidebar is built from the page's own manifest (`SidebarShown`);
* together, the page keeps its promise to the reader (`DocPageListing`): it is
  rendered once with its own sidebar, lists only its own tables, never
  removes one (`ListingRefined`).

## Modules

| Module | Models |
|---|---|
| `ImplementorTables` | The three fragment tables. Each crate's list is kept as its length: `DefaultIsZeroesTable` is `[crypto_bigint ↦ 2, elliptic_curve ↦ 1, k256 ↦ 3, zeroize ↦ 0]`. The i-th impl of crate c in fragment f is the row `<<f, c, i>>`. `ExternEntries(f)` is the set of rows `register_implementors` adds. It skips the page's own crate (`TraitCrate(f)`, i.e. `window.currentCrate`), whose impls are already in the page's static HTML. |
| `SidebarManifests` | The four manifests, each as a record kind → number of items. |
| `DocPage` | The page-loading protocol. Variables, per page: `ran` (scripts run), `hook` (`window.register_implementors` defined), `pending` (`window.pending_implementors`), `sidebarItems` (`window.SIDEBAR_ITEMS`), `sidebarShown` (what the sidebar was built from), `rows[p][e]` (how many times impl row e is in the list). Actions: `LoadFragment(p, f)` is the fragment's last line, both branches. `LoadManifest(p)` is the manifest's one statement. `LoadRuntime(p)` is `main.js`: it defines the hook, drains the buffer through `RegisterImplementors`, and builds the sidebar. Its guard `DeferredBefore(p) ⊆ ran[p]` is the template's defer order. |
| `DocPageListing` | The abstract specification: what a page promises its reader, with no scripts, hook or buffer. Per page: `built` (rendered), `listed` (the implementor tables listed), `sidebar`. `Build(p)` renders the page once: its sidebar gets the page's items, and some of its own tables (those at hand) are listed. `List(p, f)` lists one more of the page's own tables, after rendering. `OwnTables` is the state predicate "a page lists only its own tables, and nothing while unrendered". |
| `DocPageRefinement` | The refinement mapping `Listing == INSTANCE DocPageListing WITH built <- hook, listed <- [p ↦ Listed(p)], sidebar <- sidebarShown, PageSidebar <- ManifestItems`. `Listed(p)` is the set of fragments that have a row in page p's list. `ManifestItems[p]` is the page's manifest's items, or the empty sidebar. `ListingRefined == Listing!Spec`. The abstract specification has no liveness of its own. Under this mapping "every table eventually listed" would say what `ImplementorsEventuallyShown` says, because a table's rows are registered all at once. |
| `MCDocPage` | TLC instance (it extends `DocPageRefinement`). Five pages are open at once, one window each: the three trait pages, each with its own fragment and one manifest; a module page with a manifest only; and a crate root page with neither. `MCTwoFragmentPages` puts two fragments on the zeroize page. |
| `DocPageProofs` | TLAPS proofs of the invariants. |
| `DocPageRefinementProofs` | TLAPS proof of the refinement. |

The module variants `LoadFragmentAlwaysBuffers`, `LoadFragmentAlwaysCallsHook`,
`LoadManifestMisnamedGlobal`, `LoadRuntimeNullsBuffer` and `LoadFragmentRerun` (the page includes the fragment twice) are plausible bugs. The
project's mutant runs use them to show that each property can fail.

## Runs

* `page_load` (`MCDocPage.cfg`, pass, 2058 distinct states). It checks
  `TypeOK`, `ImplementorsShownOnce`, `SidebarShown`,
  `ImplementorsEventuallyShown`, the refinement `ListingRefined`, and the action property `RowsAddedOnce` (every
  step changes a row only from 0 to 1), under `FairSpec`. Every interleaving of the
  scripts of five pages is explored, so on each trait page the fragment runs
  before the manifest, between the manifest and `main.js`, and after `main.js`.
  Both branches of the fragment's `if` and of `main.js`'s test of the buffer
  are taken. One fragment per page is what rustdoc emits. More pages or
  fragments would only repeat these orders. `CHECK_DEADLOCK FALSE`: a page that
  has run all its scripts really stops.
* `two_fragments_safety` (`MCDocPageTwoFragmentsSafety.cfg`, pass, 5880
  distinct states). It checks `ListingRefined` and `RowsAddedOnce` under
  `Spec` on an instance where the zeroize page includes two fragments. This
  is a layout rustdoc does not produce. The run shows that the safety
  properties, which are also proved for any number of fragments, do not
  depend on the one-fragment layout: nothing is listed that the page does
  not include, nothing listed is removed, the sidebar is the page's own, and
  no table is registered twice. Which tables get listed does depend on the
  layout, and no property here is claimed for such pages.

Fairness. `FairSpec` has weak fairness on every script load of every page.
The browser eventually executes every script a page includes, assuming the
script is fetched. That assumption is the only one behind
`ImplementorsEventuallyShown`.

## Proofs (`DocPageProofs`, `DocPageRefinementProofs`, `DocPageListing`; all checked by `tlapm`)

* `TypeCorrect`: `Spec => []TypeOK`, through the step lemma `TypeStep`.
* `ImplementorsShownOnceHolds`: assuming `SingleFragmentPerPage`, we have
  `Spec => []ImplementorsShownOnce`. The property is not inductive, because it
  says nothing before `main.js` runs. The strengthening `ImplIInv` adds:
  * `HookInv`: the hook is defined iff `main.js` has run;
  * `RanInv`: the fragments that ran belong to the page;
  * `PendingInv`: a buffered table is one that ran, and before `main.js` every
    fragment that ran is the buffered one. This uses the one-fragment
    assumption;
  * `RowsInv`: the exact row counts at every moment.

  The lemmas it rests on are `EntryOwner` (a row names its fragment, so
  registering one fragment leaves the others' rows alone) and
  `ScriptNamesDistinct`.
* `SidebarShownHolds`: `Spec => []SidebarShown`, for every page and no
  hypothesis. The strengthening `SidebarInv` says two things: once the manifest
  has run, `window.SIDEBAR_ITEMS` holds its items; and `main.js` has run only
  after the deferred scripts before it.

* `Refinement` (`DocPageRefinementProofs`): `Spec => ListingRefined`, i.e.
  `DocPage` implements `DocPageListing`, for any number of fragments per
  page. The proof follows the usual layout. `RefinementInit` shows that
  `Init` maps to `Listing!Init`. `RefinementStep` shows that under
  `RefIInv /\ RefIInv'` every step maps to a step or a stutter:
  * `LoadFragment` is `List` when the hook is defined and the table has
    rows, and a stutter otherwise;
  * `LoadManifest` is a stutter;
  * `LoadRuntime` is `Build`.

  The invariant `RefIInv` is `SidebarIInv` plus `HookInv` and `RanInv`, and
  these facts:
  * `PendingRan`: the buffered table is one that ran;
  * `QuietInv`: a row is in the list only if its fragment and `main.js` have
    both run. This gives that a freshly loaded fragment is not yet listed,
    and that nothing is listed before `Build`;
  * `ItemsInv`: a page without a manifest never sets `SIDEBAR_ITEMS`;
  * `ShownInv`: the sidebar is empty before `main.js`.

  `RegisterEntry` is the lemma that registering a fragment changes only its
  own rows. `QuietInv` replaces the exact counts of `RowsInv`, so this
  proof, unlike `ImplementorsShownOnceHolds`, needs no one-fragment
  hypothesis.
* `RowsAddedOnceHolds` (`DocPageRefinementProofs`): `Spec => RowsAddedOnce`,
  for any number of fragments per page. The same invariant `RefIInv`
  carries it. `QuietInv` says that a fragment's rows are all 0 until both
  it and `main.js` have run. So when the fragment calls the hook (it has not
  run before) or `main.js` drains the buffer (nothing is listed before
  `main.js`), the table being registered has only zero rows. The lemma
  `RegisterFromZero` then says the step takes each of them to 1 and leaves
  every other row alone.
* `ListsOwnTablesOnly` (`DocPageRefinementProofs`): `Spec =>
  []Listing!OwnTables`, for any number of fragments per page. It is the
  abstract predicate `OwnTables` read through the mapping, so it is a
  statement about the implementation's own state. On every page only
  tables the page includes have rows in its list, and before `main.js` has
  run nothing is listed and the sidebar is empty. It follows from `RefIInv`:
  `QuietInv` and `RanInv` give the first part, and `QuietInv` and `ShownInv`
  give the second.

These hold for every set of pages and every assignment of fragments and
manifests satisfying `PageAssumption`. The following stay with TLC only:

* `ImplementorsEventuallyShown`: liveness under fairness is out of reach of
  the prover.

Every invariant and action property that a passing run checks is now also
stated by a theorem: `TypeOK`, `ImplementorsShownOnce` (for one fragment per
page, the layout rustdoc produces), `SidebarShown`,
`ListingRefined` and `RowsAddedOnce`.

## Not modelled

* The markup of impls and sidebar items. It is inert data; only row identity
  and counts matter.
* The rest of `main.js`: DOM construction, anchors, search, settings and
  themes. It is not part of the source files, and the spec gives no behaviour
  for it.
* `window.currentCrate` and the `data-ignore-extern-crates` filter. Only the
  current-crate skip is modelled.

## Plan

1. (done) `ImplementorTables`, `SidebarManifests`, `DocPage`: the handshakes
   with both script orders; run `page_load`.
2. (done) Proofs of `TypeOK`, `ImplementorsShownOnce` and `SidebarShown`.
3. (done) The abstract specification `DocPageListing` and the refinement.
   The mapping reads the listed tables from the rows, not from the scripts
   that ran, so the safety part holds and is proved with no one-fragment
   hypothesis. "A listed table is never removed" is part of `ListingRefined`.
4. Not done: a reload action. Reloading a page gives it a fresh window, which
   is the page's `Init` again. Model values for pages already cover the
   windows one after another, so the action would add no new order.
5. Later: the `data-ignore-extern-crates` filter and the row-id numbering of
   `register_implementors`, if a source for `main.js` becomes part of the
   repository.
