----------------------------- MODULE MCDocPage ------------------------------
(***************************************************************************)
(* Five pages open at once: the pages of the three traits whose fragments *)
(* are in the repository, each with one of the sidebar manifests, a       *)
(* module page that has a manifest and no fragment, and a crate root page *)
(* that has neither (rustdoc gives it crates.js instead of a manifest).    *)
(***************************************************************************)
EXTENDS DocPageRefinement

CONSTANTS zeroizePage, signaturePage, corePage, stakingPage, cratePage

MCPages == {zeroizePage, signaturePage, corePage, stakingPage, cratePage}

\* rustdoc writes one fragment script into the page of each trait.
MCPageFragments ==
    [p \in MCPages |->
        CASE p = zeroizePage   -> {DefaultIsZeroes}
          [] p = signaturePage -> {DigestVerifier}
          [] p = corePage      -> {FusedIterator}
          [] p = stakingPage   -> {}
          [] p = cratePage     -> {}]

MCPageManifest ==
    [p \in MCPages |->
        CASE p = zeroizePage   -> ProstTypes
          [] p = signaturePage -> SerdeJsonWasmDe
          [] p = corePage      -> OsmosisTwap
          [] p = stakingPage   -> CosmosStaking
          [] p = cratePage     -> NoManifest]

\* A page that includes two fragments (not emitted by rustdoc for one trait,
\* but what a page that pulls in two trait listings would do).
MCTwoFragmentPages ==
    [p \in MCPages |->
        CASE p = zeroizePage   -> {DefaultIsZeroes, DigestVerifier}
          [] p = signaturePage -> {DigestVerifier}
          [] p = corePage      -> {FusedIterator}
          [] p = stakingPage   -> {}
          [] p = cratePage     -> {}]
==============================================================================
