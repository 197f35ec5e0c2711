\* Five pages: three trait pages with the one fragment rustdoc writes into each,
\* a module page and a crate root page.
CONSTANTS
    zeroizePage = zeroizePage
    signaturePage = signaturePage
    corePage = corePage
    stakingPage = stakingPage
    cratePage = cratePage
    Pages <- MCPages
    PageFragments <- MCPageFragments
    PageManifest <- MCPageManifest
SPECIFICATION FairSpec
INVARIANTS
    TypeOK
    ImplementorsShownOnce
    
PROPERTIES
    ImplementorsEventuallyShown
    ListingRefined
    RowsAddedOnce
\* A page has run all its scripts once; nothing runs after that.
CHECK_DEADLOCK FALSE
