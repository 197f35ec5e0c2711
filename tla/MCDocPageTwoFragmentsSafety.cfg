\* The zeroize page includes two fragments, both of which may run before
\* main.js: the refinement's safety part and the once-only listing of rows
\* still hold, whatever is lost.
CONSTANTS
    zeroizePage = zeroizePage
    signaturePage = signaturePage
    corePage = corePage
    stakingPage = stakingPage
    cratePage = cratePage
    Pages <- MCPages
    PageFragments <- MCTwoFragmentPages
    PageManifest <- MCPageManifest
SPECIFICATION Spec
PROPERTIES
    ListingRefined
    RowsAddedOnce
\* A page has run all its scripts once; nothing runs after that.
CHECK_DEADLOCK FALSE
