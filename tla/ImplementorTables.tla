-------------------------- MODULE ImplementorTables --------------------------
(***************************************************************************)
(* The data of the three implementor fragments under                      *)
(* src/doc/implementors/.  Each fragment is a literal                      *)
(*                                                                         *)
(*    var implementors = { "<crate>": [ [<impl markup>], ... ], ... }      *)
(*                                                                         *)
(* listing, per crate, the impl blocks of one trait.  The markup of an     *)
(* impl is abstracted away: a crate's list is kept as its length, and the  *)
(* i-th impl of crate c in the fragment of trait f is the row <<f, c, i>>. *)
(* The fragment is named by its path, which is also the name of the        *)
(* script that the trait's page includes.                                  *)
(***************************************************************************)
EXTENDS Naturals

\* implementors/zeroize/trait.DefaultIsZeroes.js, lines 1-5.
DefaultIsZeroesTable ==
    [crypto_bigint |-> 2, elliptic_curve |-> 1, k256 |-> 3, zeroize |-> 0]

\* implementors/signature/verifier/trait.DigestVerifier.js, lines 1-3.
DigestVerifierTable ==
    [ecdsa |-> 1, k256 |-> 3]

\* implementors/core/iter/traits/marker/trait.FusedIterator.js, lines 1-7.
FusedIteratorTable ==
    [der |-> 1, either |-> 1, generic_array |-> 1,
     hashbrown |-> 18, itertools |-> 23, serde_json |-> 7]

\* The fragment scripts, named by their paths.
DefaultIsZeroes == "implementors/zeroize/trait.DefaultIsZeroes.js"
DigestVerifier  == "implementors/signature/verifier/trait.DigestVerifier.js"
FusedIterator   == "implementors/core/iter/traits/marker/trait.FusedIterator.js"

Fragments == {DefaultIsZeroes, DigestVerifier, FusedIterator}

\* The table a fragment assigns to its local variable `implementors`.
Table(f) ==
    CASE f = DefaultIsZeroes -> DefaultIsZeroesTable
      [] f = DigestVerifier  -> DigestVerifierTable
      [] f = FusedIterator   -> FusedIteratorTable

\* The crate that defines the trait: its page is the page of that crate,
\* whose own impls are already in the page's static HTML.
TraitCrate(f) ==
    CASE f = DefaultIsZeroes -> "zeroize"
      [] f = DigestVerifier  -> "signature"
      [] f = FusedIterator   -> "core"

\* The rows register_implementors adds for a fragment: every impl of every
\* crate of the table except the page's own crate.
ExternEntries(f) ==
    UNION {{<<f, c, i>> : i \in 1 .. Table(f)[c]} :
               c \in DOMAIN Table(f) \ {TraitCrate(f)}}

\* Every row any fragment can add.
Entries == UNION {ExternEntries(f) : f \in Fragments}
==============================================================================
