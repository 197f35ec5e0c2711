-------------------------- MODULE SidebarManifests ---------------------------
(***************************************************************************)
(* The data of the four sidebar manifests, src/doc/**/sidebar-items.js.   *)
(* Each is the single statement                                            *)
(*                                                                         *)
(*    window.SIDEBAR_ITEMS = { "<kind>": [[<name>, <summary>], ...], ... } *)
(*                                                                         *)
(* The names and summaries are abstracted away: the manifest is kept as   *)
(* the number of items of each kind.                                       *)
(***************************************************************************)
EXTENDS Naturals

\* prost_types/sidebar-items.js, line 1.
ProstTypesItems == [enum |-> 4, mod |-> 12, struct |-> 37]

\* serde_json_wasm/de/sidebar-items.js, line 1.
SerdeJsonWasmDeItems == [enum |-> 1, fn |-> 2, struct |-> 1, type |-> 1]

\* osmosis_std/types/osmosis/twap/v1beta1/sidebar-items.js, line 1.
OsmosisTwapItems == [struct |-> 10]

\* osmosis_std/types/cosmos/staking/v1beta1/sidebar-items.js, line 1.
CosmosStakingItems == [enum |-> 1, struct |-> 19]

\* The manifest scripts, named by their paths.
ProstTypes     == "prost_types/sidebar-items.js"
SerdeJsonWasmDe == "serde_json_wasm/de/sidebar-items.js"
OsmosisTwap    == "osmosis_std/types/osmosis/twap/v1beta1/sidebar-items.js"
CosmosStaking  == "osmosis_std/types/cosmos/staking/v1beta1/sidebar-items.js"

Manifests == {ProstTypes, SerdeJsonWasmDe, OsmosisTwap, CosmosStaking}

\* The object a manifest assigns to window.SIDEBAR_ITEMS.
SidebarItems(m) ==
    CASE m = ProstTypes      -> ProstTypesItems
      [] m = SerdeJsonWasmDe -> SerdeJsonWasmDeItems
      [] m = OsmosisTwap     -> OsmosisTwapItems
      [] m = CosmosStaking   -> CosmosStakingItems
==============================================================================
