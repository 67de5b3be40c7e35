---------------------------- MODULE BridgeAdmin ----------------------------
(***************************************************************************)
(* The entries of the administrator and of the recorder delegates: the     *)
(* asset registry, the deoperator configuration, the recorded roots, the   *)
(* legacy pause, the eviction of stale deposit rows; and the environment   *)
(* those entries see (the clock and the CA framework's allow-list).        *)
(***************************************************************************)
EXTENDS BridgeState

\* asset_id_fr_in_use.
AssetIdInUse(id) ==
    \E i \in 1 .. Len(asset_list) : by_asset[asset_list[i]].asset_id = id

\* register_asset_metadata_v4: append-only, with an asset_id no registered
\* asset has.
RegisterAsset(asset) ==
    /\ ~Registered(asset)
    /\ ~AssetIdInUse(AssetIdOf[asset])
    /\ by_asset' = Put(by_asset, asset,
                       [asset_id |-> AssetIdOf[asset], status |-> "DORMANT",
                        vault_ek |-> None, deposit_count |-> 0])
    /\ asset_list' = Append(asset_list, asset)
    /\ UNCHANGED <<coreVars, depositVars, cacheVars, finalizations, rootVars,
                   controlVars>>

\* activate_asset_ca_v4: only a DORMANT row, only with the configured key,
\* and only once register_raw accepts the asset.
ActivateAsset(asset, ek) ==
    /\ ek = config.vault_ek
    /\ Registered(asset)
    /\ by_asset[asset].status = "DORMANT"
    /\ asset \in allow_listed
    /\ by_asset' = [by_asset EXCEPT ![asset].vault_ek = ek,
                                    ![asset].status = "ACTIVE"]
    /\ UNCHANGED <<asset_list, coreVars, depositVars, cacheVars, finalizations,
                   rootVars, controlVars>>

\* rotate_deoperator_config_v2: authorised by the legacy BridgeVault; the
\* administrator's arguments replace every field.  A registry row keeps the
\* key it was activated with.
RotateConfig(epoch, ek) ==
    /\ HasBridgeVault
    /\ config' = [epoch |-> epoch, vault_ek |-> ek]
    /\ UNCHANGED <<coreVars, registryVars, depositVars, cacheVars,
                   finalizations, rootVars, legacy_paused, allow_listed, now>>

\* pause_v2 and unpause_v2: they set the legacy vault's flag.
SetLegacyPause(paused) ==
    /\ HasBridgeVault
    /\ legacy_paused # paused
    /\ legacy_paused' = paused
    /\ UNCHANGED <<coreVars, registryVars, depositVars, cacheVars,
                   finalizations, rootVars, config, allow_listed, now>>

\* record_known_root_v4 and its _via_delegate twin: an idempotent add.  The
\* recorder computes the root of a prefix of the leaves it has observed.
RecordKnownRoot(root) ==
    /\ root <= Len(leaf_log)
    /\ known_roots' = known_roots \cup {root}
    /\ UNCHANGED <<asp_sets, coreVars, registryVars, depositVars, cacheVars,
                   finalizations, controlVars>>

\* record_asp_root_via_delegate: append-only.
RecordAspRoot(set) ==
    /\ Len(asp_sets) < MaxAspSets
    /\ asp_sets' = Append(asp_sets, set)
    /\ UNCHANGED <<known_roots, coreVars, registryVars, depositVars, cacheVars,
                   finalizations, controlVars>>

\* The rows a caller names that nobody can settle any more.
StaleDeposits(keys) ==
    {k \in keys \cap DOMAIN deposit_finalizations :
        deposit_finalizations[k].expiry < now}

\* admin_evict_stale_pending_deposit_finalizations_v2: authorised by the
\* legacy BridgeVault; rows that have not expired stay.
EvictStaleDeposits(keys) ==
    /\ HasBridgeVault
    /\ StaleDeposits(keys) # {}
    /\ deposit_finalizations' =
           [k \in DOMAIN deposit_finalizations \ StaleDeposits(keys) |->
                deposit_finalizations[k]]
    /\ UNCHANGED <<used_deposit_nonces, deposit_sender, deposit_bindings,
                   coreVars, registryVars, cacheVars, finalizations, rootVars,
                   controlVars>>

\* The chain's clock.
Tick ==
    /\ now < MaxTime
    /\ now' = now + 1
    /\ UNCHANGED <<coreVars, registryVars, depositVars, cacheVars,
                   finalizations, rootVars, config, legacy_paused,
                   allow_listed>>

\* Aptos governance lists an asset for confidential transfers or de-lists it.
SetAllowListed(asset) ==
    /\ asset \in Governed
    /\ allow_listed' = IF asset \in allow_listed
                       THEN allow_listed \ {asset}
                       ELSE allow_listed \cup {asset}
    /\ UNCHANGED <<coreVars, registryVars, depositVars, cacheVars,
                   finalizations, rootVars, config, legacy_paused, now>>
=============================================================================
