---------------------------- MODULE MCSyncRollout ----------------------------
(***************************************************************************)
(* Small instances of SyncRollout: a batch of one group out of two that    *)
(* run, two samples each.                                                  *)
(***************************************************************************)
EXTENDS SyncRollout

MCModes == {m \in [partial : BOOLEAN, mask : BOOLEAN, groupRm : BOOLEAN] :
                m.mask => m.partial}
=============================================================================
