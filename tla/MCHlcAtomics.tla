---------------------------- MODULE MCHlcAtomics ----------------------------
(* HlcAtomics on a small instance: the generator of device 2, receiving    *)
(* from devices with smaller and larger ids, behind and ahead of its clock.*)
EXTENDS HlcAtomics

MCIncoming == {Stamp(1, 1, 1), Stamp(2, 0, 3)}

=============================================================================
