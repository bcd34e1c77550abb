----------------------------- MODULE AssetStore -----------------------------
(***************************************************************************)
(* The bucket behind assets/gcs.py and memory.py MemoryAssetStore, as far  *)
(* as output objects go: an upload grant carries ifGenerationMatch=0, so   *)
(* the first content put under a key stays there.                          *)
(***************************************************************************)
EXTENDS Contracts

VARIABLE objects    \* output key -> digest of its content

ObjectsInit == objects = [k \in OutputKeys |-> NoDigest]

\* describe() and read_limited(): what a verification reads.
Stored(k) == objects[k]

\* A second write is answered 412 and changes nothing.
WriteOnce(k, digest) ==
  /\ Stored(k) = NoDigest
  /\ objects' = [objects EXCEPT ![k] = digest]
=============================================================================
