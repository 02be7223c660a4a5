------------------------------ MODULE MCMediaIO ------------------------------
(***************************************************************************)
(* The media cache and the image stream, which share nothing: a run looks  *)
(* at one or the other, and one configuration checks both.                 *)
(***************************************************************************)
EXTENDS MediaCache, ImageStream

CONSTANTS i1, i2, v1

VARIABLE part

Sizes == [s \in Saves |-> IF s = i1 THEN 1 ELSE 2]

Init == part \in {"cache", "stream"} /\ CacheInit /\ StreamInit

Next ==
  \/ part = "cache" /\ CacheNext /\ UNCHANGED <<imageVars, part>>
  \/ part = "stream" /\ StreamNext /\ UNCHANGED <<cacheVars, part>>

allVars == <<cacheVars, imageVars, part>>

Spec == Init /\ [][Next]_allVars /\ CacheFairness
             /\ (part = "stream" => StreamFairness)

(* The shape of both, the cache's count of its bytes, and what it takes    *)
(* for a late timer function to end the process.                           *)
MediaIOInv == CacheTypeOK /\ StreamTypeOK /\ CountMatchesDisk /\ PanicNeedsEndedStream

StreamAnswers == part = "stream" => GenerationAnswered
=============================================================================
