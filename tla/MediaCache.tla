------------------------------ MODULE MediaCache ------------------------------
(***************************************************************************)
(* internal/cache: the directory of one media type, the byte count kept of *)
(* it, and cacheVideo (internal/flow/video.go), which streams a download   *)
(* into it through a pipe.                                                 *)
(*                                                                         *)
(* publishFile, the administrator's deletions and reconcile run under      *)
(* s.mu and are one step each; writing the temporary file, reading the     *)
(* limit before it and touching a file on access are outside it.  A pipe   *)
(* has no buffer: a chunk written is a chunk copied.                       *)
(***************************************************************************)
EXTENDS Integers, Sequences, FiniteSets

CONSTANTS
  FileSaves,     \* calls of SaveFile, each named after the file it creates
  StreamSaves,   \* calls of cacheVideo, likewise
  Size,          \* Size[f]: the bytes of the whole file
  Limits,        \* the values the configured limit may take, 0 = unlimited
  Sticky         \* files the operating system refuses to remove

Saves == FileSaves \cup StreamSaves

ASSUME CacheAssumption ==
  /\ FileSaves \cap StreamSaves = {}
  /\ Size \in [Saves -> Nat]
  /\ Limits \subseteq Nat
  /\ Sticky \subseteq Saves

VARIABLES
  files,       \* the files on disk by time of modification, temporary ones too
  total,       \* s.sizeMap[mediaType]
  tmp,         \* the saves whose temporary file is on disk
  save,        \* where each save stands
  got,         \* bytes in the temporary file
  seenLimit,   \* the limit a stream was started with
  download,    \* the download goroutine of a stream
  closed,      \* the read end of the pipe has been closed
  result,      \* what the save returned
  limit,       \* the configured limit
  miscounted   \* history: Clear has left files behind

cacheVars == <<files, total, tmp, save, got, seenLimit, download, closed, result, limit, miscounted>>

CacheTypeOK ==
  /\ files \in Seq(Saves)
  /\ \A i, j \in DOMAIN files : files[i] = files[j] => i = j
  /\ total \in Nat
  /\ tmp = {s \in Saves : save[s] \in {"copy", "publish", "write_failed"}}
  /\ tmp \subseteq {files[i] : i \in DOMAIN files}
  /\ save \in [Saves -> {"idle", "copy", "publish", "join", "done", "write_failed"}]
  /\ got \in [Saves -> Nat] /\ \A s \in Saves : got[s] <= Size[s]
  /\ seenLimit \in [Saves -> Limits]
  /\ download \in [Saves -> {"none", "running", "ok", "failed"}]
  /\ closed \in [Saves -> BOOLEAN]
  /\ result \in [Saves -> {"none", "url", "error"}]
  /\ limit \in Limits
  /\ miscounted \in BOOLEAN

Min0(n) == IF n < 0 THEN 0 ELSE n

(* The files that can be served. *)
OnDisk == {files[i] : i \in DOMAIN files} \ tmp

BytesOf(S) ==
  LET bytes[T \in SUBSET S] ==
        IF T = {} THEN 0
        ELSE LET f == CHOOSE g \in T : TRUE IN Size[f] + bytes[T \ {f}]
  IN  bytes[S]

Without(S) ==
  LET keep[i \in 0..Len(files)] ==
        IF i = 0 THEN <<>>
        ELSE IF files[i] \in S THEN keep[i - 1] ELSE Append(keep[i - 1], files[i])
  IN  keep[Len(files)]

(* Writing to a file, or touching it, makes it the latest modified one. *)
Latest(f) == Append(Without({f}), f)

(* Mutant: the file just published may be evicted too. *)
EvictUnprotected(fs, bytes, protected) ==
  LET target == (limit * 6) \div 10
      scan[i \in 0..Len(fs)] ==
        IF i = 0 THEN [bytes |-> bytes, keep |-> <<>>]
        ELSE IF scan[i - 1].bytes <= target \/ fs[i] \in Sticky
        THEN [scan[i - 1] EXCEPT !.keep = Append(@, fs[i])]
        ELSE [scan[i - 1] EXCEPT !.bytes = @ - Size[fs[i]]]
  IN  IF limit = 0 \/ bytes <= limit THEN [bytes |-> bytes, keep |-> fs]
      ELSE [scan[Len(fs)] EXCEPT !.bytes = Min0(@)]

(* evictLocked: once over the limit, remove least recently used files down *)
(* to 60 % of it, except the protected and temporary ones and those that   *)
(* stay.                                                                   *)
Evict(fs, bytes, protected) ==
  LET target == (limit * 6) \div 10
      scan[i \in 0..Len(fs)] ==
        IF i = 0 THEN [bytes |-> bytes, keep |-> <<>>]
        ELSE IF scan[i - 1].bytes <= target \/ fs[i] \in Sticky \cup protected
        THEN [scan[i - 1] EXCEPT !.keep = Append(@, fs[i])]
        ELSE [scan[i - 1] EXCEPT !.bytes = @ - Size[fs[i]]]
  IN  IF limit = 0 \/ bytes <= limit THEN [bytes |-> bytes, keep |-> fs]
      ELSE [scan[Len(fs)] EXCEPT !.bytes = Min0(@)]

CacheInit ==
  /\ files = <<>>
  /\ total = 0
  /\ tmp = {}
  /\ save = [s \in Saves |-> "idle"]
  /\ got = [s \in Saves |-> 0]
  /\ limit \in Limits
  /\ seenLimit = [s \in Saves |-> limit]
  /\ download = [s \in Saves |-> "none"]
  /\ closed = [s \in Saves |-> FALSE]
  /\ result = [s \in Saves |-> "none"]
  /\ miscounted = FALSE

-----------------------------------------------------------------------------
(* SaveFile up to publishFile: too large, not written (the temporary file  *)
(* stays, for its removal is deferred only afterwards), or written.        *)
WriteFile(s) ==
  /\ s \in FileSaves /\ save[s] = "idle"
  /\ IF limit > 0 /\ Size[s] > limit
     THEN /\ save' = [save EXCEPT ![s] = "done"]
          /\ result' = [result EXCEPT ![s] = "error"]
          /\ UNCHANGED <<files, tmp, got>>
     ELSE /\ tmp' = tmp \cup {s}
          /\ files' = Latest(s)
          /\ \/ /\ save' = [save EXCEPT ![s] = "publish"]
                /\ got' = [got EXCEPT ![s] = Size[s]]
                /\ UNCHANGED result
             \/ /\ save' = [save EXCEPT ![s] = "write_failed"]
                /\ result' = [result EXCEPT ![s] = "error"]
                /\ UNCHANGED got
  /\ UNCHANGED <<total, seenLimit, download, closed, limit, miscounted>>

(* cacheVideo starts the download and SaveStream creates its file and      *)
(* reads the limit.                                                        *)
BeginStream(s) ==
  /\ s \in StreamSaves /\ save[s] = "idle"
  /\ save' = [save EXCEPT ![s] = "copy"]
  /\ tmp' = tmp \cup {s}
  /\ files' = Latest(s)
  /\ seenLimit' = [seenLimit EXCEPT ![s] = limit]
  /\ download' = [download EXCEPT ![s] = "running"]
  /\ UNCHANGED <<total, got, closed, result, limit, miscounted>>

TooLarge(s) == seenLimit[s] > 0 /\ got[s] = seenLimit[s] + 1

Chunk(s) ==
  /\ save[s] = "copy" /\ download[s] = "running"
  /\ got[s] < Size[s] /\ ~TooLarge(s)
  /\ got' = [got EXCEPT ![s] = @ + 1]
  /\ files' = Latest(s)
  /\ UNCHANGED <<total, tmp, save, seenLimit, download, closed, result, limit, miscounted>>

(* The download goroutine ends and closes the write end: all was written,  *)
(* the upstream failed, or the read end was closed under it.               *)
DownloadEnds(s) ==
  /\ download[s] = "running"
  /\ \/ got[s] = Size[s] /\ download' = [download EXCEPT ![s] = "ok"]
     \/ (save[s] = "copy" \/ closed[s])
        /\ download' = [download EXCEPT ![s] = "failed"]
  /\ UNCHANGED <<files, total, tmp, save, got, seenLimit, closed, result, limit, miscounted>>

(* Mutant: the copy stops at the limit and takes that for the end.         *)
CopyEndsTruncated(s) ==
  /\ save[s] = "copy"
  /\ (seenLimit[s] > 0 /\ got[s] = seenLimit[s]) \/ download[s] = "ok"
  /\ save' = [save EXCEPT ![s] = "publish"]
  /\ UNCHANGED <<files, total, tmp, got, seenLimit, download, closed, result, limit, miscounted>>

(* copyWithLimit has seen the end of the download within the limit. *)
CopyEnds(s) ==
  /\ save[s] = "copy"
  /\ download[s] = "ok" /\ ~TooLarge(s)
  /\ save' = [save EXCEPT ![s] = "publish"]
  /\ UNCHANGED <<files, total, tmp, got, seenLimit, download, closed, result, limit, miscounted>>

(* Mutant: the pipe is left open when the copy fails. *)
CopyFailsLeavingPipe(s) ==
  /\ save[s] = "copy"
  /\ save' = [save EXCEPT ![s] = "join"]
  /\ result' = [result EXCEPT ![s] = "error"]
  /\ tmp' = tmp \ {s}
  /\ files' = Without({s})
  /\ UNCHANGED <<total, got, seenLimit, download, closed, limit, miscounted>>

(* The file is too large, the download failed, or the file could not be    *)
(* written: SaveStream removes it and cacheVideo closes the read end.      *)
CopyFails(s) ==
  /\ save[s] = "copy"
  /\ save' = [save EXCEPT ![s] = "join"]
  /\ result' = [result EXCEPT ![s] = "error"]
  /\ tmp' = tmp \ {s}
  /\ files' = Without({s})
  /\ closed' = [closed EXCEPT ![s] = TRUE]
  /\ UNCHANGED <<total, got, seenLimit, download, limit, miscounted>>

(* publishFile: the renamed file keeps its time of modification. *)
Publish(s) ==
  /\ save[s] = "publish"
  /\ LET evicted == Evict(files, total + got[s], tmp \cup {s})
     IN  /\ files' = evicted.keep
         /\ total' = evicted.bytes
  /\ tmp' = tmp \ {s}
  /\ result' = [result EXCEPT ![s] = "url"]
  /\ save' = [save EXCEPT ![s] = IF s \in StreamSaves THEN "join" ELSE "done"]
  /\ UNCHANGED <<got, seenLimit, download, closed, limit, miscounted>>

(* The rename fails; the deferred call removes the temporary file. *)
PublishFails(s) ==
  /\ save[s] = "publish"
  /\ files' = Without({s})
  /\ tmp' = tmp \ {s}
  /\ result' = [result EXCEPT ![s] = "error"]
  /\ save' = [save EXCEPT ![s] = IF s \in StreamSaves THEN "join" ELSE "done"]
  /\ UNCHANGED <<total, got, seenLimit, download, closed, limit, miscounted>>

(* cacheVideo waits for its download goroutine before it returns. *)
Join(s) ==
  /\ save[s] = "join"
  /\ download[s] \in {"ok", "failed"}
  /\ save' = [save EXCEPT ![s] = "done"]
  /\ result' = [result EXCEPT ![s] = IF download[s] = "failed" THEN "error" ELSE @]
  /\ UNCHANGED <<files, total, tmp, got, seenLimit, download, closed, limit, miscounted>>

-----------------------------------------------------------------------------
(* FilePath: a file that is served becomes the most recently used one.     *)
Touch(f) ==
  /\ f \in OnDisk
  /\ files' = Latest(f)
  /\ UNCHANGED <<total, tmp, save, got, seenLimit, download, closed, result, limit, miscounted>>

(* DeleteFile and DeleteFiles: those that cannot be removed are reported.  *)
DeleteFiles(S) ==
  LET removed == (S \cap OnDisk) \ Sticky
  IN  /\ removed # {}
      /\ files' = Without(removed)
      /\ total' = Min0(total - BytesOf(removed))
      /\ UNCHANGED <<tmp, save, got, seenLimit, download, closed, result, limit, miscounted>>

(* Mutant: the cleared bytes stay counted. *)
ClearUncounted ==
  /\ files' = Without(OnDisk \ Sticky)
  /\ miscounted' = (miscounted \/ (OnDisk \cap Sticky) # {})
  /\ UNCHANGED <<total, tmp, save, got, seenLimit, download, closed, result, limit>>

(* Clear: the count is zero afterwards, whatever could not be removed.     *)
Clear ==
  /\ files' = Without(OnDisk \ Sticky)
  /\ total' = 0
  /\ miscounted' = (miscounted \/ (OnDisk \cap Sticky) # {})
  /\ UNCHANGED <<tmp, save, got, seenLimit, download, closed, result, limit>>

SetLimit(l) ==
  /\ l # limit
  /\ limit' = l
  /\ UNCHANGED <<files, total, tmp, save, got, seenLimit, download, closed, result, miscounted>>

(* The process stops and NewService runs reconcile on what is on disk.     *)
Restart ==
  /\ LET kept == Evict(Without(tmp), BytesOf(OnDisk), {})
     IN  /\ files' = kept.keep
         /\ total' = kept.bytes
  /\ tmp' = {}
  /\ save' = [s \in Saves |-> "done"]
  /\ download' = [s \in Saves |-> IF download[s] = "running" THEN "failed" ELSE download[s]]
  /\ result' = [s \in Saves |-> IF save[s] = "join" THEN "none" ELSE result[s]]
  /\ miscounted' = FALSE
  /\ UNCHANGED <<got, seenLimit, closed, limit>>

SaveStep(s) ==
  \/ WriteFile(s) \/ BeginStream(s) \/ Chunk(s) \/ DownloadEnds(s)
  \/ CopyEnds(s) \/ CopyFails(s) \/ Publish(s) \/ PublishFails(s) \/ Join(s)

CacheNext ==
  \/ \E s \in Saves : SaveStep(s) \/ Touch(s) \/ DeleteFiles({s})
  \/ DeleteFiles(Saves) \/ Clear \/ Restart
  \/ \E l \in Limits : SetLimit(l)

(* The pipe's two ends and the goroutine that waits for them are scheduled. *)
CacheFairness ==
  \A s \in StreamSaves : WF_cacheVars(Chunk(s) \/ DownloadEnds(s) \/ CopyEnds(s)
                                      \/ ((TooLarge(s) \/ download[s] = "failed") /\ CopyFails(s))
                                      \/ Publish(s) \/ PublishFails(s) \/ Join(s))

-----------------------------------------------------------------------------
(* Properties.                                                             *)

(* The byte count is that of the files on disk, whatever saves, deletions, *)
(* evictions and restarts interleave; only a Clear that could not remove a *)
(* file makes it fall short, and it never runs ahead of the disk.          *)
CountMatchesDisk ==
  /\ ~miscounted => total = BytesOf(OnDisk)
  /\ total <= BytesOf(OnDisk)

(* A file that can be served is whole: a download that failed or was cut   *)
(* off at the limit is never published, and a URL is returned only for a   *)
(* file that was.                                                          *)
PublishedIsWhole ==
  /\ \A f \in OnDisk : got[f] = Size[f]
  /\ \A s \in Saves : result[s] = "url" => got[s] = Size[s]

(* Publishing makes room: afterwards the cache is within the limit that    *)
(* holds at this moment, or nothing that may be evicted is left next to    *)
(* the new file, which itself survives.                                    *)
PublishMakesRoom ==
  [][\A s \in Saves : save[s] = "publish" /\ result'[s] = "url" =>
       /\ s \in OnDisk'
       /\ limit = 0 \/ total' <= limit \/ OnDisk' \subseteq Sticky \cup {s}]_cacheVars

(* cacheVideo returns: neither the copy nor the download waits for ever on *)
(* an end of the pipe that nobody serves.                                  *)
CacheVideoEnds == \A s \in StreamSaves : save[s] = "copy" ~> save[s] = "done"

=============================================================================
