------------------------- MODULE ContinueAsNewDump -------------------------
(***************************************************************************)
(* How a run reads what the previous run leaves it: the pages of the       *)
(* snapshot that the query handler of the previous run cuts                *)
(* (SetQueryHandlersForContinueAsNew in continueAsNewer.go) and the loop   *)
(* that loads them (LoadInternalsFromPreviousRun), one activity per page.  *)
(*                                                                         *)
(* The previous run is closed, but its snapshot is made again for every    *)
(* page, by whichever worker answers the query: another version of the     *)
(* worker code may write other bytes.  A byte is <<version, position>>,    *)
(* and the checksum of a snapshot is its version: different bytes have     *)
(* different checksums.  Pages are cut at bytes and travel as JSON         *)
(* strings, which hold characters: half of a character of two bytes is     *)
(* replaced on its way.                                                    *)
(***************************************************************************)
EXTENDS Naturals, Sequences

CONSTANTS
  Versions,          \* versions of the worker code
  SnapshotLength,    \* [Versions -> number of bytes of the JSON]
  WideAt,            \* [Versions -> bytes that, with the next one, are a character]
  DefaultPageSize,   \* service.DefaultContinueAsNewPageSizeInBytes
  NoChecksum         \* lastChecksum = ""

ASSUME SnapshotAssumption ==
  /\ SnapshotLength \in [Versions -> Nat \ {0}]
  /\ WideAt \in [Versions -> SUBSET Nat]
  /\ DefaultPageSize \in Nat \ {0}
  /\ NoChecksum \notin Versions

VARIABLES
  version,        \* the version that answers queries
  pageSize,       \* the size that the load asks for
  pageNum,
  lastChecksum,
  sb,             \* the bytes read so far
  loading         \* LoadInternalsFromPreviousRun is running

dumpVars == <<version, pageSize, pageNum, lastChecksum, sb, loading>>

Snapshot(v) == [i \in 1..SnapshotLength[v] |-> <<v, i>>]

\* Both ends replace 0 by the default.
PageSize(size) == IF size \in Nat \ {0} THEN size ELSE DefaultPageSize

TotalPages(v, size) == (SnapshotLength[v] + size - 1) \div size

PageStart(size, page) == size * page
PageEnd(v, size, page) ==
  IF PageStart(size, page) + size > SnapshotLength[v]
  THEN SnapshotLength[v] ELSE PageStart(size, page) + size

\* U+FFFD, which the JSON encoder puts in the place of invalid UTF-8.
Replacement(v) == <<v, 0>>

\* The page as the loading run gets it.
JsonData(v, size, page) ==
  LET start == PageStart(size, page)
      count == PageEnd(v, size, page) - start
  IN  [i \in 1..count |->
         IF \/ i = count /\ start + i \in WideAt[v]
            \/ i = 1 /\ start \in WideAt[v]
         THEN Replacement(v) ELSE <<v, start + i>>]

\* The error of the query handler for a page that is not there.
WrongPageNum == pageNum >= TotalPages(version, pageSize)

DumpInit ==
  /\ version \in Versions
  /\ pageSize = DefaultPageSize
  /\ pageNum = 0 /\ lastChecksum = NoChecksum /\ sb = << >>
  /\ loading = FALSE

BeginLoad(size) ==
  /\ pageSize' = size
  /\ pageNum' = 0 /\ lastChecksum' = NoChecksum /\ sb' = << >>
  /\ loading' = TRUE
  /\ UNCHANGED version

\* Mutant: the bytes read before the checksum changed are kept.
RestartKeepingBytes ==
  /\ pageNum' = 0 /\ lastChecksum' = NoChecksum
  /\ UNCHANGED <<version, pageSize, sb, loading>>
\* Mutant: the checksum of the first pages is kept.
RestartKeepingChecksum ==
  /\ pageNum' = 0 /\ sb' = << >>
  /\ UNCHANGED <<version, pageSize, lastChecksum, loading>>

\* The checksum differs from that of the page before: start from the beginning.
Restart ==
  /\ pageNum' = 0 /\ lastChecksum' = NoChecksum /\ sb' = << >>
  /\ UNCHANGED <<version, pageSize, loading>>

\* The activity's retries are unlimited: a page that is not there is asked for
\* again until it is there.  LoadPage is the attempt that succeeds.
LoadPage ==
  /\ loading /\ ~WrongPageNum
  /\ IF lastChecksum # NoChecksum /\ lastChecksum # version
     THEN Restart
     ELSE /\ lastChecksum' = version
          /\ sb' = sb \o JsonData(version, pageSize, pageNum)
          /\ pageNum' = pageNum + 1
          /\ loading' = (pageNum + 1 < TotalPages(version, pageSize))
          /\ UNCHANGED <<version, pageSize>>

\* Workers with another version of the code take over.
Deploy(v) ==
  /\ v # version
  /\ version' = v
  /\ UNCHANGED <<pageSize, pageNum, lastChecksum, sb, loading>>

-----------------------------------------------------------------------------
(* The loads alone *)

DumpNext ==
  \/ \E size \in Nat \ {0} : BeginLoad(size)
  \/ LoadPage
  \/ \E v \in Versions : Deploy(v)

DumpSpec == DumpInit /\ [][DumpNext]_dumpVars

DumpTypeOK ==
  /\ version \in Versions
  /\ pageSize \in Nat \ {0}
  /\ pageNum \in Nat
  /\ lastChecksum \in Versions \cup {NoChecksum}
  /\ sb \in Seq(Versions \X Nat)
  /\ loading \in BOOLEAN

\* What has been read is the whole of one snapshot, byte by byte except for
\* characters of several bytes, although every page was cut from a snapshot of
\* its own: LoadInternalsFromPreviousRun may have read pages of several versions
\* before it ends.
LoadedIsOneSnapshot ==
  ~loading /\ lastChecksum # NoChecksum =>
    /\ Len(sb) = SnapshotLength[lastChecksum]
    /\ \A i \in 1..Len(sb) :
         i \notin WideAt[lastChecksum] /\ i - 1 \notin WideAt[lastChecksum] =>
           sb[i] = <<lastChecksum, i>>

\* "This snapshot will be used to start a new continueAsNew workflow while
\* preserving the state of the workflow" (workflowImpl.go): the new run gets what
\* the previous run wrote.
SnapshotPreserved ==
  ~loading /\ lastChecksum # NoChecksum => sb = Snapshot(lastChecksum)
=============================================================================
