----------------------------- MODULE BlobStore -----------------------------
(***************************************************************************)
(* The external storage of large values (common/blobstore) and its cleanup *)
(* (CleanupBlobStore, an activity of the BlobStoreCleanup workflow).       *)
(*                                                                         *)
(* An object lies in a directory for its day and its workflow id.  Time is *)
(* counted in days: an activity that starts during a day stops checking at *)
(* a directory of the day MinAge days before, or of an earlier day.        *)
(***************************************************************************)
EXTENDS Engine, Integers, SequencesExt

CONSTANTS
  MinAge,          \* MinAgeForCleanupCheckInDays
  ListPageSize,    \* directories in an answer of ListObjectsV2
  MaximumAttempts, \* of the activity
  MaxDay,          \* bound: days
  MaxObjects,      \* bound: objects written
  MaxCleanups      \* bound: runs of the cleanup workflow

ASSUME BlobAssumption ==
  /\ MinAge \in Nat /\ ListPageSize \in Nat \ {0} /\ MaximumAttempts \in Nat \ {0}
  /\ MaxDay \in Nat /\ MaxObjects \in Nat /\ MaxCleanups \in Nat

VARIABLES
  today,
  objects,      \* [id, dir] of the objects in the store
  written,      \* the number of objects written; the last one's id
  cleanup,      \* the activity: [pc, stop, token, page, seen]
  attempt, cleanups,
  raced         \* history: objects deleted although a run started meanwhile has them

blobVars == <<today, objects, written, cleanup, attempt, cleanups, raced>>

NoToken == <<-1, <<"none", 0>>>>

\* The directories as S3 lists them, by day and workflow id.
Before(d, e) == d[1] < e[1] \/ (d[1] = e[1] /\ d[2][2] < e[2][2])
Directories(after) ==
  SetToSortSeq({d \in {o.dir : o \in objects} : Before(after, d)}, Before)

BlobInit ==
  /\ today = 0 /\ objects = {} /\ written = 0
  /\ cleanup = [pc |-> "idle", stop |-> 0, token |-> NoToken, page |-> << >>, seen |-> 0]
  /\ attempt = 0 /\ cleanups = 0 /\ raced = {}

\* The object gets an id of its own: path yyyymmdd$workflowId/uuid.
WriteObject(wf) ==
  /\ written < MaxObjects
  /\ written' = written + 1
  /\ objects' = objects \cup {[id |-> written', dir |-> <<today, wf>>]}
  /\ UNCHANGED <<today, cleanup, attempt, cleanups, raced>>

NextDay ==
  /\ today < MaxDay
  /\ today' = today + 1
  /\ UNCHANGED <<runs, objects, written, cleanup, attempt, cleanups, raced>>

-----------------------------------------------------------------------------
(* CleanupBlobStore *)

UnchangedByCleanup == UNCHANGED <<runs, today, written, cleanups>>

BeginCleanup ==
  /\ cleanup.pc = "idle" /\ cleanups < MaxCleanups
  /\ cleanup' = [cleanup EXCEPT !.pc = "list", !.stop = today - MinAge, !.token = NoToken]
  /\ attempt' = 1 /\ cleanups' = cleanups + 1
  /\ UNCHANGED <<runs, today, objects, written, raced>>

\* A page, and a token when there are more.
ListWorkflowPaths ==
  /\ cleanup.pc = "list"
  /\ LET dirs == Directories(cleanup.token)
         page == SubSeq(dirs, 1, IF Len(dirs) < ListPageSize THEN Len(dirs) ELSE ListPageSize)
     IN  cleanup' = [cleanup EXCEPT !.pc = "page", !.page = page,
                       !.token = IF Len(dirs) > Len(page) THEN page[Len(page)] ELSE NoToken]
  /\ UnchangedByCleanup /\ UNCHANGED <<objects, attempt, raced>>

\* Mutant: everything that is not running any more may be deleted.
MayDeleteIfClosed(wf) == Current(wf) = 0 \/ runs[Current(wf)].status # "RUNNING"
\* The workflow has been deleted from the history.
MayDelete(wf) == Current(wf) = 0

\* The next directory: a break, which only leaves the page, or the workflow is
\* described.
CheckPath ==
  /\ cleanup.pc = "page" /\ cleanup.page # << >>
  /\ LET dir == Head(cleanup.page)
     IN  cleanup' =
           IF dir[1] <= cleanup.stop THEN [cleanup EXCEPT !.page = << >>]
           ELSE IF MayDelete(dir[2])
           THEN [cleanup EXCEPT !.pc = "delete", !.seen = Len(runs)]
           ELSE [cleanup EXCEPT !.page = Tail(@)]
  /\ UnchangedByCleanup /\ UNCHANGED <<objects, attempt, raced>>

EndOfPage ==
  /\ cleanup.pc = "page" /\ cleanup.page = << >>
  /\ cleanup' = [cleanup EXCEPT !.pc = IF cleanup.token = NoToken THEN "idle" ELSE "list"]
  /\ UnchangedByCleanup /\ UNCHANGED <<objects, attempt, raced>>

\* What is in the directory now, not what was there at the listing.  One that
\* fails in between has deleted some objects.
DeleteWorkflowObjects ==
  /\ cleanup.pc = "delete"
  /\ LET inDir == {o \in objects : o.dir = Head(cleanup.page)}
     IN  \E gone \in SUBSET inDir :
           /\ objects' = objects \ gone
           /\ raced' = raced \cup
                ({o.id : o \in gone} \ UNION {runs[i].objs : i \in 1..cleanup.seen})
           /\ cleanup' = IF gone = inDir
                         THEN [cleanup EXCEPT !.pc = "page", !.page = Tail(@)]
                         ELSE [cleanup EXCEPT !.pc = "failed"]
  /\ UnchangedByCleanup /\ UNCHANGED attempt

\* Any call fails: the activity starts again from the beginning, or the workflow
\* gives up.
ActivityFails ==
  /\ cleanup.pc \in {"list", "page", "delete", "failed"}
  /\ IF attempt < MaximumAttempts
     THEN /\ attempt' = attempt + 1
          /\ cleanup' = [cleanup EXCEPT !.pc = "list", !.stop = today - MinAge,
                                        !.token = NoToken, !.page = << >>]
     ELSE /\ cleanup' = [cleanup EXCEPT !.pc = "idle", !.page = << >>]
          /\ UNCHANGED attempt
  /\ UnchangedByCleanup /\ UNCHANGED <<objects, raced>>

CleanupStep ==
  \/ BeginCleanup \/ ListWorkflowPaths \/ CheckPath \/ EndOfPage
  \/ DeleteWorkflowObjects \/ ActivityFails

-----------------------------------------------------------------------------
(* Properties *)

ObjectIds == {o.id : o \in objects}

\* The objects that a run refers to are in the store as long as the engine knows
\* the run (queries of a closed run read them too), although all runs of a workflow
\* id share directories; unless the cleanup described the workflow before that run
\* was started.
RetainedRunsKeepObjects ==
  \A i \in DOMAIN runs :
    runs[i].kept => runs[i].objs \subseteq ObjectIds \cup raced

\* "If objects' createdTime > now-config value, we will stop checking" (config.go):
\* an object that is younger than the minimum age is not deleted.
YoungObjectsKept ==
  [][\A o \in objects \ objects' : o.dir[1] <= today - MinAge]_blobVars
=============================================================================
