------------------------------ MODULE Listings ------------------------------
(***************************************************************************)
(* The listings page by page: the List, ListBy... and Search operations of *)
(* the repositories of workflows, users, logs and notifications, and the   *)
(* two listings that a service and a handler cut out of a slice.           *)
(*                                                                         *)
(* A page is two commands to MongoDB, a count and a find, in one order or  *)
(* the other; documents are stored, changed and deleted between them and   *)
(* between two pages.  Documents are numbered as they are stored and are   *)
(* listed newest first (equal times of creation are left out).  Of a       *)
(* document only the conditions it meets are kept; an error of MongoDB     *)
(* ends the request and the reader asks again.                             *)
(***************************************************************************)
EXTENDS Naturals, FiniteSets

CONSTANTS
    MaxDocs,      \* bound: documents stored
    MaxSize,      \* largest page a repository accepts, 100
    DefaultSize,  \* the one it takes instead, 20
    None

ListingsAssumption ==
    /\ MaxDocs \in Nat /\ MaxSize \in Nat \ {0}
    /\ DefaultSize \in 1..MaxSize

VARIABLES
    docs,         \* docs[d]: the conditions document d meets, or None
    reader,       \* the reader who turns the pages of a listing, or None
    quiet,        \* history: nothing changed since the reader began
    left,         \* history: a document left the listing meanwhile
    raced         \* history: one came between a count and its find

history == <<quiet, left, raced>>
vars == <<docs, reader, history>>

\* "live": not deleted, or an active user; "asked": of the user, workflow, status, role,
\* tag, time or text asked for.
Mark == {"live", "asked"}
Doc == 1..MaxDocs

-----------------------------------------------------------------------------
(* What each listing asks for, and in which order it counts and finds.     *)

CountFirst(needs) == [needs |-> needs, first |-> "count"]
FindFirst(needs) == [needs |-> needs, first |-> "find"]
\* A slice of what was read at once.
AtOnce(needs) == [needs |-> needs, first |-> "both"]

\* workflow_repository.go
WorkflowList == CountFirst({"live"})
WorkflowListByUser == CountFirst({"live", "asked"})
WorkflowListByStatus == CountFirst({"live", "asked"})
WorkflowSearch == CountFirst({"live", "asked"})
WorkflowSearchByUser == CountFirst({"live", "asked"})
WorkflowListByTags == CountFirst({"live", "asked"})
\* user_repository.go
UserList == CountFirst({"live"})
UserSearch == CountFirst({"live", "asked"})
UserListByRole == CountFirst({"live", "asked"})
\* log_repository.go
LogSearch == CountFirst({"asked"})
LogQuery == CountFirst({"asked"})
LogList == CountFirst({})
LogListByWorkflow == CountFirst({"asked"})
LogListByUser == CountFirst({"asked"})
LogListByStatus == CountFirst({"asked"})
LogsByDateRange == CountFirst({"asked"})
SearchLogs == CountFirst({"asked"})
SearchLogsByWorkflow == CountFirst({"asked"})
\* notification_repository.go; conditions are combined by buildMongoFilter.
NotificationList == FindFirst({"asked"})
NotificationSearch == FindFirst({"asked"})
\* workflow_service.go and backup_handler.go
GetActiveWorkflows == AtOnce({"live", "asked"})
ListBackups == AtOnce({"asked"})

Listing ==
    {WorkflowList, WorkflowListByUser, WorkflowListByStatus, WorkflowSearch,
     WorkflowSearchByUser, WorkflowListByTags, UserList, UserSearch, UserListByRole,
     LogSearch, LogQuery, LogList, LogListByWorkflow, LogListByUser, LogListByStatus,
     LogsByDateRange, SearchLogs, SearchLogsByWorkflow, NotificationList,
     NotificationSearch, GetActiveWorkflows, ListBackups}

-----------------------------------------------------------------------------
(* Pages.                                                                  *)

Matches(d, l) == docs[d] # None /\ l.needs \subseteq docs[d]
Found(l) == {d \in Doc : Matches(d, l)}

\* A page below 1 is the first; a size out of range is the default one.
Page(asked) == IF asked < 1 THEN 1 ELSE asked
PageSize(asked) == IF asked < 1 \/ asked > MaxSize THEN DefaultSize ELSE asked

\* Mutant: a last page that is not full is not counted.
TotalPages_Down(total, size) == total \div size

TotalPages(total, size) == (total + size - 1) \div size

\* Find sorted by created_at, newest first, with skip (page - 1) * size and limit size.
FindPage(l, page, size) ==
    {d \in Found(l) : LET place == Cardinality({e \in Found(l) : e >= d})
                      IN  (page - 1) * size < place /\ place <= page * size}

-----------------------------------------------------------------------------
(* The reader, and the writers.                                            *)

Reader == [of : Listing, size : 1..MaxSize, page : 1..MaxDocs + 1,
           at : {"count", "find", "both", "turn"},
           total : 0..MaxDocs, start : SUBSET Doc, seen : SUBSET Doc, times : 0..MaxDocs]

\* As many documents as there were, before any reader came.
Init ==
    /\ docs \in [Doc -> {None} \cup SUBSET Mark]
    /\ \A d \in Doc : docs[d] = None => \A e \in Doc : e > d => docs[e] = None
    /\ reader = None
    /\ quiet = TRUE /\ left = FALSE /\ raced = FALSE

Open ==
    \E l \in Listing, page \in 0..1, size \in 0..MaxSize + 1 :
        /\ reader = None
        /\ reader' = [of |-> l, size |-> PageSize(size), page |-> Page(page), at |-> l.first,
                      total |-> 0, start |-> Found(l), seen |-> {}, times |-> 0]
        /\ quiet' = TRUE /\ left' = FALSE /\ raced' = FALSE
        /\ UNCHANGED docs

Reading(at) == reader # None /\ reader.at = at
Here == FindPage(reader.of, reader.page, reader.size)

CountDocuments ==
    /\ Reading("count")
    /\ reader' = [reader EXCEPT !.total = Cardinality(Found(reader.of)),
                                !.at = IF reader.of.first = "count" THEN "find" ELSE "turn"]
    /\ UNCHANGED <<docs, history>>

Find ==
    /\ Reading("find")
    /\ reader' = [reader EXCEPT !.seen = @ \cup Here, !.times = @ + Cardinality(Here),
                                !.at = IF reader.of.first = "find" THEN "count" ELSE "turn"]
    /\ UNCHANGED <<docs, history>>

Slice ==
    /\ Reading("both")
    /\ reader' = [reader EXCEPT !.total = Cardinality(Found(reader.of)), !.at = "turn",
                                !.seen = @ \cup Here, !.times = @ + Cardinality(Here)]
    /\ UNCHANGED <<docs, history>>

\* has_next of the answer: page < total pages.
HasNext == reader.page < TotalPages(reader.total, reader.size)

TurnPage ==
    /\ Reading("turn") /\ HasNext
    /\ reader' = [reader EXCEPT !.page = @ + 1, !.at = reader.of.first]
    /\ UNCHANGED <<docs, history>>

Close ==
    /\ Reading("turn") /\ ~HasNext
    /\ reader' = None
    /\ UNCHANGED <<docs, history>>

\* A document is stored, or loses or meets a condition, or is removed.  Bound: nothing
\* is written once the reader has been raced, about whom nothing is claimed then.
Write(d, marks) ==
    /\ reader # None /\ ~left /\ ~raced
    /\ docs' = [docs EXCEPT ![d] = marks]
    /\ LET in == marks # None /\ reader.of.needs \subseteq marks
           was == Matches(d, reader.of)
       IN  /\ quiet' = (quiet /\ was = in)
           /\ left' = (was /\ ~in)
           /\ raced' = (in /\ ~was /\ Reading("find") /\ reader.of.first = "count")
    /\ UNCHANGED reader

Store ==
    \E d \in Doc, marks \in SUBSET Mark :
        /\ docs[d] = None /\ \A e \in Doc : docs[e] = None => d <= e
        /\ Write(d, marks)
Change ==
    \E d \in Doc, mark \in {"live", "asked"} :
        /\ docs[d] # None
        /\ Write(d, IF mark \in docs[d] THEN docs[d] \ {mark} ELSE docs[d] \cup {mark})

Next == Open \/ CountDocuments \/ Find \/ Slice \/ TurnPage \/ Close \/ Store \/ Change

Spec == Init /\ [][Next]_vars

-----------------------------------------------------------------------------
(* The properties.                                                         *)

TypeOK ==
    /\ docs \in [Doc -> {None} \cup SUBSET Mark]
    /\ reader \in Reader \cup {None}
    /\ quiet \in BOOLEAN /\ left \in BOOLEAN /\ raced \in BOOLEAN

AtLastPage == reader # None /\ reader.at = "turn" /\ ~HasNext

\* A reader who turns the pages as long as the answer says that there is a next one
\* misses no document that was listed from the beginning, although others are stored
\* meanwhile and push it back: unless a document left the listing, or, where it is
\* counted before it is found, one came in between.
WalkCovers == AtLastPage /\ ~left /\ ~raced => reader.start \subseteq reader.seen

\* When nothing changes the pages answered divide the listing: each document is on
\* one page, and the pages counted are those that have documents.
PagesPartition ==
    AtLastPage /\ quiet =>
        /\ reader.seen = reader.start
        /\ reader.times = Cardinality(reader.start)
        /\ reader.total = Cardinality(reader.start)
=============================================================================
