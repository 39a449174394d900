----------------------------- MODULE Templates -----------------------------
(***************************************************************************)
(* The versions of an email template: template_repository.go under the     *)
(* cache of active templates that notification_service.go keeps by name.   *)
(*                                                                         *)
(* One name is modelled: every query, and the cache, is by name, and no    *)
(* request changes the name of a template.  A caller is a request, or a    *)
(* start of the notification system that creates its default templates; a  *)
(* command to MongoDB and a turn with the lock of the cache are one step   *)
(* each, and a command may fail.  Of a template's contents the number of   *)
(* its edits is kept; validation and rendering are left out, so that a     *)
(* template that is stored here is one that ValidateTemplate accepts.      *)
(***************************************************************************)
EXTENDS Naturals

CONSTANTS
    Ids,          \* documents of the collection
    Callers,
    MaxVersion,   \* bound: versions of the template
    MaxEdits,     \* bound: edits of a version
    None

\* The warm-up, beside the callers, fills the cache.
Warmer == "warm-up"

TemplatesAssumption ==
    /\ MaxVersion \in Nat \ {0} /\ MaxEdits \in Nat
    /\ Callers \cap {Warmer, "cache"} = {}

VARIABLES
    docs,         \* docs[i]: a version of the template, or None
    cache,        \* templateCache[name]: a copy of a document, or None
    call,         \* what each caller is doing
    warm,         \* the goroutine that loads active templates into the cache
    late          \* history: callers whose copy was overtaken by a write, and
                  \* "cache" if the cache has such a copy

vars == <<docs, cache, call, warm, late>>

Template == [id : Ids, version : 1..MaxVersion, active : BOOLEAN, edits : 0..MaxEdits]
Idle == [op |-> "none", at |-> "idle", copy |-> None]

-----------------------------------------------------------------------------
(* The queries.                                                            *)

Stored == {docs[i] : i \in Ids} \ {None}
Active == {t \in Stored : t.active}

\* GetByName: the active document of the highest version.
GetByName ==
    IF Active = {} THEN None
    ELSE CHOOSE t \in Active : \A u \in Active : u.version <= t.version

GetActive == Active

\* Of the versions that GetActive sorts from the highest to the lowest, each overwrites
\* the one before in the cache: the last is left.
LastListed(templates) ==
    IF templates = {} THEN cache
    ELSE CHOOSE t \in templates : \A u \in templates : t.version <= u.version

-----------------------------------------------------------------------------
(* Steps of a call.                                                        *)

Goes(c, op, at, copy) == call' = [call EXCEPT ![c] = [op |-> op, at |-> at, copy |-> copy]]
Ends(c) == call' = [call EXCEPT ![c] = Idle]
At(c, op, at) == call[c].op = op /\ call[c].at = at

\* Whoever has read and has yet to fill the cache is overtaken by this write.
Filling(c) == call[c].op = "get" /\ call[c].at = "add"
Overtaken == {c \in Callers : Filling(c)} \cup (IF warm.at = "fill" THEN {Warmer} ELSE {})
Write(new) ==
    /\ docs' = new
    /\ late' = late \cup Overtaken

Fill(who, copy) ==
    /\ cache' = copy
    /\ late' = IF who \in late THEN (late \ {who}) \cup {"cache"} ELSE late \ {"cache"}

invalidateTemplateCache ==
    /\ cache' = None
    /\ late' = late \ {"cache"}

\* A command to MongoDB fails, and the call with it.
Fail(c) ==
    /\ call[c].at \in {"default", "find", "insert", "again", "read", "write"}
    /\ Ends(c)
    /\ UNCHANGED <<docs, cache, warm, late>>

-----------------------------------------------------------------------------
(* GetTemplateByName, for SendTemplatedEmail and PreviewTemplate.          *)

GetTemplateByName(c) ==
    /\ call[c] = Idle
    /\ cache = None                      \* otherwise the copy in the cache is used
    /\ Goes(c, "get", "read", None)
    /\ UNCHANGED <<docs, cache, warm, late>>

ReadByName(c) ==
    /\ At(c, "get", "read")
    /\ IF GetByName = None THEN Ends(c) ELSE Goes(c, "get", "add", GetByName)
    /\ UNCHANGED <<docs, cache, warm, late>>

addTemplateToCache(c) ==
    /\ At(c, "get", "add")
    /\ Fill(c, call[c].copy)
    /\ Ends(c)
    /\ UNCHANGED <<docs, warm>>

-----------------------------------------------------------------------------
(* CreateTemplate of a request, and the default templates of a start.      *)

\* A request cannot ask for an active template; CreateDefaultTemplates does.
CreateTemplate(c) ==
    /\ call[c] = Idle
    /\ Goes(c, "create", "find", None)
    /\ UNCHANGED <<docs, cache, warm, late>>

CreateDefaultTemplates(c) ==
    /\ call[c] = Idle
    /\ Goes(c, "default", "default", None)
    /\ UNCHANGED <<docs, cache, warm, late>>

\* An active template of the name is left as it is.
SkipOrCreate(c) ==
    /\ At(c, "default", "default")
    /\ IF GetByName # None THEN Ends(c) ELSE Goes(c, "default", "find", None)
    /\ UNCHANGED <<docs, cache, warm, late>>

\* Create: one above the active version, or the first.
Create(c) ==
    /\ call[c].at = "find"
    /\ LET version == IF GetByName = None THEN 1 ELSE GetByName.version + 1 IN
       \E i \in Ids :
           /\ docs[i] = None /\ version <= MaxVersion
           /\ Goes(c, call[c].op, "insert",
                   [id |-> i, version |-> version, active |-> call[c].op = "default",
                    edits |-> 0])
    /\ UNCHANGED <<docs, cache, warm, late>>

\* The name and the version are unique, and so is the id.
Duplicate(t) == docs[t.id] # None \/ \E u \in Stored : u.version = t.version

\* Only the service invalidates the cache: a start creates in the repository.
Inserted(c) == IF call[c].op = "create" THEN Goes(c, "create", "clear", None) ELSE Ends(c)

InsertOne(c) ==
    LET t == call[c].copy IN
    /\ call[c].at = "insert"
    /\ IF Duplicate(t)
       THEN /\ t.version < MaxVersion
            /\ Goes(c, call[c].op, "again", [t EXCEPT !.version = @ + 1])
            /\ UNCHANGED <<docs, late>>
       ELSE Write([docs EXCEPT ![t.id] = t]) /\ Inserted(c)
    /\ UNCHANGED <<cache, warm>>

\* The version is raised once; the second conflict is the caller's.
InsertAgain(c) ==
    LET t == call[c].copy IN
    /\ call[c].at = "again"
    /\ IF Duplicate(t) THEN Ends(c) /\ UNCHANGED <<docs, late>>
       ELSE Write([docs EXCEPT ![t.id] = t]) /\ Inserted(c)
    /\ UNCHANGED <<cache, warm>>

-----------------------------------------------------------------------------
(* UpdateTemplate and DeleteTemplate.                                      *)

\* The handler reads the document and edits its copy, and may switch it on or off.
UpdateTemplate(c) ==
    /\ call[c] = Idle
    /\ \E t \in Stored, active \in BOOLEAN :
           /\ t.edits < MaxEdits
           /\ Goes(c, "update", "write", [t EXCEPT !.edits = @ + 1, !.active = active])
    /\ UNCHANGED <<docs, cache, warm, late>>

DeleteTemplate(c) ==
    /\ call[c] = Idle
    /\ \E t \in Stored : Goes(c, "delete", "write", t)
    /\ UNCHANGED <<docs, cache, warm, late>>

\* Update sets every field of the document; without a document it is refused.
Commit(c) ==
    LET t == call[c].copy IN
    /\ call[c].at = "write"
    /\ IF docs[t.id] = None
       THEN Ends(c) /\ UNCHANGED <<docs, late>>
       ELSE /\ Write([docs EXCEPT ![t.id] = IF call[c].op = "update" THEN t ELSE None])
            /\ Goes(c, call[c].op, "clear", None)
    /\ UNCHANGED <<cache, warm>>

\* Mutant: what was deleted is left to whoever updates the name next.
Invalidate_NotDeleted(c) ==
    /\ call[c].at = "clear"
    /\ IF call[c].op = "delete" THEN UNCHANGED <<cache, late>> ELSE invalidateTemplateCache
    /\ Ends(c)
    /\ UNCHANGED <<docs, warm>>

Invalidate(c) ==
    /\ call[c].at = "clear"
    /\ invalidateTemplateCache
    /\ Ends(c)
    /\ UNCHANGED <<docs, warm>>

-----------------------------------------------------------------------------
(* warmUpTemplateCache.                                                    *)

WarmUpRead ==
    /\ warm.at = "read"
    /\ warm' \in {[at |-> "fill", copies |-> GetActive], [at |-> "done", copies |-> {}]}
    /\ UNCHANGED <<docs, cache, call, late>>

WarmUpFill ==
    /\ warm.at = "fill"
    /\ warm' = [at |-> "done", copies |-> {}]
    /\ IF warm.copies = {} THEN cache' = cache /\ late' = late \ {Warmer}
       ELSE Fill(Warmer, LastListed(warm.copies))
    /\ UNCHANGED <<docs, call>>

-----------------------------------------------------------------------------
\* A process starts on the templates that are there, with an empty cache.
Init ==
    /\ docs \in [Ids -> {None} \cup [id : Ids, version : 1..MaxVersion, active : BOOLEAN,
                                     edits : {0}]]
    /\ \A i \in Ids : docs[i] # None =>
           /\ docs[i].id = i
           /\ \A j \in Ids \ {i} : docs[j] # None => docs[j].version # docs[i].version
    /\ cache = None
    /\ call = [c \in Callers |-> Idle]
    /\ warm = [at |-> "read", copies |-> {}]
    /\ late = {}

CallerStep(c) ==
    \/ GetTemplateByName(c) \/ ReadByName(c) \/ addTemplateToCache(c)
    \/ CreateTemplate(c) \/ CreateDefaultTemplates(c) \/ SkipOrCreate(c) \/ Create(c)
    \/ InsertOne(c) \/ InsertAgain(c)
    \/ UpdateTemplate(c) \/ DeleteTemplate(c) \/ Commit(c) \/ Invalidate(c)
    \/ Fail(c)

Next == WarmUpRead \/ WarmUpFill \/ \E c \in Callers : CallerStep(c)

Spec == Init /\ [][Next]_vars

-----------------------------------------------------------------------------
(* The properties.                                                         *)

Call == [op : {"none", "get", "create", "default", "update", "delete"},
         at : {"idle", "default", "find", "insert", "again", "read", "add", "write", "clear"},
         copy : Template \cup {None}]

TypeOK ==
    /\ \A i \in Ids : docs[i] \in Template \cup {None}
    /\ cache \in Template \cup {None}
    /\ call \in [Callers -> Call]
    /\ warm.at \in {"read", "fill", "done"} /\ warm.copies \subseteq Template
    /\ late \subseteq Callers \cup {Warmer, "cache"}

Clearing == \E c \in Callers : call[c].at = "clear"

\* An email is rendered from a template that is stored as it is cached, and active:
\* every edit, deactivation and deletion reaches the cache, which has no expiry, unless
\* a read that began before the write fills the cache after it.
CacheIsCurrent ==
    cache # None /\ ~Clearing /\ "cache" \notin late => cache \in Active
=============================================================================
