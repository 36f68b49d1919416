---------------------------- MODULE FlowCatalog ----------------------------
(***************************************************************************)
(* Flow templates and their versions, as the flow routes edit them, and    *)
(* the webhook that creates a task from the version published at the time. *)
(* The routes run in a thread pool.  A SELECT before the first write of a  *)
(* handler is outside its transaction (sqlite3 begins one before an INSERT *)
(* or UPDATE only), so what was read can be stale when it is written.      *)
(*                                                                         *)
(* Rows of flow_versions are numbered in the order of their insertion.     *)
(* The steps of a version are never updated, so a task's snapshot is the   *)
(* number of the row it was taken from.                                    *)
(***************************************************************************)
EXTENDS PlatformStore

CONSTANTS
    Flows,         \* flow templates that may be created
    WebhookFlow,   \* the flow_template_id the webhook service is built with
    Scripts,       \* step lists that pass validate_steps
    Editors,       \* slots for version requests handled at the same time
    Hooks,         \* slots for webhook requests handled at the same time
    MaxVersions    \* bound: rows of flow_versions

ASSUME CatalogAssumption ==
    /\ WebhookFlow \in Flows
    /\ MaxVersions \in Nat

VARIABLES
    templates,   \* the flow_templates that exist
    flowOf,      \* flow_versions.flow_template_id, in order of insertion
    number,      \* flow_versions.version_no
    release,     \* flow_versions.status, "absent" while there is no row
    script,      \* flow_versions.steps_json
    published,   \* flow_templates.published_version_id, 0 for NULL
    draft,       \* flow_templates.draft_version_id, 0 for NULL
    snapshot,    \* per task: the row in its flow_version_snapshot_json
    insertion,   \* per slot: a version about to be inserted
    hook         \* per slot: a task about to be inserted

versionRows == <<flowOf, number, release, script>>
catalogRows == <<templates, versionRows, published, draft>>
catalogVars == <<catalogRows, snapshot, insertion, hook>>
platformVars == <<storeVars, catalogVars>>

Versions == 1..MaxVersions
Stored(v) == release[v] # "absent"
VersionsOf(f) == {v \in Versions : Stored(v) /\ flowOf[v] = f}

\* validate_steps refuses an empty list.
NoScript == << >>

NoInsertion == [flow |-> WebhookFlow, number |-> 0, script |-> NoScript]
NoHook == [task |-> 0, version |-> 0]

CatalogInit ==
    /\ templates = {}
    /\ flowOf = [v \in Versions |-> WebhookFlow]
    /\ number = [v \in Versions |-> 0]
    /\ release = [v \in Versions |-> "absent"]
    /\ script = [v \in Versions |-> NoScript]
    /\ published = [f \in Flows |-> 0]
    /\ draft = [f \in Flows |-> 0]
    /\ snapshot = [t \in Tasks |-> 0]
    /\ insertion = [e \in Editors |-> NoInsertion]
    /\ hook = [h \in Hooks |-> NoHook]

CatalogTypeOK ==
    /\ templates \subseteq Flows
    /\ flowOf \in [Versions -> Flows]
    /\ number \in [Versions -> Nat]
    /\ release \in [Versions -> {"absent", "draft", "published", "archived"}]
    /\ script \in [Versions -> Scripts \cup {NoScript}]
    /\ published \in [Flows -> Versions \cup {0}]
    /\ draft \in [Flows -> Versions \cup {0}]
    /\ snapshot \in [Tasks -> Versions \cup {0}]
    /\ insertion \in [Editors -> [flow : Flows, number : Nat, script : Scripts \cup {NoScript}]]
    /\ hook \in [Hooks -> [task : Tasks \cup {0}, version : Versions \cup {0}]]
-----------------------------------------------------------------------------
(***************************************************************************)
(* Templates and versions.                                                 *)
(***************************************************************************)

CreateFlow(f) ==
    /\ f \notin templates
    /\ templates' = templates \cup {f}
    /\ UNCHANGED <<storeVars, versionRows, published, draft, snapshot, insertion, hook>>

\* COALESCE(MAX(version_no), 0) + 1.
NextNumber(f) ==
    LET used == {number[v] : v \in VersionsOf(f)} \cup {0}
    IN  1 + CHOOSE m \in used : \A n \in used : n <= m

\* create_flow_version up to its SELECT; the steps have been validated.
ReadNextNumber(e, f, steps) ==
    /\ insertion[e] = NoInsertion
    /\ f \in templates
    /\ insertion' = [insertion EXCEPT ![e] =
          [flow |-> f, number |-> NextNumber(f), script |-> steps]]
    /\ UNCHANGED <<storeVars, catalogRows, snapshot, hook>>

\* copy_flow_version: the steps of a version of the same flow, published or not.
CopyVersion(e, f, v) ==
    /\ v \in VersionsOf(f)
    /\ ReadNextNumber(e, f, script[v])

\* The INSERT, and the draft pointer in the same transaction.  The request
\* fails if its number is taken by now (UNIQUE).
NumberTaken(e) ==
    \E v \in VersionsOf(insertion[e].flow) : number[v] = insertion[e].number

\* Mutant of InsertVersion: the table has no UNIQUE constraint.
InsertVersionAnyway(e) ==
    /\ insertion[e] # NoInsertion
    /\ insertion' = [insertion EXCEPT ![e] = NoInsertion]
    /\ \E v \in Versions :
          /\ ~Stored(v)
          /\ \A u \in Versions : u < v => Stored(u)
          /\ flowOf' = [flowOf EXCEPT ![v] = insertion[e].flow]
          /\ number' = [number EXCEPT ![v] = insertion[e].number]
          /\ release' = [release EXCEPT ![v] = "draft"]
          /\ script' = [script EXCEPT ![v] = insertion[e].script]
          /\ draft' = [draft EXCEPT ![insertion[e].flow] = v]
    /\ UNCHANGED <<storeVars, templates, published, snapshot, hook>>

InsertVersion(e) ==
    /\ insertion[e] # NoInsertion
    /\ ~NumberTaken(e)
    /\ insertion' = [insertion EXCEPT ![e] = NoInsertion]
    /\ \E v \in Versions :
          /\ ~Stored(v)
          /\ \A u \in Versions : u < v => Stored(u)
          /\ flowOf' = [flowOf EXCEPT ![v] = insertion[e].flow]
          /\ number' = [number EXCEPT ![v] = insertion[e].number]
          /\ release' = [release EXCEPT ![v] = "draft"]
          /\ script' = [script EXCEPT ![v] = insertion[e].script]
          /\ draft' = [draft EXCEPT ![insertion[e].flow] = v]
    /\ UNCHANGED <<storeVars, templates, published, snapshot, hook>>

InsertVersionFails(e) ==
    /\ insertion[e] # NoInsertion
    /\ NumberTaken(e)
    /\ insertion' = [insertion EXCEPT ![e] = NoInsertion]
    /\ UNCHANGED <<storeVars, catalogRows, snapshot, hook>>

\* Mutant of PublishVersion: the draft pointer is left alone.
PublishKeepsDraftPointer(f, v) ==
    /\ v \in VersionsOf(f)
    /\ release' = [u \in Versions |->
          IF u = v THEN "published"
          ELSE IF u \in VersionsOf(f) /\ release[u] = "published" THEN "archived"
          ELSE release[u]]
    /\ published' = [published EXCEPT ![f] = v]
    /\ UNCHANGED <<storeVars, templates, flowOf, number, script, draft, snapshot, insertion, hook>>

\* publish_flow_version, and rollback_flow_version, which is the same call: any
\* version of the flow, one that was never published included.  The draft
\* pointer is cleared even when it points to another version.
PublishVersion(f, v) ==
    /\ v \in VersionsOf(f)
    /\ release' = [u \in Versions |->
          IF u = v THEN "published"
          ELSE IF u \in VersionsOf(f) /\ release[u] = "published" THEN "archived"
          ELSE release[u]]
    /\ published' = [published EXCEPT ![f] = v]
    /\ draft' = [draft EXCEPT ![f] = 0]
    /\ UNCHANGED <<storeVars, templates, flowOf, number, script, snapshot, insertion, hook>>
-----------------------------------------------------------------------------
(***************************************************************************)
(* create_task_from_published_flow: two SELECTs and an INSERT.             *)
(***************************************************************************)

\* A request whose key has a row is answered with that task.
ReadKey(h, t) ==
    /\ hook[h] = NoHook
    /\ ~Exists(t)
    /\ hook' = [hook EXCEPT ![h] = [task |-> t, version |-> 0]]
    /\ UNCHANGED <<storeVars, catalogRows, snapshot, insertion>>

\* Mutant of ReadPublished: the newest version is taken, released or not.
ReadNewest(h) ==
    /\ hook[h] # NoHook
    /\ hook[h].version = 0
    /\ \E v \in VersionsOf(WebhookFlow) :
          /\ \A u \in VersionsOf(WebhookFlow) : number[u] <= number[v]
          /\ hook' = [hook EXCEPT ![h].version = v]
    /\ UNCHANGED <<storeVars, catalogRows, snapshot, insertion>>

\* Without a published version the request ends with an error.
ReadPublished(h) ==
    /\ hook[h] # NoHook
    /\ hook[h].version = 0
    /\ IF published[WebhookFlow] = 0
       THEN hook' = [hook EXCEPT ![h] = NoHook]
       ELSE hook' = [hook EXCEPT ![h].version = published[WebhookFlow]]
    /\ UNCHANGED <<storeVars, catalogRows, snapshot, insertion>>

\* Mutant of InsertTask: the loser of the race overwrites the row.
InsertOrReplaceTask(h) ==
    /\ hook[h].version # 0
    /\ IF Exists(hook[h].task) THEN UNCHANGED storeVars ELSE CreateTask(hook[h].task)
    /\ snapshot' = [snapshot EXCEPT ![hook[h].task] = hook[h].version]
    /\ hook' = [hook EXCEPT ![h] = NoHook]
    /\ UNCHANGED <<catalogRows, insertion>>

\* The INSERT; it fails on the UNIQUE key if another request was faster.
InsertTask(h) ==
    /\ hook[h].version # 0
    /\ IF Exists(hook[h].task)
       THEN UNCHANGED <<storeVars, snapshot>>
       ELSE /\ CreateTask(hook[h].task)
            /\ snapshot' = [snapshot EXCEPT ![hook[h].task] = hook[h].version]
    /\ hook' = [hook EXCEPT ![h] = NoHook]
    /\ UNCHANGED <<catalogRows, insertion>>

CatalogStep ==
    \/ \E f \in Flows : CreateFlow(f)
    \/ \E f \in Flows, v \in Versions : PublishVersion(f, v)
    \/ \E e \in Editors :
          \/ \E f \in Flows, s \in Scripts : ReadNextNumber(e, f, s)
          \/ \E f \in Flows, v \in Versions : CopyVersion(e, f, v)
          \/ InsertVersion(e)
          \/ InsertVersionFails(e)
    \/ \E h \in Hooks :
          \/ \E t \in Tasks : ReadKey(h, t)
          \/ ReadPublished(h)
          \/ InsertTask(h)

CatalogSpec == StoreInit /\ CatalogInit /\ [][CatalogStep]_platformVars
-----------------------------------------------------------------------------
\* A flow has at most one published version, the one its pointer names; the
\* draft pointer, when set, names a version that is a draft still and is the
\* newest of the flow.
PointersAgree ==
    \A f \in Flows :
        /\ {v \in VersionsOf(f) : release[v] = "published"} =
              IF published[f] = 0 THEN {} ELSE {published[f]}
        /\ draft[f] # 0 =>
              /\ draft[f] \in VersionsOf(f)
              /\ release[draft[f]] = "draft"
              /\ \A v \in VersionsOf(f) : v <= draft[f]

\* Version numbers of a flow are unique and have no gap, whatever requests
\* overlap: of two that computed the same number one fails.
NumbersInOrder ==
    \A f \in Flows :
        /\ {number[v] : v \in VersionsOf(f)} = 1..Cardinality(VersionsOf(f))
        /\ \A u, v \in VersionsOf(f) : u < v => number[u] < number[v]

\* Every task has a snapshot, of a version of the webhook's flow that is or was
\* published: no task ever runs a draft.
SnapshotReleased ==
    \A t \in Tasks :
        /\ Exists(t) <=> snapshot[t] # 0
        /\ Exists(t) => /\ snapshot[t] \in VersionsOf(WebhookFlow)
                        /\ release[snapshot[t]] \in {"published", "archived"}

\* A task keeps the snapshot it was created with: neither a later version nor
\* a second request for its key changes what it will run.
SnapshotFixed == [][\A t \in Tasks : Exists(t) => snapshot'[t] = snapshot[t]]_platformVars

\* The numbers of a flow's versions that are or were published.
ReleasedNumbers(f) ==
    {number[v] : v \in {u \in VersionsOf(f) : release[u] \in {"published", "archived"}}}

NumberOf(v) == IF v = 0 THEN 0 ELSE number[v]

Releases == INSTANCE FlowReleases WITH
    count <- [f \in Flows |-> Cardinality(VersionsOf(f))],
    released <- [f \in Flows |-> ReleasedNumbers(f)],
    live <- [f \in Flows |-> NumberOf(published[f])],
    runs <- [t \in Tasks |-> NumberOf(snapshot[t])]

\* However requests overlap, the rows and pointers of the flows and the
\* snapshots of the tasks change as FlowReleases says: no number is given out
\* twice or skipped, a flow goes live only by a release, and a task starts with
\* a version that was released and keeps it.
ImplementsReleases == Releases!Spec
=============================================================================
