--------------------- MODULE AgentConfiguration ---------------------
(***************************************************************************)
(* The local Agent configuration workspace of one Agent: operators edit,   *)
(* validate and publish drafts and roll back, beside direct writes of      *)
(* drafts and shared model connections.  A workspace operation works on a  *)
(* private copy of the whole configuration tree and installs it by renames *)
(* under the store's lock, if the tree has not changed since the copy.     *)
(* Validation and publication also write compiled packages into the live   *)
(* tree, without the lock.                                                 *)
(***************************************************************************)
EXTENDS Naturals

CONSTANTS
    Callers,        \* concurrent API requests
    Drafts,
    Versions,
    Contents,       \* contract bundles
    Connections,    \* shared model connections
    Refs,           \* the connections each contract names
    MaxRevision,    \* bound on the revisions of a draft
    MaxStamp,       \* bound on the direct writes that leave a new timestamp
    NoCaller, NoDraft, NoVersion, NoContent, NoValidation, NoTree

ASSUME ConfigurationAssumption ==
    /\ Refs \in [Contents -> SUBSET Connections]
    /\ MaxRevision \in Nat \ {0} /\ MaxStamp \in Nat
    /\ NoCaller \notin Callers /\ NoVersion \notin Versions /\ NoContent \notin Contents

VARIABLES
    tree,       \* the live configuration directory
    lock,       \* who holds the store's lock between two steps
    call,       \* the request each caller serves
    issued,     \* the draft and version ids drawn so far
    stamp       \* distinguishes direct writes by their timestamps

vars == <<tree, lock, call, issued, stamp>>

Packages == {"compiled", "compiled_publication"}

EmptyTree ==
    [drafts      |-> [d \in Drafts |-> NoDraft],
     versions    |-> [v \in Versions |-> NoVersion],
     active      |-> NoVersion,
     connections |-> [k \in Connections |-> "absent"],
     packages    |-> [p \in Packages |-> [d \in Drafts |-> NoContent]],
     stamp       |-> 0]

Idle == [pc |-> "idle", op |-> "none", draft |-> NoDraft, seen |-> 0, content |-> NoContent,
         validation |-> NoValidation, version |-> NoVersion, expected |-> NoVersion,
         base |-> NoTree, staged |-> NoTree]

Init ==
    /\ tree = EmptyTree
    /\ lock = NoCaller
    /\ call = [c \in Callers |-> Idle]
    /\ issued = {}
    /\ stamp = 0

Free == lock = NoCaller

Reply(c) == call' = [call EXCEPT ![c] = Idle]

Goto(c, pc) == call' = [call EXCEPT ![c].pc = pc]
-----------------------------------------------------------------------------
(* Reads: get_draft and rollback_version's first unit of work.  Each reads  *)
(* a copy of the tree taken under the lock.                                *)

\* The caller keeps the draft's revision and, for what it will save, a content.
ReadDraft(c, op, d, x, validation, pc) ==
    /\ Free /\ call[c] = Idle
    /\ tree.drafts[d] # NoDraft
    /\ call' = [call EXCEPT ![c] =
                  [Idle EXCEPT !.pc = pc, !.op = op, !.draft = d, !.content = x,
                               !.seen = tree.drafts[d].revision, !.validation = validation]]
    /\ UNCHANGED <<tree, lock, issued, stamp>>

\* Contract, workflow stages, skill packs and knowledge bindings: a candidate
\* built from the draft that was read.
BeginEdit(c, d, x) == ReadDraft(c, "edit", d, x, NoValidation, "ready")

\* Name and purpose: only the revision of the read is used.
BeginRename(c, d) == ReadDraft(c, "rename", d, NoContent, NoValidation, "ready")

BeginValidate(c, d) ==
    tree.drafts[d] # NoDraft
    /\ ReadDraft(c, "validate", d, tree.drafts[d].content, NoValidation, "compile")

\* _current_publication_validation: the draft's last operation is a validation
\* of the revision before the one it made, and it has no blocker.
Publishable(record) ==
    /\ record.validation # NoValidation
    /\ record.validation.revision + 1 = record.revision
    /\ record.validation.passed

BeginPublish(c, d) ==
    /\ tree.drafts[d] # NoDraft
    /\ Publishable(tree.drafts[d])
    /\ ReadDraft(c, "publish", d, tree.drafts[d].content, tree.drafts[d].validation, "compile")

BeginRollback(c, v) ==
    /\ Free /\ call[c] = Idle
    /\ tree.versions[v] # NoVersion
    /\ call' = [call EXCEPT ![c] = [Idle EXCEPT !.pc = "ready", !.op = "rollback",
                                                !.version = v, !.expected = tree.active]]
    /\ UNCHANGED <<tree, lock, issued, stamp>>
-----------------------------------------------------------------------------
(* The adapters of validation and publication.                             *)

PackageOf(op) == IF op = "validate" THEN "compiled" ELSE "compiled_publication"

\* compile_draft_agent takes no lock: it may write into the tree, and create it
\* anew, while another caller installs.
Compile(c) ==
    /\ call[c].pc = "compile"
    /\ tree' = [tree EXCEPT !.packages[PackageOf(call[c].op)][call[c].draft] = call[c].content]
    /\ Goto(c, IF call[c].op = "validate" THEN "run" ELSE "check")
    /\ UNCHANGED <<lock, issued, stamp>>

Usable(x, connections) == \A k \in Refs[x] : connections[k] = "active"

\* The validation run loads the package from the tree.  An archived connection
\* is a blocker; without one, the run may pass or fail.
RunPackage(c) ==
    /\ call[c].pc = "run"
    /\ LET ran == tree.packages["compiled"][call[c].draft] IN
         /\ ran # NoContent
         /\ \E passed \in BOOLEAN :
              /\ passed => Usable(ran, tree.connections)
              /\ call' = [call EXCEPT ![c].pc = "ready", ![c].validation =
                            [revision |-> call[c].seen, content |-> call[c].content,
                             ran |-> ran, passed |-> passed]]
    /\ UNCHANGED <<tree, lock, issued, stamp>>

\* validate_draft_publication, under the lock.
CheckPublication(c) ==
    /\ Free /\ call[c].pc = "check"
    /\ tree.packages["compiled_publication"][call[c].draft] # NoContent
    /\ Usable(call[c].content, tree.connections)
    /\ Goto(c, "ready")
    /\ UNCHANGED <<tree, lock, issued, stamp>>
-----------------------------------------------------------------------------
(* The unit of work: a copy under the lock, the operation on the copy, and  *)
(* the installation under the lock again.                                   *)

\* save_draft_record: the next revision, if the expected one is still there.
Saves(c, x, validation) ==
    LET d == call[c].draft IN
    IF tree.drafts[d] # NoDraft /\ tree.drafts[d].revision = call[c].seen /\ call[c].seen < MaxRevision
    THEN {[tree EXCEPT !.drafts[d] =
             [revision |-> call[c].seen + 1, content |-> x, validation |-> validation]]}
    ELSE {}

\* Mutant of Publishes: what the draft holds by now is published.
PublishesCurrent(c) ==
    LET d == call[c].draft IN
    IF tree.drafts[d] # NoDraft
    THEN {[tree EXCEPT !.versions[v] = [content |-> tree.drafts[d].content,
                                        validation |-> call[c].validation],
                       !.active = v] : v \in Versions \ issued}
    ELSE {}

\* publish_version_record: the version and the active pointer.
Publishes(c) ==
    LET d == call[c].draft IN
    IF tree.drafts[d] # NoDraft /\ tree.drafts[d].revision = call[c].seen
       /\ tree.drafts[d].content = call[c].content
    THEN {[tree EXCEPT !.versions[v] = [content |-> call[c].content, validation |-> call[c].validation],
                       !.active = v] : v \in Versions \ issued}
    ELSE {}

\* activate_version_record, with the pointer the operator named.
Activates(c) ==
    IF tree.versions[call[c].version] # NoVersion /\ tree.active = call[c].expected
    THEN {[tree EXCEPT !.active = call[c].version]}
    ELSE {}

\* What the operation may leave in the private copy.
Results(c) ==
    CASE call[c].op = "edit"     -> Saves(c, call[c].content, NoValidation)
      [] call[c].op = "rename"   -> Saves(c, tree.drafts[call[c].draft].content, NoValidation)
      [] call[c].op = "validate" -> Saves(c, tree.drafts[call[c].draft].content, call[c].validation)
      [] call[c].op = "publish"  -> Publishes(c)
      [] call[c].op = "rollback" -> Activates(c)

Stage(c) ==
    /\ Free /\ call[c].pc = "ready"
    /\ \E result \in Results(c) :
         /\ call' = [call EXCEPT ![c].pc = "staged", ![c].base = tree, ![c].staged = result,
                                 ![c].version = IF call[c].op = "publish" THEN result.active ELSE @]
         /\ issued' = issued \cup {v \in Versions : result.versions[v] # NoVersion}
    /\ UNCHANGED <<tree, lock, stamp>>

\* Mutant of Compare: the copy is installed over whatever is there.
CompareNothing(c) ==
    /\ Free /\ call[c].pc = "staged"
    /\ lock' = c /\ Goto(c, "compared")
    /\ UNCHANGED <<tree, issued, stamp>>

\* _install_staged_directories: the tree must be what was copied.
Compare(c) ==
    /\ Free /\ call[c].pc = "staged"
    /\ IF tree = call[c].base
       THEN lock' = c /\ Goto(c, "compared")
       ELSE lock' = lock /\ Reply(c)
    /\ UNCHANGED <<tree, issued, stamp>>

\* os.replace(current, backup): what is there now, packages included.
MoveAway(c) ==
    /\ call[c].pc = "compared"
    /\ tree' = EmptyTree
    /\ call' = [call EXCEPT ![c].pc = "moved", ![c].base = tree]
    /\ UNCHANGED <<lock, issued, stamp>>

\* os.replace(staged, current) succeeds when nobody has made the directory anew.
Put(c) ==
    /\ call[c].pc = "moved"
    /\ tree = EmptyTree
    /\ tree' = call[c].staged
    /\ Goto(c, "put")
    /\ UNCHANGED <<lock, issued, stamp>>

\* The rename failed for another reason: the backup is renamed back.
PutFails(c) ==
    /\ call[c].pc = "moved"
    /\ tree = EmptyTree
    /\ tree' = call[c].base
    /\ lock' = NoCaller /\ Reply(c)
    /\ UNCHANGED <<issued, stamp>>

\* A package compiled meanwhile stands in the way of the copy and of the backup
\* alike; rollback() then deletes both.
PutBlocked(c) ==
    /\ call[c].pc = "moved"
    /\ tree # EmptyTree
    /\ lock' = NoCaller /\ Reply(c)
    /\ UNCHANGED <<tree, issued, stamp>>

\* The audit directory is installed in the same way; the lock is released.
InstallAudit(c) ==
    /\ call[c].pc = "put"
    /\ lock' = NoCaller /\ Reply(c)
    /\ UNCHANGED <<tree, issued, stamp>>

AuditFails(c) ==
    /\ call[c].pc = "put"
    /\ tree' = call[c].base
    /\ lock' = NoCaller /\ Reply(c)
    /\ UNCHANGED <<issued, stamp>>

\* Mutant of GiveUp: an error between the comparison and the first rename leaves
\* the lock taken.
GiveUpHolding(c) ==
    /\ call[c].pc \notin {"idle", "moved", "put"}
    /\ Reply(c)
    /\ UNCHANGED <<tree, lock, issued, stamp>>

\* Refused, conflicting, failed or timed out, up to the first rename: the private
\* copy is discarded.
GiveUp(c) ==
    /\ call[c].pc \notin {"idle", "moved", "put"}
    /\ lock' = IF lock = c THEN NoCaller ELSE lock
    /\ Reply(c)
    /\ UNCHANGED <<tree, issued, stamp>>

\* The API process dies: its locks are released, its copies and backups stay
\* behind unread.
Crash ==
    /\ call # [c \in Callers |-> Idle]
    /\ call' = [c \in Callers |-> Idle]
    /\ lock' = NoCaller
    /\ UNCHANGED <<tree, issued, stamp>>
-----------------------------------------------------------------------------
(* Direct writes of LocalAgentConfigurationStore, each under the lock.      *)

CreateDraft(d, x) ==
    /\ Free /\ d \notin issued
    /\ tree' = [tree EXCEPT !.drafts[d] = [revision |-> 1, content |-> x, validation |-> NoValidation]]
    /\ issued' = issued \cup {d}
    /\ UNCHANGED <<lock, call, stamp>>

\* A write that could bring back an earlier tree leaves a new timestamp in it.
Stamped(k, from, to) ==
    /\ Free /\ tree.connections[k] = from /\ stamp < MaxStamp
    /\ stamp' = stamp + 1
    /\ tree' = [tree EXCEPT !.connections[k] = to, !.stamp = stamp + 1]
    /\ UNCHANGED <<lock, call, issued>>

CreateConnection(k) == Stamped(k, "absent", "active")

UpdateConnection(k) == \E state \in {"active", "archived"} : Stamped(k, state, state)

RestoreConnection(k) == Stamped(k, "archived", "active")

ArchiveConnection(k) ==
    /\ Free /\ tree.connections[k] = "active"
    /\ tree' = [tree EXCEPT !.connections[k] = "archived"]
    /\ UNCHANGED <<lock, call, issued, stamp>>

\* Mutant of Eligible: only published versions block a deletion.
EligiblePublished(k) ==
    /\ tree.connections[k] = "archived"
    /\ \A v \in Versions : tree.versions[v] # NoVersion => k \notin Refs[tree.versions[v].content]

\* The deletion's blockers: a connection that is not archived, and references
\* from drafts or published versions.
Eligible(k) ==
    /\ tree.connections[k] = "archived"
    /\ \A d \in Drafts : tree.drafts[d] # NoDraft => k \notin Refs[tree.drafts[d].content]
    /\ \A v \in Versions : tree.versions[v] # NoVersion => k \notin Refs[tree.versions[v].content]

DeleteConnection(k) ==
    /\ Free /\ Eligible(k)
    /\ tree' = [tree EXCEPT !.connections[k] = "absent"]
    /\ UNCHANGED <<lock, call, issued, stamp>>
-----------------------------------------------------------------------------
Request(c) ==
    \/ \E d \in Drafts :
         BeginRename(c, d) \/ BeginValidate(c, d) \/ BeginPublish(c, d)
         \/ \E x \in Contents : BeginEdit(c, d, x)
    \/ \E v \in Versions : BeginRollback(c, v)

Work(c) == Compile(c) \/ RunPackage(c) \/ CheckPublication(c) \/ Stage(c) \/ GiveUp(c)

Install(c) ==
    Compare(c) \/ MoveAway(c) \/ Put(c) \/ PutFails(c) \/ PutBlocked(c) \/ InstallAudit(c) \/ AuditFails(c)

DirectWrite ==
    \/ \E d \in Drafts, x \in Contents : CreateDraft(d, x)
    \/ \E k \in Connections :
         \/ CreateConnection(k) \/ UpdateConnection(k) \/ RestoreConnection(k)
         \/ ArchiveConnection(k) \/ DeleteConnection(k)

Next == (\E c \in Callers : Request(c) \/ Work(c) \/ Install(c)) \/ DirectWrite \/ Crash

Spec == Init /\ [][Next]_vars
-----------------------------------------------------------------------------
(* Properties.                                                             *)

ValidationRecords ==
    [revision : 1..MaxRevision, content : Contents, ran : Contents, passed : BOOLEAN]

Trees ==
    [drafts      : [Drafts -> {NoDraft} \cup
                      [revision : 1..MaxRevision, content : Contents,
                       validation : ValidationRecords \cup {NoValidation}]],
     versions    : [Versions -> {NoVersion} \cup [content : Contents, validation : ValidationRecords]],
     active      : Versions \cup {NoVersion},
     connections : [Connections -> {"absent", "active", "archived"}],
     packages    : [Packages -> [Drafts -> Contents \cup {NoContent}]],
     stamp       : 0..MaxStamp]

\* What is committed: an installation counts when it ends, or with its crash.
Committed == IF lock # NoCaller /\ call[lock].pc \in {"moved", "put"} THEN call[lock].base ELSE tree

Configuration(t) == [t EXCEPT !.packages = EmptyTree.packages]

\* The types, and that only the lock's holder is installing.
ConfigTypeOK ==
    /\ tree \in Trees
    /\ lock \in Callers \cup {NoCaller}
    /\ issued \subseteq Drafts \cup Versions
    /\ stamp \in 0..MaxStamp
    /\ \A c \in Callers :
         /\ call[c].pc \in {"idle", "compile", "run", "check", "ready", "staged", "compared", "moved", "put"}
         /\ call[c].pc \in {"compared", "moved", "put"} <=> lock = c
         /\ call[c].validation \in ValidationRecords \cup {NoValidation}
         /\ {call[c].base, call[c].staged} \subseteq Trees \cup {NoTree}

\* What an operation may change: its own draft, from the revision its caller had
\* read; a version that is new, and the pointer; or the pointer, from the one its
\* operator had named.
OwnChange(k, before, after) ==
    \/ /\ k.op \in {"edit", "rename", "validate"}
       /\ after = [before EXCEPT !.drafts[k.draft] = after.drafts[k.draft]]
       /\ before.drafts[k.draft].revision = k.seen
       /\ k.op # "edit" => before.drafts[k.draft].content = after.drafts[k.draft].content
    \/ /\ k.op = "publish"
       /\ after = [before EXCEPT !.versions[k.version] = after.versions[k.version], !.active = k.version]
       /\ before.versions[k.version] = NoVersion
       /\ before.drafts[k.draft].revision = k.seen
    \/ /\ k.op = "rollback"
       /\ after = [before EXCEPT !.active = k.version]
       /\ before.active = k.expected

\* A commit replaces the whole tree, and still undoes nothing that others have
\* done since its caller read, a direct write, a validation or a deletion
\* included.  Only the loss of the whole tree is left out: see the README.
CommitsAreOwn ==
    [][LET before == Configuration(Committed)
           after  == Configuration(Committed')
       IN lock # NoCaller /\ after # before =>
            after = EmptyTree \/ OwnChange(call[lock], before, after)]_vars

\* Every published version has the content its validation had been asked for,
\* whatever was edited, validated or rolled back meanwhile, and that validation
\* passed.
PublishedRevisionValidated ==
    \A v \in Versions : tree.versions[v] # NoVersion =>
      /\ tree.versions[v].validation.content = tree.versions[v].content
      /\ tree.versions[v].validation.passed

\* A connection that a published version names is never deleted, although the
\* publication looked at it in an earlier locked section.
ReferencesExist ==
    \A v \in Versions : tree.versions[v] # NoVersion =>
      \A k \in Refs[tree.versions[v].content] : tree.connections[k] # "absent"

\* What is published is what its validation ran.
PublishedWasRun ==
    \A v \in Versions : tree.versions[v] # NoVersion =>
      tree.versions[v].validation.ran = tree.versions[v].content
=============================================================================
