----------------------- MODULE AgentConfigurationProofs -----------------------
(***************************************************************************)
(* The inductive invariant of AgentConfiguration, and from it that commits  *)
(* undo nothing, that published versions were validated and that their     *)
(* connections exist.                                                      *)
(***************************************************************************)
EXTENDS AgentConfiguration, TLAPS

Requests ==
    [pc         : {"idle", "compile", "run", "check", "ready", "staged", "compared", "moved", "put"},
     op         : {"none", "edit", "rename", "validate", "publish", "rollback"},
     draft      : Drafts \cup {NoDraft},
     seen       : 0..MaxRevision,
     content    : Contents \cup {NoContent},
     validation : ValidationRecords \cup {NoValidation},
     version    : Versions \cup {NoVersion},
     expected   : Versions \cup {NoVersion},
     base       : Trees \cup {NoTree},
     staged     : Trees \cup {NoTree}]

DraftRecords ==
    [revision : 1..MaxRevision, content : Contents, validation : ValidationRecords \cup {NoValidation}]

VersionRecords == [content : Contents, validation : ValidationRecords]

\* What holds of every tree, of the private copies and of the backups too.
DraftsSound(t) ==
    \A d \in Drafts : t.drafts[d] # NoDraft =>
      /\ d \in issued
      /\ Publishable(t.drafts[d]) => t.drafts[d].validation.content = t.drafts[d].content

VersionSound(t, v) ==
    t.versions[v] # NoVersion =>
      /\ t.versions[v].validation.content = t.versions[v].content
      /\ t.versions[v].validation.passed
      /\ \A k \in Refs[t.versions[v].content] : t.connections[k] # "absent"

VersionsSound(t) ==
    \A v \in Versions : VersionSound(t, v) /\ (t.versions[v] # NoVersion => v \in issued)

Sound(t) == t \in Trees /\ DraftsSound(t) /\ VersionsSound(t)

\* What a request knows by its program point.
Knows(k) ==
    /\ k.pc # "idle" => k.op # "none"
    /\ k.op \in {"edit", "rename", "validate", "publish"} =>
         k.draft \in Drafts \cap issued /\ k.seen \in 1..MaxRevision
    /\ k.op \in {"edit", "validate", "publish"} => k.content \in Contents
    /\ k.op = "rollback" => k.version \in Versions
    /\ k.pc = "run" => k.op = "validate"
    /\ k.pc = "check" => k.op = "publish"
    /\ k.pc = "compile" => k.op \in {"validate", "publish"}
    /\ k.op = "publish" \/ (k.op = "validate" /\ k.pc \in {"ready", "staged", "compared", "moved", "put"}) =>
         k.validation \in ValidationRecords /\ k.validation.content = k.content
    /\ k.op = "publish" => k.validation.passed

\* What a request has read is still so, unless the draft has moved on.
Fresh(k, t) ==
    k.op \in {"validate", "publish"} /\ k.pc \in {"compile", "run", "check", "ready"}
      /\ t.drafts[k.draft] # NoDraft =>
        /\ t.drafts[k.draft].revision >= k.seen
        /\ t.drafts[k.draft].revision = k.seen =>
             /\ t.drafts[k.draft].content = k.content
             /\ k.op = "publish" /\ k.pc = "ready" =>
                  \A r \in Refs[k.content] : t.connections[r] # "absent"

\* From t to u a draft is kept, with its connections, or has moved on, or is lost.
Kept(d, t, u) ==
    u.drafts[d] # NoDraft =>
      \/ /\ u.drafts[d] = t.drafts[d]
         /\ \A k \in Refs[u.drafts[d].content] : t.connections[k] # "absent" => u.connections[k] # "absent"
      \/ t.drafts[d] # NoDraft /\ u.drafts[d].revision > t.drafts[d].revision

\* The copies of a unit of work.
Copies(k) ==
    k.pc \in {"staged", "compared", "moved", "put"} =>
      /\ Sound(k.base) /\ Sound(k.staged)
      /\ \A d \in Drafts : Kept(d, k.base, k.staged)
      /\ OwnChange(k, Configuration(k.base), Configuration(k.staged))

\* What the live tree holds while an installation is under way.
Installing(k) ==
    /\ k.pc = "compared" => Configuration(tree) = Configuration(k.base)
    /\ k.pc = "moved" => Configuration(tree) = EmptyTree
    /\ k.pc = "put" => Configuration(tree) = Configuration(k.staged)

\* The inductive invariant.
ConfigInv ==
    /\ call \in [Callers -> Requests]
    /\ lock \in Callers \cup {NoCaller}
    /\ issued \subseteq Drafts \cup Versions
    /\ stamp \in 0..MaxStamp
    /\ Sound(tree)
    /\ \A c \in Callers :
         /\ call[c].pc \in {"compared", "moved", "put"} <=> lock = c
         /\ Knows(call[c]) /\ Fresh(call[c], Committed) /\ Copies(call[c]) /\ Installing(call[c])
-----------------------------------------------------------------------------
LEMMA EmptyTyped == EmptyTree \in Trees
  BY ConfigurationAssumption DEF EmptyTree, Trees, Packages

LEMMA EmptySound == Sound(EmptyTree)
  <1>1. /\ \A d \in Drafts : EmptyTree.drafts[d] = NoDraft
        /\ \A v \in Versions : EmptyTree.versions[v] = NoVersion
    BY DEF EmptyTree
  <1>. QED BY <1>1, EmptyTyped DEF Sound, DraftsSound, VersionsSound, VersionSound

\* The parts of a tree that Configuration keeps.
LEMMA ConfigurationParts ==
  ASSUME NEW t \in Trees
  PROVE  /\ Configuration(t).drafts = t.drafts /\ Configuration(t).versions = t.versions
         /\ Configuration(t).active = t.active /\ Configuration(t).connections = t.connections
         /\ Configuration(t) \in Trees
  BY EmptyTyped DEF Configuration, Trees

LEMMA IdleTyped == Idle \in Requests
  BY ConfigurationAssumption DEF Idle, Requests

LEMMA IdleInv == Knows(Idle) /\ (\A t : Fresh(Idle, t)) /\ Copies(Idle) /\ Installing(Idle)
  BY DEF Idle, Knows, Fresh, Copies, Installing

LEMMA InitInv == Init => ConfigInv
  <1>. SUFFICES ASSUME Init PROVE ConfigInv
    OBVIOUS
  <1>1. call \in [Callers -> Requests] /\ \A c \in Callers : call[c] = Idle
    BY IdleTyped DEF Init
  <1>2. Sound(tree) /\ stamp \in 0..MaxStamp
    BY EmptySound, ConfigurationAssumption DEF Init
  <1>3. Idle.pc = "idle"
    BY DEF Idle
  <1>. QED BY <1>1, <1>2, <1>3, IdleInv, ConfigurationAssumption DEF Init, ConfigInv

LEMMA DraftTyped ==
  ASSUME NEW t \in Trees, NEW d \in Drafts, t.drafts[d] # NoDraft
  PROVE  t.drafts[d] \in DraftRecords
  BY DEF Trees, DraftRecords

LEMMA VersionTyped ==
  ASSUME NEW t \in Trees, NEW v \in Versions, t.versions[v] # NoVersion
  PROVE  t.versions[v] \in VersionRecords
  BY DEF Trees, VersionRecords

LEMMA FreshKept ==
  ASSUME NEW k \in Requests, NEW t \in Trees, NEW u \in Trees, k.draft \in Drafts,
         k.seen \in Nat, Fresh(k, t), Kept(k.draft, t, u)
  PROVE  Fresh(k, u)
  <1>. SUFFICES ASSUME k.op \in {"validate", "publish"},
                       k.pc \in {"compile", "run", "check", "ready"}, u.drafts[k.draft] # NoDraft
                PROVE  /\ u.drafts[k.draft].revision >= k.seen
                       /\ u.drafts[k.draft].revision = k.seen =>
                            /\ u.drafts[k.draft].content = k.content
                            /\ k.op = "publish" /\ k.pc = "ready" =>
                                 \A r \in Refs[k.content] : u.connections[r] # "absent"
    BY DEF Fresh
  <1>1. CASE u.drafts[k.draft] = t.drafts[k.draft]
             /\ \A r \in Refs[u.drafts[k.draft].content] :
                  t.connections[r] # "absent" => u.connections[r] # "absent"
    BY <1>1 DEF Fresh
  <1>2. CASE t.drafts[k.draft] # NoDraft /\ u.drafts[k.draft].revision > t.drafts[k.draft].revision
    <2>1. t.drafts[k.draft].revision \in Nat /\ u.drafts[k.draft].revision \in Nat
      BY <1>2, DraftTyped DEF DraftRecords
    <2>2. t.drafts[k.draft].revision >= k.seen
      BY <1>2 DEF Fresh
    <2>. QED BY <1>2, <2>1, <2>2
  <1>. QED BY <1>1, <1>2 DEF Kept

LEMMA CommittedSound == ConfigInv => Sound(Committed)
  BY DEF ConfigInv, Committed, Copies

\* A step of one caller, or of none.
LEMMA OneCaller ==
  ASSUME ConfigInv, NEW c \in Callers, NEW k \in Requests,
         call' = [call EXCEPT ![c] = k],
         lock' \in Callers \cup {NoCaller},
         k.pc \in {"compared", "moved", "put"} <=> lock' = c,
         \A b \in Callers \ {c} : lock = b <=> lock' = b,
         issued \subseteq issued', issued' \subseteq Drafts \cup Versions, stamp' \in 0..MaxStamp,
         Sound(tree)',
         Committed' \in Trees, \A d \in Drafts \cap issued : Kept(d, Committed, Committed'),
         lock' # c => Configuration(tree') = Configuration(tree) \/ lock' = NoCaller,
         Knows(k)', Fresh(k, Committed)', Copies(k)', Installing(k)'
  PROVE  ConfigInv'
  <1>1. call' \in [Callers -> Requests] /\ call'[c] = k
    BY DEF ConfigInv
  <1>2. ASSUME NEW b \in Callers, b # c
        PROVE  /\ call'[b].pc \in {"compared", "moved", "put"} <=> lock' = b
               /\ Knows(call[b])' /\ Fresh(call[b], Committed)' /\ Copies(call[b])'
               /\ Installing(call[b])'
    <2>0. PICK kb \in Requests : kb = call[b]
      BY DEF ConfigInv
    <2>1. call'[b] = kb
      BY <1>2, <2>0 DEF ConfigInv
    <2>2. /\ kb.pc \in {"compared", "moved", "put"} <=> lock = b
          /\ Knows(kb) /\ Fresh(kb, Committed) /\ Copies(kb) /\ Installing(kb)
      BY <2>0 DEF ConfigInv
    <2>3. Knows(kb)'
      BY <2>2 DEF Knows
    <2>4. Fresh(kb, Committed)'
      <3>1. CASE kb.op \in {"validate", "publish"}
        <4>1. kb.draft \in Drafts \cap issued /\ kb.seen \in Nat
          BY <2>2, <3>1, ConfigurationAssumption DEF Knows
        <4>. QED BY <2>2, <4>1, FreshKept, CommittedSound DEF Sound
      <3>. QED BY <3>1 DEF Fresh
    <2>5. Copies(kb)'
      BY <2>2 DEF Copies, Sound, DraftsSound, VersionsSound, VersionSound
    <2>6. Installing(kb)'
      BY <1>2, <2>2, ConfigurationAssumption DEF Installing
    <2>. QED BY <1>2, <2>1, <2>2, <2>3, <2>4, <2>5, <2>6
  <1>. QED BY <1>1, <1>2 DEF ConfigInv

\* Steps outside an installation that change nothing but the caller's own record.
LEMMA PrivateStep ==
  ASSUME ConfigInv, NEW c \in Callers, NEW k \in Requests,
         call' = [call EXCEPT ![c] = k],
         UNCHANGED <<tree, lock, stamp>>,
         issued \subseteq issued', issued' \subseteq Drafts \cup Versions,
         call[c].pc \notin {"compared", "moved", "put"}, k.pc \notin {"compared", "moved", "put"},
         Knows(k)', Fresh(k, Committed), Copies(k)'
  PROVE  ConfigInv'
  <1>1. lock # c /\ lock' # c
    BY DEF ConfigInv
  <1>2. Committed' = Committed
    BY <1>1 DEF Committed, ConfigInv
  <1>3. Sound(tree)'
    BY DEF ConfigInv, Sound, DraftsSound, VersionsSound, VersionSound
  <1>4. Committed' \in Trees /\ \A d \in Drafts : Kept(d, Committed, Committed')
    BY <1>2, CommittedSound DEF Kept, Sound
  <1>5. Fresh(k, Committed)'
    BY <1>2 DEF Fresh
  <1>6. Installing(k)'
    BY DEF Installing
  <1>. QED BY <1>1, <1>3, <1>4, <1>5, <1>6, OneCaller DEF ConfigInv

LEMMA ReadDraftInv ==
  ASSUME ConfigInv, NEW c \in Callers, NEW d \in Drafts, NEW x \in Contents \cup {NoContent},
         NEW op \in {"edit", "rename", "validate", "publish"},
         NEW validation \in ValidationRecords \cup {NoValidation},
         NEW pc \in {"compile", "ready"}, ReadDraft(c, op, d, x, validation, pc),
         pc = "compile" <=> op \in {"validate", "publish"},
         op = "edit" => x \in Contents,
         op \in {"validate", "publish"} => x = tree.drafts[d].content,
         op = "publish" => /\ validation \in ValidationRecords
                           /\ validation.content = x /\ validation.passed
  PROVE  ConfigInv'
  <1>1. tree.drafts[d] \in DraftRecords /\ d \in issued
    BY DraftTyped DEF ReadDraft, ConfigInv, Sound, DraftsSound
  <1>2. PICK k \in Requests :
          /\ call' = [call EXCEPT ![c] = k]
          /\ k.pc = pc /\ k.op = op /\ k.draft = d /\ k.content = x /\ k.validation = validation
          /\ k.seen = tree.drafts[d].revision /\ k.seen \in 1..MaxRevision
    <2>1. PICK n \in 0..MaxRevision : n = tree.drafts[d].revision /\ n \in 1..MaxRevision
      BY <1>1, ConfigurationAssumption DEF DraftRecords
    <2>. DEFINE r == [Idle EXCEPT !.pc = pc, !.op = op, !.draft = d, !.content = x, !.seen = n,
                                 !.validation = validation]
    <2>2. /\ r \in Requests
          /\ r.pc = pc /\ r.op = op /\ r.draft = d /\ r.content = x /\ r.seen = n
          /\ r.validation = validation
      <3>. DEFINE PC == {"idle", "compile", "run", "check", "ready", "staged", "compared", "moved", "put"}
                  Op == {"none", "edit", "rename", "validate", "publish", "rollback"}
                  D == Drafts \cup {NoDraft}  N == 0..MaxRevision  X == Contents \cup {NoContent}
                  W == ValidationRecords \cup {NoValidation}
                  V == Versions \cup {NoVersion}  T == Trees \cup {NoTree}
                  All == [pc : PC, op : Op, draft : D, seen : N, content : X, validation : W,
                          version : V, expected : V, base : T, staged : T]
      <3>1. /\ Requests = All /\ pc \in PC /\ op \in Op /\ d \in D /\ n \in N /\ x \in X
            /\ validation \in W
        BY DEF Requests
      <3>2. Idle \in All
        BY <3>1, IdleTyped
      <3>. HIDE DEF PC, Op, D, N, X, W, V, T
      <3>. QED BY <3>1, <3>2
    <2>3. call' = [call EXCEPT ![c] = r]
      BY <2>1 DEF ReadDraft
    <2>. HIDE DEF r
    <2>. QED BY <2>1, <2>2, <2>3
  <1>4. x \in Contents \/ op = "rename"
    BY <1>1 DEF DraftRecords
  <1>5. Committed = tree
    BY DEF Committed, ReadDraft, Free
  <1>6. call[c].pc = "idle"
    BY DEF ReadDraft, Idle
  <1>7. UNCHANGED <<tree, lock, issued, stamp>>
    BY DEF ReadDraft
  <1>8. Knows(k)'
    BY <1>1, <1>2, <1>4, <1>7 DEF Knows
  <1>9. Fresh(k, Committed)
    BY <1>1, <1>2, <1>5, ConfigurationAssumption DEF Fresh, DraftRecords
  <1>10. Copies(k)'
    BY <1>2 DEF Copies
  <1>. QED BY <1>2, <1>6, <1>7, <1>8, <1>9, <1>10, PrivateStep DEF ConfigInv

LEMMA RequestInv ==
  ASSUME ConfigInv, NEW c \in Callers, Request(c)
  PROVE  ConfigInv'
  <1>1. CASE \E d \in Drafts, x \in Contents : BeginEdit(c, d, x)
    BY <1>1, ReadDraftInv DEF BeginEdit
  <1>2. CASE \E d \in Drafts : BeginRename(c, d)
    BY <1>2, ReadDraftInv DEF BeginRename
  <1>3. ASSUME NEW d \in Drafts, BeginValidate(c, d) PROVE ConfigInv'
    <2>1. tree.drafts[d].content \in Contents
      BY <1>3, DraftTyped DEF BeginValidate, ConfigInv, Sound, DraftRecords
    <2>. QED BY <1>3, <2>1, ReadDraftInv DEF BeginValidate
  <1>4. ASSUME NEW d \in Drafts, BeginPublish(c, d) PROVE ConfigInv'
    <2>1. tree.drafts[d] \in DraftRecords /\ Publishable(tree.drafts[d])
      BY <1>4, DraftTyped DEF BeginPublish, ConfigInv, Sound
    <2>2. tree.drafts[d].validation.content = tree.drafts[d].content
      BY <1>4, <2>1 DEF BeginPublish, ConfigInv, Sound, DraftsSound
    <2>3. /\ tree.drafts[d].validation \in ValidationRecords /\ tree.drafts[d].validation.passed
          /\ tree.drafts[d].content \in Contents
      BY <2>1 DEF Publishable, DraftRecords
    <2>. QED BY <1>4, <2>2, <2>3, ReadDraftInv DEF BeginPublish
  <1>5. ASSUME NEW v \in Versions, BeginRollback(c, v) PROVE ConfigInv'
    <2>1. tree.active \in Versions \cup {NoVersion}
      BY DEF ConfigInv, Sound, Trees
    <2>2. PICK k \in Requests :
            /\ call' = [call EXCEPT ![c] = k]
            /\ k.pc = "ready" /\ k.op = "rollback" /\ k.version = v
      <3>. DEFINE r == [Idle EXCEPT !.pc = "ready", !.op = "rollback",
                                   !.version = v, !.expected = tree.active]
      <3>1. r \in Requests /\ r.pc = "ready" /\ r.op = "rollback" /\ r.version = v
        BY <2>1, IdleTyped DEF Requests, Idle
      <3>. QED BY <1>5, <3>1 DEF BeginRollback
    <2>3. call[c].pc = "idle"
      BY <1>5 DEF BeginRollback, Idle
    <2>4. UNCHANGED <<tree, lock, issued, stamp>>
      BY <1>5 DEF BeginRollback
    <2>5. Knows(k)' /\ Fresh(k, Committed) /\ Copies(k)'
      BY <2>2 DEF Knows, Fresh, Copies
    <2>. QED BY <2>2, <2>3, <2>4, <2>5, PrivateStep DEF ConfigInv
  <1>. QED BY <1>1, <1>2, <1>3, <1>4, <1>5 DEF Request
-----------------------------------------------------------------------------
(* The adapters: a caller's own record, and the package it compiles.        *)

\* A request that moves on, with nothing but its program point.
LEMMA Moved ==
  ASSUME ConfigInv, NEW c \in Callers,
         NEW pc \in {"idle", "compile", "run", "check", "ready", "staged", "compared", "moved", "put"},
         Goto(c, pc)
  PROVE  \E k \in Requests :
           /\ call' = [call EXCEPT ![c] = k]
           /\ k.pc = pc /\ k.op = call[c].op /\ k.draft = call[c].draft /\ k.seen = call[c].seen
           /\ k.content = call[c].content /\ k.validation = call[c].validation
           /\ k.version = call[c].version /\ k.expected = call[c].expected
           /\ k.base = call[c].base /\ k.staged = call[c].staged
  <1>1. PICK i \in Requests : i = call[c]
    BY DEF ConfigInv
  <1>. DEFINE k == [i EXCEPT !.pc = pc]
  <1>2. call' = [call EXCEPT ![c] = k]
    BY <1>1 DEF Goto
  <1>3. /\ k.pc = pc /\ k.op = i.op /\ k.draft = i.draft /\ k.seen = i.seen
        /\ k.content = i.content /\ k.validation = i.validation
        /\ k.version = i.version /\ k.expected = i.expected
        /\ k.base = i.base /\ k.staged = i.staged /\ k \in Requests
    BY DEF Requests
  <1>. HIDE DEF k
  <1>. QED BY <1>1, <1>2, <1>3

LEMMA RunPackageInv ==
  ASSUME ConfigInv, NEW c \in Callers, RunPackage(c)
  PROVE  ConfigInv'
  <1>1. PICK i \in Requests : i = call[c]
    BY DEF ConfigInv
  <1>2. i.pc = "run" /\ i.op = "validate" /\ Knows(i) /\ Fresh(i, Committed)
    BY <1>1 DEF RunPackage, ConfigInv, Knows
  <1>3. /\ i.draft \in Drafts \cap issued /\ i.seen \in 1..MaxRevision /\ i.content \in Contents
    BY <1>2 DEF Knows
  <1>4. PICK passed \in BOOLEAN, ran \in Contents :
          call' = [call EXCEPT ![c].pc = "ready", ![c].validation =
                     [revision |-> call[c].seen, content |-> call[c].content,
                      ran |-> ran, passed |-> passed]]
    <2>1. tree.packages["compiled"][call[c].draft] \in Contents \cup {NoContent}
      BY <1>1, <1>3 DEF ConfigInv, Sound, Trees, Packages
    <2>. QED BY <2>1 DEF RunPackage
  <1>5. PICK w \in ValidationRecords :
          w = [revision |-> i.seen, content |-> i.content, ran |-> ran, passed |-> passed]
    BY <1>3 DEF ValidationRecords
  <1>6. w.content = i.content
    BY <1>5
  <1>. DEFINE k == [i EXCEPT !.pc = "ready", !.validation = w]
  <1>7. call' = [call EXCEPT ![c] = k]
    BY <1>1, <1>4, <1>5
  <1>8. /\ k.pc = "ready" /\ k.op = i.op /\ k.draft = i.draft /\ k.seen = i.seen
        /\ k.content = i.content /\ k.validation = w
        /\ k \in Requests
    BY DEF Requests
  <1>. HIDE DEF k
  <1>9. PICK r \in Requests :
          /\ call' = [call EXCEPT ![c] = r]
          /\ r.pc = "ready" /\ r.op = "validate" /\ r.draft = i.draft /\ r.seen = i.seen
          /\ r.content = i.content /\ r.validation = w
    BY <1>2, <1>7, <1>8
  <1>10. UNCHANGED <<tree, lock, issued, stamp>>
    BY DEF RunPackage
  <1>11. Knows(r)'
    BY <1>3, <1>6, <1>9, <1>10 DEF Knows
  <1>12. Fresh(r, Committed)
    BY <1>2, <1>9 DEF Fresh
  <1>13. Copies(r)'
    BY <1>9 DEF Copies
  <1>. QED BY <1>1, <1>2, <1>9, <1>10, <1>11, <1>12, <1>13, PrivateStep DEF ConfigInv

LEMMA CheckPublicationInv ==
  ASSUME ConfigInv, NEW c \in Callers, CheckPublication(c)
  PROVE  ConfigInv'
  <1>1. PICK k \in Requests :
          /\ call' = [call EXCEPT ![c] = k]
          /\ k.pc = "ready" /\ k.op = call[c].op /\ k.draft = call[c].draft /\ k.seen = call[c].seen
          /\ k.content = call[c].content /\ k.validation = call[c].validation
    BY Moved DEF CheckPublication
  <1>2. call[c].pc = "check" /\ Knows(call[c]) /\ Fresh(call[c], tree) /\ Committed = tree
    BY DEF CheckPublication, ConfigInv, Committed, Free
  <1>3. UNCHANGED <<tree, lock, issued, stamp>>
    BY DEF CheckPublication
  <1>4. Knows(k)'
    BY <1>1, <1>2, <1>3 DEF Knows
  <1>5. Fresh(k, Committed)
    BY <1>1, <1>2 DEF Fresh, CheckPublication, Usable
  <1>6. Copies(k)'
    BY <1>1 DEF Copies
  <1>. QED BY <1>1, <1>2, <1>3, <1>4, <1>5, <1>6, PrivateStep DEF ConfigInv

\* Compiled packages are no part of what is committed or required.
LEMMA PackagesFree ==
  ASSUME NEW t \in Trees, NEW p \in Packages, NEW d \in Drafts, NEW x \in Contents,
         NEW u, u = [t EXCEPT !.packages[p][d] = x]
  PROVE  /\ u \in Trees /\ Configuration(u) = Configuration(t)
         /\ u.drafts = t.drafts /\ u.versions = t.versions /\ u.connections = t.connections
  <1>1. u \in Trees /\ u.drafts = t.drafts /\ u.versions = t.versions /\ u.connections = t.connections
    BY DEF Trees
  <1>2. Configuration(u) = Configuration(t)
    BY DEF Configuration, Trees
  <1>. QED BY <1>1, <1>2

LEMMA CompileInv ==
  ASSUME ConfigInv, NEW c \in Callers, Compile(c)
  PROVE  ConfigInv'
  <1>0. PICK i \in Requests : i = call[c]
    BY DEF ConfigInv
  <1>1. i.pc = "compile" /\ Knows(i) /\ Fresh(i, Committed) /\ lock # c
    BY <1>0 DEF Compile, ConfigInv
  <1>2. i.op \in {"validate", "publish"} /\ i.draft \in Drafts /\ i.content \in Contents
    BY <1>1 DEF Knows
  <1>3. PICK k \in Requests :
          /\ call' = [call EXCEPT ![c] = k]
          /\ k.pc = IF i.op = "validate" THEN "run" ELSE "check"
          /\ k.op = i.op /\ k.draft = i.draft /\ k.seen = i.seen
          /\ k.content = i.content /\ k.validation = i.validation
    BY <1>0, Moved DEF Compile
  <1>4. UNCHANGED <<lock, issued, stamp>>
    BY DEF Compile
  <1>5. /\ tree' \in Trees /\ Configuration(tree') = Configuration(tree)
        /\ tree'.drafts = tree.drafts /\ tree'.versions = tree.versions
        /\ tree'.connections = tree.connections
    BY <1>0, <1>2, PackagesFree DEF Compile, PackageOf, Packages, ConfigInv, Sound
  <1>6. Sound(tree)'
    BY <1>4, <1>5 DEF ConfigInv, Sound, DraftsSound, VersionsSound, VersionSound
  <1>7. /\ Committed' \in Trees /\ Committed'.drafts = Committed.drafts
        /\ Committed'.connections = Committed.connections
    <2>1. CASE lock # NoCaller /\ call[lock].pc \in {"moved", "put"}
      <3>1. Committed' = Committed
        BY <1>1, <1>3, <1>4, <2>1 DEF Committed, ConfigInv
      <3>. QED BY <3>1, CommittedSound DEF Sound
    <2>2. CASE ~(lock # NoCaller /\ call[lock].pc \in {"moved", "put"})
      <3>1. Committed = tree /\ Committed' = tree'
        BY <1>1, <1>3, <1>4, <2>2 DEF Committed, ConfigInv
      <3>. QED BY <1>5, <3>1
    <2>. QED BY <2>1, <2>2
  <1>8. \A d \in Drafts \cap issued : Kept(d, Committed, Committed')
    BY <1>7 DEF Kept
  <1>9. Knows(k)'
    BY <1>1, <1>2, <1>3, <1>4 DEF Knows
  <1>10. Fresh(k, Committed)'
    BY <1>1, <1>3, <1>7 DEF Fresh
  <1>11. Copies(k)' /\ Installing(k)'
    BY <1>3 DEF Copies, Installing
  <1>. QED BY <1>1, <1>3, <1>4, <1>5, <1>6, <1>7, <1>8, <1>9, <1>10, <1>11, OneCaller DEF ConfigInv

\* A reply that ends no installation.
LEMMA GiveUpInv ==
  ASSUME ConfigInv, NEW c \in Callers, call[c].pc \notin {"moved", "put"}, Reply(c),
         lock' = IF lock = c THEN NoCaller ELSE lock, UNCHANGED <<tree, issued, stamp>>
  PROVE  ConfigInv'
  <1>1. PICK k \in Requests : k = Idle
    BY IdleTyped
  <1>2. call' = [call EXCEPT ![c] = k] /\ k.pc = "idle"
    BY <1>1 DEF Reply, Idle
  <1>3. Committed' = Committed
    BY <1>2, ConfigurationAssumption DEF Committed, ConfigInv
  <1>4. Committed' \in Trees /\ \A d \in Drafts : Kept(d, Committed, Committed')
    BY <1>3, CommittedSound DEF Kept, Sound
  <1>5. Sound(tree)'
    BY DEF ConfigInv, Sound, DraftsSound, VersionsSound, VersionSound
  <1>6. Knows(k)' /\ Fresh(k, Committed)' /\ Copies(k)' /\ Installing(k)'
    BY <1>1 DEF Idle, Knows, Fresh, Copies, Installing
  <1>. QED BY <1>2, <1>4, <1>5, <1>6, OneCaller, ConfigurationAssumption DEF ConfigInv

-----------------------------------------------------------------------------
(* The unit of work: what an operation leaves in its private copy.          *)

\* The next revision of a draft.
LEMMA SavedGood ==
  ASSUME ConfigInv, NEW k \in Requests, Knows(k), k.op \in {"edit", "rename", "validate"},
         NEW x \in Contents, NEW w \in ValidationRecords \cup {NoValidation},
         tree.drafts[k.draft] # NoDraft, tree.drafts[k.draft].revision = k.seen,
         k.seen < MaxRevision,
         w # NoValidation => w.content = x,
         k.op # "edit" => x = tree.drafts[k.draft].content,
         NEW u,
         u = [tree EXCEPT !.drafts[k.draft] = [revision |-> k.seen + 1, content |-> x, validation |-> w]]
  PROVE  /\ Sound(u) /\ u.versions = tree.versions
         /\ \A d \in Drafts : Kept(d, tree, u)
         /\ OwnChange(k, Configuration(tree), Configuration(u))
  <1>1. tree \in Trees /\ DraftsSound(tree) /\ VersionsSound(tree)
    BY DEF ConfigInv, Sound
  <1>2. k.draft \in Drafts \cap issued /\ k.seen \in 1..MaxRevision
    BY DEF Knows
  <1>3. PICK r \in DraftRecords : r = [revision |-> k.seen + 1, content |-> x, validation |-> w]
    BY <1>2, ConfigurationAssumption DEF DraftRecords
  <1>4. u = [tree EXCEPT !.drafts[k.draft] = r]
    BY <1>3
  <1>5. /\ u.drafts = [tree.drafts EXCEPT ![k.draft] = r] /\ u.versions = tree.versions
        /\ u.active = tree.active /\ u.connections = tree.connections
    BY <1>1, <1>4 DEF Trees
  <1>6. u \in Trees
    <2>1. tree.drafts \in [Drafts -> {NoDraft} \cup DraftRecords]
      BY <1>1 DEF Trees, DraftRecords
    <2>2. [tree.drafts EXCEPT ![k.draft] = r] \in [Drafts -> {NoDraft} \cup DraftRecords]
      BY <1>2, <2>1
    <2>3. u = [tree EXCEPT !.drafts = [tree.drafts EXCEPT ![k.draft] = r]]
      BY <1>4
    <2>. QED BY <1>1, <2>2, <2>3 DEF Trees, DraftRecords
  <1>7. \A d \in Drafts : u.drafts[d] = IF d = k.draft THEN r ELSE tree.drafts[d]
    BY <1>1, <1>2, <1>5 DEF Trees
  <1>8. DraftsSound(u) /\ VersionsSound(u)
    BY <1>1, <1>2, <1>3, <1>5, <1>7 DEF DraftsSound, VersionsSound, VersionSound, Publishable
  <1>9. ASSUME NEW d \in Drafts PROVE Kept(d, tree, u)
    <2>1. CASE d = k.draft
      BY <1>2, <1>3, <1>7, <2>1, ConfigurationAssumption DEF Kept
    <2>. QED BY <1>5, <1>7, <2>1 DEF Kept
  <1>10. OwnChange(k, Configuration(tree), Configuration(u))
    <2>1. Configuration(u) = [Configuration(tree) EXCEPT !.drafts[k.draft] = Configuration(u).drafts[k.draft]]
      BY <1>1, <1>2, <1>4, <1>7 DEF Configuration, Trees
    <2>2. Configuration(tree).drafts = tree.drafts /\ Configuration(u).drafts = u.drafts
      BY <1>1, <1>6, ConfigurationParts
    <2>3. Configuration(tree).drafts[k.draft].revision = k.seen
      BY <2>2
    <2>4. k.op # "edit" =>
            Configuration(tree).drafts[k.draft].content = Configuration(u).drafts[k.draft].content
      BY <1>2, <1>3, <1>7, <2>2
    <2>. QED BY <2>1, <2>3, <2>4 DEF OwnChange
  <1>. QED BY <1>5, <1>6, <1>8, <1>9, <1>10 DEF Sound

Published(k, v) ==
    [tree EXCEPT !.versions[v] = [content |-> k.content, validation |-> k.validation], !.active = v]

\* A new version and the pointer to it.
LEMMA PublishedGood ==
  ASSUME ConfigInv, NEW k \in Requests, Knows(k), Fresh(k, tree), k.op = "publish", k.pc = "ready",
         tree.drafts[k.draft] # NoDraft, tree.drafts[k.draft].revision = k.seen,
         NEW v \in Versions, v \notin issued,
         NEW j, j.op = k.op, j.draft = k.draft, j.seen = k.seen, j.version = v,
         NEW u, u = Published(k, v)
  PROVE  /\ u \in Trees /\ DraftsSound(u) /\ u.drafts = tree.drafts
         /\ \A x \in Versions \ {v} : u.versions[x] = tree.versions[x]
         /\ VersionSound(u, v)
         /\ u.connections = tree.connections
         /\ OwnChange(j, Configuration(tree), Configuration(u))
  <1>1. tree \in Trees /\ DraftsSound(tree) /\ VersionsSound(tree)
    BY DEF ConfigInv, Sound
  <1>2. /\ k.draft \in Drafts /\ k.content \in Contents /\ k.validation \in ValidationRecords
        /\ k.validation.content = k.content /\ k.validation.passed
    BY DEF Knows
  <1>3. \A r \in Refs[k.content] : tree.connections[r] # "absent"
    BY DEF Fresh
  <1>4. PICK n \in VersionRecords : n = [content |-> k.content, validation |-> k.validation]
    BY <1>2 DEF VersionRecords
  <1>5. u = [tree EXCEPT !.versions[v] = n, !.active = v]
    BY <1>4 DEF Published
  <1>6. /\ u.drafts = tree.drafts /\ u.versions = [tree.versions EXCEPT ![v] = n]
        /\ u.connections = tree.connections
    BY <1>1, <1>5 DEF Trees
  <1>7. u \in Trees
    <2>. DEFINE D == [Drafts -> {NoDraft} \cup DraftRecords]
                W == {NoVersion} \cup VersionRecords
                A == Versions \cup {NoVersion}
                C == [Connections -> {"absent", "active", "archived"}]
                P == [Packages -> [Drafts -> Contents \cup {NoContent}]]
                S == 0..MaxStamp
    <2>1. Trees = [drafts : D, versions : [Versions -> W], active : A, connections : C,
                   packages : P, stamp : S]
      BY DEF Trees, DraftRecords, VersionRecords
    <2>2. n \in W /\ v \in A
      OBVIOUS
    <2>. HIDE DEF D, W, A, C, P, S
    <2>3. PICK t : t = [tree EXCEPT !.versions[v] = n]
      OBVIOUS
    <2>4. t \in Trees
      BY <1>1, <2>1, <2>2, <2>3
    <2>5. u = [t EXCEPT !.active = v]
      BY <1>5, <2>3
    <2>. QED BY <2>1, <2>2, <2>4, <2>5
  <1>8. \A x \in Versions : u.versions[x] = IF x = v THEN n ELSE tree.versions[x]
    BY <1>1, <1>6 DEF Trees
  <1>9. DraftsSound(u)
    BY <1>1, <1>6 DEF DraftsSound
  <1>10. OwnChange(j, Configuration(tree), Configuration(u))
    <2>1. Configuration(u) = [Configuration(tree) EXCEPT !.versions[j.version] = Configuration(u).versions[j.version],
                                                         !.active = j.version]
      BY <1>1, <1>5, <1>8 DEF Configuration, Trees
    <2>2. /\ Configuration(tree).drafts = tree.drafts /\ Configuration(tree).versions = tree.versions
      BY <1>1, ConfigurationParts
    <2>3. tree.versions[v] = NoVersion
      BY <1>1 DEF VersionsSound, VersionSound
    <2>. QED BY <2>1, <2>2, <2>3 DEF OwnChange
  <1>11. VersionSound(u, v)
    BY <1>2, <1>3, <1>4, <1>6, <1>8 DEF VersionSound
  <1>. QED BY <1>6, <1>7, <1>8, <1>9, <1>10, <1>11

\* The pointer alone.
LEMMA ActivatedGood ==
  ASSUME ConfigInv, NEW k \in Requests, k.op = "rollback", k.version \in Versions,
         tree.active = k.expected,
         NEW u, u = [tree EXCEPT !.active = k.version]
  PROVE  /\ Sound(u) /\ u.versions = tree.versions
         /\ \A d \in Drafts : Kept(d, tree, u)
         /\ OwnChange(k, Configuration(tree), Configuration(u))
  <1>1. tree \in Trees /\ DraftsSound(tree) /\ VersionsSound(tree)
    BY DEF ConfigInv, Sound
  <1>2. /\ u \in Trees /\ u.drafts = tree.drafts /\ u.versions = tree.versions
        /\ u.connections = tree.connections
    BY <1>1 DEF Trees
  <1>3. Sound(u)
    BY <1>1, <1>2 DEF Sound, DraftsSound, VersionsSound, VersionSound
  <1>4. \A d \in Drafts : Kept(d, tree, u)
    BY <1>2 DEF Kept
  <1>5. OwnChange(k, Configuration(tree), Configuration(u))
    <2>1. Configuration(u) = [Configuration(tree) EXCEPT !.active = k.version]
      BY <1>1 DEF Configuration, Trees
    <2>2. Configuration(tree).active = k.expected
      BY <1>1, ConfigurationParts
    <2>. QED BY <2>1, <2>2 DEF OwnChange
  <1>. QED BY <1>2, <1>3, <1>4, <1>5

\* Whatever the operation, what it leaves is sound and changes what is its own.
LEMMA ResultsGood ==
  ASSUME ConfigInv, NEW c \in Callers, Free, call[c].pc = "ready", NEW u \in Results(c),
         NEW j, j.op = call[c].op, j.draft = call[c].draft, j.seen = call[c].seen,
         j.expected = call[c].expected,
         j.version = IF call[c].op = "publish" THEN u.active ELSE call[c].version
  PROVE  /\ u \in Trees /\ DraftsSound(u)
         /\ \A v \in Versions : VersionSound(u, v)
         /\ \A d \in Drafts : Kept(d, tree, u)
         /\ OwnChange(j, Configuration(tree), Configuration(u))
  <1>1. PICK k \in Requests : k = call[c]
    BY DEF ConfigInv
  <1>2. k.pc = "ready" /\ Knows(k) /\ Fresh(k, tree)
    BY <1>1 DEF ConfigInv, Committed, Free
  <1>3. Sound(tree)
    BY DEF ConfigInv
  <1>4. k.op \in {"edit", "rename", "validate", "publish", "rollback"}
    BY <1>2 DEF Knows, Requests
  <1>5. OwnChange(k, Configuration(tree), Configuration(u)) /\ k.op # "publish"
          => OwnChange(j, Configuration(tree), Configuration(u))
    BY <1>1 DEF OwnChange
  <1>6. ASSUME NEW x \in Contents, NEW w \in ValidationRecords \cup {NoValidation},
               k.op \in {"edit", "rename", "validate"}, u \in Saves(c, x, w),
               w # NoValidation => w.content = x,
               k.op # "edit" => x = tree.drafts[k.draft].content
        PROVE  /\ Sound(u) /\ \A d \in Drafts : Kept(d, tree, u)
               /\ OwnChange(k, Configuration(tree), Configuration(u))
    <2>1. /\ tree.drafts[k.draft] # NoDraft /\ tree.drafts[k.draft].revision = k.seen
          /\ k.seen < MaxRevision
          /\ u = [tree EXCEPT !.drafts[k.draft] = [revision |-> k.seen + 1, content |-> x, validation |-> w]]
      BY <1>1, <1>6 DEF Saves
    <2>. QED BY <1>2, <1>6, <2>1, SavedGood
  <1>7. k.op \in {"edit", "rename", "validate"} /\ Results(c) # {} =>
          tree.drafts[k.draft] \in DraftRecords /\ k.draft \in Drafts
    <2>1. k.op \in {"edit", "rename", "validate"} /\ Results(c) # {} => tree.drafts[k.draft] # NoDraft
      BY <1>1 DEF Results, Saves
    <2>. QED BY <1>2, <1>3, <2>1, DraftTyped DEF Knows, Sound
  <1>8. CASE k.op = "edit"
    <2>1. u \in Saves(c, k.content, NoValidation) /\ k.content \in Contents
      BY <1>1, <1>2, <1>8 DEF Results, Knows
    <2>. QED BY <1>5, <1>6, <1>8, <2>1 DEF Sound, VersionsSound
  <1>9. CASE k.op = "rename"
    <2>1. u \in Saves(c, tree.drafts[k.draft].content, NoValidation)
      BY <1>1, <1>9 DEF Results
    <2>2. tree.drafts[k.draft].content \in Contents
      BY <1>7, <1>9 DEF DraftRecords
    <2>. QED BY <1>5, <1>6, <1>9, <2>1, <2>2 DEF Sound, VersionsSound
  <1>10. CASE k.op = "validate"
    <2>1. u \in Saves(c, tree.drafts[k.draft].content, k.validation)
      BY <1>1, <1>10 DEF Results
    <2>2. tree.drafts[k.draft].content \in Contents
      BY <1>7, <1>10 DEF DraftRecords
    <2>3. k.validation \in ValidationRecords /\ k.validation.content = k.content
      BY <1>2, <1>10 DEF Knows
    <2>4. tree.drafts[k.draft].content = k.content
      <3>1. tree.drafts[k.draft] # NoDraft /\ tree.drafts[k.draft].revision = k.seen
        BY <1>1, <2>1 DEF Saves
      <3>. QED BY <1>2, <1>10, <3>1 DEF Fresh
    <2>. QED BY <1>5, <1>6, <1>10, <2>1, <2>2, <2>3, <2>4 DEF Sound, VersionsSound
  <1>11. CASE k.op = "publish"
    <2>1. PICK v \in Versions \ issued : u = Published(k, v)
      BY <1>1, <1>11 DEF Results, Publishes, Published
    <2>2. tree.drafts[k.draft] # NoDraft /\ tree.drafts[k.draft].revision = k.seen
      BY <1>1, <1>11 DEF Results, Publishes
    <2>3. u.active = v
      BY <1>3, <2>1 DEF Sound, Trees, Published
    <2>4. /\ u \in Trees /\ DraftsSound(u) /\ u.drafts = tree.drafts
          /\ \A x \in Versions \ {v} : u.versions[x] = tree.versions[x]
          /\ VersionSound(u, v)
          /\ u.connections = tree.connections
          /\ OwnChange(j, Configuration(tree), Configuration(u))
      <3>1. j.op = k.op /\ j.draft = k.draft /\ j.seen = k.seen /\ j.version = v
        BY <1>1, <1>11, <2>3
      <3>2. Knows(k) /\ Fresh(k, tree) /\ k.op = "publish" /\ k.pc = "ready"
        BY <1>2, <1>11
      <3>. QED BY <2>1, <2>2, <3>1, <3>2, PublishedGood
    <2>5. \A d \in Drafts : Kept(d, tree, u)
      BY <2>4 DEF Kept
    <2>6. ASSUME NEW x \in Versions PROVE VersionSound(u, x)
      <3>1. CASE x # v
        BY <1>3, <2>4, <3>1 DEF Sound, VersionsSound, VersionSound
      <3>. QED BY <2>4, <3>1
    <2>. QED BY <2>4, <2>5, <2>6
  <1>12. CASE k.op = "rollback"
    <2>1. u = [tree EXCEPT !.active = k.version] /\ tree.active = k.expected /\ k.version \in Versions
      BY <1>1, <1>2, <1>12 DEF Results, Activates, Knows
    <2>. QED BY <1>5, <1>12, <2>1, ActivatedGood DEF Sound, VersionsSound
  <1>. QED BY <1>4, <1>8, <1>9, <1>10, <1>11, <1>12

LEMMA ResultsTyped ==
  ASSUME ConfigInv, NEW c \in Callers, Free, call[c].pc = "ready", NEW u \in Results(c)
  PROVE  u \in Trees
  <1>1. PICK k \in Requests : k = call[c]
    BY DEF ConfigInv
  <1>2. PICK j :
          /\ j.op = k.op /\ j.draft = k.draft /\ j.seen = k.seen /\ j.expected = k.expected
          /\ j.version = IF k.op = "publish" THEN u.active ELSE k.version
    <2>. DEFINE j == [op |-> k.op, draft |-> k.draft, seen |-> k.seen, expected |-> k.expected,
                     version |-> IF k.op = "publish" THEN u.active ELSE k.version]
    <2>. WITNESS j
    <2>. QED OBVIOUS
  <1>. QED BY <1>1, <1>2, ResultsGood

\* The record of a request whose unit of work is staged.
StagedRequest(k, t, u) ==
    [k EXCEPT !.pc = "staged", !.base = t, !.staged = u,
              !.version = IF k.op = "publish" THEN u.active ELSE @]

LEMMA StagedTyped ==
  ASSUME NEW k \in Requests, NEW t \in Trees, NEW u \in Trees, NEW j, j = StagedRequest(k, t, u)
  PROVE  /\ j \in Requests /\ j.pc = "staged" /\ j.op = k.op /\ j.draft = k.draft /\ j.seen = k.seen
         /\ j.content = k.content /\ j.validation = k.validation /\ j.expected = k.expected
         /\ j.base = t /\ j.staged = u
         /\ j.version = IF k.op = "publish" THEN u.active ELSE k.version
  <1>. DEFINE PC == {"idle", "compile", "run", "check", "ready", "staged", "compared", "moved", "put"}
              Op == {"none", "edit", "rename", "validate", "publish", "rollback"}
              D == Drafts \cup {NoDraft}  N == 0..MaxRevision  X == Contents \cup {NoContent}
              W == ValidationRecords \cup {NoValidation}
              V == Versions \cup {NoVersion}  T == Trees \cup {NoTree}
              v == IF k.op = "publish" THEN u.active ELSE k.version
  <1>1. /\ Requests = [pc : PC, op : Op, draft : D, seen : N, content : X, validation : W,
                       version : V, expected : V, base : T, staged : T]
        /\ "staged" \in PC /\ t \in T /\ u \in T
    BY DEF Requests
  <1>2. v \in V
    BY DEF Trees, Requests
  <1>3. j = [k EXCEPT !.pc = "staged", !.base = t, !.staged = u, !.version = v]
    BY DEF StagedRequest, Requests
  <1>. HIDE DEF PC, Op, D, N, X, W, V, T, v
  <1>4. /\ j \in Requests /\ j.pc = "staged" /\ j.op = k.op /\ j.draft = k.draft /\ j.seen = k.seen
        /\ j.content = k.content /\ j.validation = k.validation /\ j.expected = k.expected
        /\ j.base = t /\ j.staged = u /\ j.version = v
    BY <1>1, <1>2, <1>3
  <1>. QED BY <1>4 DEF v

LEMMA StageInv ==
  ASSUME ConfigInv, NEW c \in Callers, Stage(c)
  PROVE  ConfigInv'
  <1>1. PICK k \in Requests : k = call[c]
    BY DEF ConfigInv
  <1>2. k.pc = "ready" /\ Knows(k) /\ Sound(tree) /\ Free /\ lock # c
    BY <1>1, ConfigurationAssumption DEF Stage, ConfigInv, Free
  <1>3. PICK u \in Results(c) :
          /\ call' = [call EXCEPT ![c] = StagedRequest(k, tree, u)]
          /\ issued' = issued \cup {v \in Versions : u.versions[v] # NoVersion}
    <2>1. PICK u \in Results(c) :
            /\ call' = [call EXCEPT ![c].pc = "staged", ![c].base = tree, ![c].staged = u,
                          ![c].version = IF call[c].op = "publish" THEN u.active ELSE @]
            /\ issued' = issued \cup {v \in Versions : u.versions[v] # NoVersion}
      BY DEF Stage
    <2>2. call \in [Callers -> Requests]
      BY DEF ConfigInv
    <2>3. call' = [call EXCEPT ![c] = StagedRequest(k, tree, u)]
      <3>. DEFINE PC == {"idle", "compile", "run", "check", "ready", "staged", "compared", "moved", "put"}
                  Op == {"none", "edit", "rename", "validate", "publish", "rollback"}
                  D == Drafts \cup {NoDraft}  N == 0..MaxRevision  X == Contents \cup {NoContent}
                  W == ValidationRecords \cup {NoValidation}
                  V == Versions \cup {NoVersion}  T == Trees \cup {NoTree}
      <3>1. call \in [Callers -> [pc : PC, op : Op, draft : D, seen : N, content : X, validation : W,
                                  version : V, expected : V, base : T, staged : T]]
        BY <2>2 DEF Requests
      <3>. HIDE DEF PC, Op, D, N, X, W, V, T
      <3>. QED BY <1>1, <2>1, <3>1 DEF StagedRequest
    <2>. QED BY <2>1, <2>3
  <1>4. UNCHANGED <<tree, lock, stamp>>
    BY DEF Stage
  <1>5. u \in Trees
    BY <1>1, <1>2, ResultsTyped
  <1>6. PICK j \in Requests :
          /\ call' = [call EXCEPT ![c] = j]
          /\ j.pc = "staged" /\ j.op = k.op /\ j.draft = k.draft /\ j.seen = k.seen
          /\ j.content = k.content /\ j.validation = k.validation /\ j.expected = k.expected
          /\ j.base = tree /\ j.staged = u
          /\ j.version = IF k.op = "publish" THEN u.active ELSE k.version
    <2>1. PICK j : j = StagedRequest(k, tree, u)
      OBVIOUS
    <2>2. tree \in Trees /\ call' = [call EXCEPT ![c] = j]
      BY <1>2, <1>3, <2>1 DEF Sound
    <2>3. /\ j \in Requests /\ j.pc = "staged" /\ j.op = k.op /\ j.draft = k.draft /\ j.seen = k.seen
          /\ j.content = k.content /\ j.validation = k.validation /\ j.expected = k.expected
          /\ j.base = tree /\ j.staged = u
          /\ j.version = IF k.op = "publish" THEN u.active ELSE k.version
      BY <1>5, <2>1, <2>2, StagedTyped
    <2>. QED BY <2>2, <2>3
  <1>7. /\ DraftsSound(u)
        /\ \A v \in Versions : VersionSound(u, v)
        /\ \A d \in Drafts : Kept(d, tree, u)
        /\ OwnChange(j, Configuration(tree), Configuration(u))
    BY <1>1, <1>2, <1>6, ResultsGood
  <1>8. Sound(tree)' /\ Sound(u)'
    BY <1>2, <1>3, <1>4, <1>5, <1>7 DEF Sound, DraftsSound, VersionsSound, VersionSound
  <1>9. Knows(j)'
    <2>1. j.op = "rollback" => j.version \in Versions
      BY <1>2, <1>6 DEF Knows
    <2>. QED BY <1>2, <1>3, <1>6, <2>1 DEF Knows
  <1>10. Fresh(j, Committed)
    BY <1>6 DEF Fresh
  <1>11. Copies(j)'
    BY <1>4, <1>6, <1>7, <1>8 DEF Copies
  <1>12. issued \subseteq issued' /\ issued' \subseteq Drafts \cup Versions
    BY <1>3 DEF ConfigInv
  <1>. QED BY <1>1, <1>2, <1>4, <1>6, <1>9, <1>10, <1>11, <1>12, PrivateStep

-----------------------------------------------------------------------------
(* The installation.  Its caller holds the lock from the comparison on.     *)

\* The same copies in the record of a later step.
LEMMA SameCopies ==
  ASSUME NEW i \in Requests, NEW k \in Requests, Sound(k.base), Sound(k.staged), UNCHANGED issued,
         \A d \in Drafts : Kept(d, k.base, k.staged),
         OwnChange(i, Configuration(k.base), Configuration(k.staged)),
         k.op = i.op, k.draft = i.draft, k.seen = i.seen, k.version = i.version, k.expected = i.expected
  PROVE  Copies(k)'
  <1>1. Sound(k.base)' /\ Sound(k.staged)'
    BY DEF Sound, DraftsSound, VersionsSound, VersionSound
  <1>2. OwnChange(k, Configuration(k.base), Configuration(k.staged))
    BY DEF OwnChange
  <1>. QED BY <1>1, <1>2 DEF Copies

LEMMA CompareInv ==
  ASSUME ConfigInv, NEW c \in Callers, Compare(c)
  PROVE  ConfigInv'
  <1>0. call[c].pc = "staged" /\ lock # c /\ lock = NoCaller
    BY ConfigurationAssumption DEF Compare, Free
  <1>1. CASE tree = call[c].base
    <2>1. PICK k \in Requests :
            /\ call' = [call EXCEPT ![c] = k]
            /\ k.pc = "compared" /\ k.op = call[c].op /\ k.draft = call[c].draft /\ k.seen = call[c].seen
            /\ k.content = call[c].content /\ k.validation = call[c].validation
            /\ k.version = call[c].version /\ k.expected = call[c].expected
            /\ k.base = call[c].base /\ k.staged = call[c].staged
      BY <1>1, Moved DEF Compare
    <2>2. lock' = c /\ UNCHANGED <<tree, issued, stamp>>
      BY <1>1 DEF Compare
    <2>3. Knows(call[c]) /\ Copies(call[c]) /\ Sound(tree)
      BY DEF ConfigInv
    <2>4. Committed = tree /\ Committed' = tree
      BY <1>0, <2>1, <2>2 DEF Committed, ConfigInv
    <2>5. Committed' \in Trees /\ \A d \in Drafts : Kept(d, Committed, Committed')
      BY <2>3, <2>4 DEF Kept, Sound
    <2>6. Sound(tree)' /\ Knows(k)'
      BY <1>0, <2>1, <2>2, <2>3 DEF Knows, Sound, DraftsSound, VersionsSound, VersionSound
    <2>7. Copies(k)'
      <3>1. PICK i \in Requests : i = call[c]
        BY DEF ConfigInv
      <3>2. /\ Sound(k.base) /\ Sound(k.staged) /\ \A d \in Drafts : Kept(d, k.base, k.staged)
            /\ OwnChange(i, Configuration(k.base), Configuration(k.staged))
        BY <1>0, <2>1, <2>3, <3>1 DEF Copies
      <3>. QED BY <2>1, <2>2, <3>1, <3>2, SameCopies
    <2>8. Fresh(k, Committed)' /\ Installing(k)'
      BY <1>1, <2>1, <2>2 DEF Fresh, Installing
    <2>. QED BY <1>0, <2>1, <2>2, <2>5, <2>6, <2>7, <2>8, OneCaller, ConfigurationAssumption DEF ConfigInv
  <1>2. CASE tree # call[c].base
    BY <1>0, <1>2, GiveUpInv DEF Compare
  <1>. QED BY <1>1, <1>2

\* Who holds the lock while its request is in one of the last places.
LEMMA Holder ==
  ASSUME ConfigInv, NEW c \in Callers, call[c].pc \in {"compared", "moved", "put"}
  PROVE  /\ lock = c /\ c # NoCaller
         /\ Knows(call[c]) /\ Copies(call[c]) /\ Installing(call[c]) /\ Sound(tree)
         /\ call[c] \in Requests
         /\ Sound(call[c].base) /\ Sound(call[c].staged)
         /\ \A d \in Drafts : Kept(d, call[c].base, call[c].staged)
         /\ OwnChange(call[c], Configuration(call[c].base), Configuration(call[c].staged))
         /\ Committed = IF call[c].pc = "compared" THEN tree ELSE call[c].base
  BY ConfigurationAssumption DEF ConfigInv, Copies, Committed

\* An installation that ends: with the new configuration, the old one, or none.
LEMMA EndInv ==
  ASSUME ConfigInv, NEW c \in Callers, call[c].pc \in {"moved", "put"}, Reply(c),
         lock' = NoCaller, UNCHANGED <<issued, stamp>>, Sound(tree'),
         \A d \in Drafts : Kept(d, call[c].base, tree')
  PROVE  ConfigInv'
  <1>1. PICK k \in Requests : k = Idle
    BY IdleTyped
  <1>2. call' = [call EXCEPT ![c] = k] /\ k.pc = "idle"
    BY <1>1 DEF Reply, Idle
  <1>3. Committed = call[c].base /\ Committed' = tree' /\ lock = c
    BY Holder DEF Committed
  <1>4. Sound(tree)'
    BY DEF Sound, DraftsSound, VersionsSound, VersionSound
  <1>5. Knows(k)' /\ Fresh(k, Committed)' /\ Copies(k)' /\ Installing(k)'
    BY <1>1 DEF Idle, Knows, Fresh, Copies, Installing
  <1>. QED BY <1>2, <1>3, <1>4, <1>5, OneCaller, ConfigurationAssumption DEF ConfigInv, Sound

LEMMA PutFailsInv ==
  ASSUME ConfigInv, NEW c \in Callers, PutFails(c) \/ AuditFails(c)
  PROVE  ConfigInv'
  <1>1. call[c].pc \in {"moved", "put"} /\ tree' = call[c].base /\ Reply(c) /\ lock' = NoCaller
        /\ UNCHANGED <<issued, stamp>>
    BY DEF PutFails, AuditFails
  <1>2. Sound(call[c].base)
    BY <1>1, Holder
  <1>. QED BY <1>1, <1>2, EndInv DEF Kept

\* Only packages stand where the configuration was, and nothing is left of it.
LEMMA PutBlockedInv ==
  ASSUME ConfigInv, NEW c \in Callers, PutBlocked(c)
  PROVE  ConfigInv'
  <1>1. call[c].pc = "moved" /\ Reply(c) /\ lock' = NoCaller /\ UNCHANGED <<tree, issued, stamp>>
    BY DEF PutBlocked
  <1>2. Sound(tree) /\ Configuration(tree) = EmptyTree
    BY <1>1, Holder DEF Installing
  <1>3. tree.drafts = EmptyTree.drafts
    BY <1>2, ConfigurationParts DEF Sound
  <1>4. \A d \in Drafts : tree.drafts[d] = NoDraft
    BY <1>3 DEF EmptyTree
  <1>. QED BY <1>1, <1>2, <1>4, EndInv DEF Kept

LEMMA InstallAuditInv ==
  ASSUME ConfigInv, NEW c \in Callers, InstallAudit(c)
  PROVE  ConfigInv'
  <1>1. call[c].pc = "put" /\ Reply(c) /\ lock' = NoCaller /\ UNCHANGED <<tree, issued, stamp>>
    BY DEF InstallAudit
  <1>2. /\ Sound(tree) /\ Sound(call[c].staged) /\ Configuration(tree) = Configuration(call[c].staged)
        /\ \A d \in Drafts : Kept(d, call[c].base, call[c].staged)
    BY <1>1, Holder DEF Installing
  <1>3. tree.drafts = call[c].staged.drafts /\ tree.connections = call[c].staged.connections
    BY <1>2, ConfigurationParts DEF Sound
  <1>. QED BY <1>1, <1>2, <1>3, EndInv DEF Kept

LEMMA MoveAwayInv ==
  ASSUME ConfigInv, NEW c \in Callers, MoveAway(c)
  PROVE  ConfigInv'
  <1>1. PICK i \in Requests : i = call[c]
    BY DEF ConfigInv
  <1>2. /\ i.pc = "compared" /\ lock = c /\ Knows(i) /\ Sound(tree) /\ Committed = tree
        /\ Configuration(tree) = Configuration(i.base) /\ Sound(i.base) /\ Sound(i.staged)
        /\ \A d \in Drafts : Kept(d, i.base, i.staged)
        /\ OwnChange(i, Configuration(i.base), Configuration(i.staged))
    BY <1>1, Holder DEF MoveAway, Installing
  <1>3. PICK t \in Trees : t = tree
    BY <1>2 DEF Sound
  <1>. DEFINE k == [i EXCEPT !.pc = "moved", !.base = t]
  <1>4. call' = [call EXCEPT ![c] = k]
    BY <1>1, <1>3 DEF MoveAway
  <1>5. /\ k \in Requests /\ k.pc = "moved" /\ k.op = i.op /\ k.draft = i.draft /\ k.seen = i.seen
        /\ k.content = i.content /\ k.validation = i.validation
        /\ k.version = i.version /\ k.expected = i.expected /\ k.base = t /\ k.staged = i.staged
    BY DEF Requests
  <1>. HIDE DEF k
  <1>6. PICK j \in Requests :
          /\ call' = [call EXCEPT ![c] = j] /\ j.pc = "moved" /\ j.op = i.op /\ j.draft = i.draft
          /\ j.seen = i.seen /\ j.content = i.content /\ j.validation = i.validation
          /\ j.version = i.version /\ j.expected = i.expected /\ j.base = t /\ j.staged = i.staged
    BY <1>4, <1>5
  <1>7. UNCHANGED <<lock, issued, stamp>> /\ tree' = EmptyTree
    BY DEF MoveAway
  <1>8. tree.drafts = i.base.drafts /\ tree.connections = i.base.connections
    BY <1>2, ConfigurationParts DEF Sound
  <1>9. \A d \in Drafts : Kept(d, t, i.staged)
    BY <1>2, <1>3, <1>8 DEF Kept
  <1>10. Copies(j)'
    BY <1>2, <1>3, <1>6, <1>7, <1>9, SameCopies
  <1>11. Sound(tree)'
    <2>1. /\ \A d \in Drafts : EmptyTree.drafts[d] = NoDraft
          /\ \A v \in Versions : EmptyTree.versions[v] = NoVersion
      BY DEF EmptyTree
    <2>. QED BY <1>7, <2>1, EmptyTyped DEF Sound, DraftsSound, VersionsSound, VersionSound
  <1>12. Committed' = tree
    BY <1>2, <1>3, <1>6, <1>7, ConfigurationAssumption DEF Committed, ConfigInv
  <1>13. Committed' \in Trees /\ \A d \in Drafts : Kept(d, Committed, Committed')
    BY <1>2, <1>3, <1>12 DEF Kept
  <1>14. Knows(j)' /\ Fresh(j, Committed)'
    BY <1>2, <1>6, <1>7 DEF Knows, Fresh
  <1>15. Installing(j)'
    BY <1>6, <1>7 DEF Installing, Configuration, EmptyTree
  <1>. QED BY <1>2, <1>6, <1>7, <1>10, <1>11, <1>13, <1>14, <1>15, OneCaller DEF ConfigInv

LEMMA PutInv ==
  ASSUME ConfigInv, NEW c \in Callers, Put(c)
  PROVE  ConfigInv'
  <1>1. PICK i \in Requests : i = call[c]
    BY DEF ConfigInv
  <1>2. /\ i.pc = "moved" /\ lock = c /\ Knows(i) /\ Committed = i.base /\ Sound(i.base) /\ Sound(i.staged)
        /\ \A d \in Drafts : Kept(d, i.base, i.staged)
        /\ OwnChange(i, Configuration(i.base), Configuration(i.staged))
    BY <1>1, Holder DEF Put
  <1>3. PICK k \in Requests :
          /\ call' = [call EXCEPT ![c] = k]
          /\ k.pc = "put" /\ k.op = i.op /\ k.draft = i.draft /\ k.seen = i.seen
          /\ k.content = i.content /\ k.validation = i.validation
          /\ k.version = i.version /\ k.expected = i.expected
          /\ k.base = i.base /\ k.staged = i.staged
    BY <1>1, Moved DEF Put
  <1>4. UNCHANGED <<lock, issued, stamp>> /\ tree' = i.staged
    BY <1>1 DEF Put
  <1>5. Copies(k)'
    BY <1>2, <1>3, <1>4, SameCopies
  <1>6. Sound(tree)'
    BY <1>2, <1>4 DEF Sound, DraftsSound, VersionsSound, VersionSound
  <1>7. Committed' = i.base
    BY <1>2, <1>3, <1>4, ConfigurationAssumption DEF Committed, ConfigInv
  <1>8. Committed' \in Trees /\ \A d \in Drafts : Kept(d, Committed, Committed')
    BY <1>2, <1>7 DEF Kept, Sound
  <1>9. Knows(k)' /\ Fresh(k, Committed)'
    BY <1>2, <1>3, <1>4 DEF Knows, Fresh
  <1>10. Installing(k)'
    BY <1>3, <1>4 DEF Installing
  <1>. QED BY <1>2, <1>3, <1>4, <1>5, <1>6, <1>8, <1>9, <1>10, OneCaller DEF ConfigInv

LEMMA CrashInv ==
  ASSUME ConfigInv, Crash
  PROVE  ConfigInv'
  <1>1. call' = [c \in Callers |-> Idle] /\ lock' = NoCaller /\ UNCHANGED <<tree, issued, stamp>>
    BY DEF Crash
  <1>2. call' \in [Callers -> Requests] /\ \A c \in Callers : call'[c] = Idle
    BY <1>1, IdleTyped
  <1>3. Sound(tree)'
    BY <1>1 DEF ConfigInv, Sound, DraftsSound, VersionsSound, VersionSound
  <1>4. PICK k : k = Idle
    OBVIOUS
  <1>5. k.pc = "idle" /\ Knows(k)' /\ Fresh(k, Committed)' /\ Copies(k)' /\ Installing(k)'
    BY <1>4 DEF Idle, Knows, Fresh, Copies, Installing
  <1>. QED BY <1>1, <1>2, <1>3, <1>4, <1>5, ConfigurationAssumption DEF ConfigInv
-----------------------------------------------------------------------------
(* Direct writes, while nobody holds the lock.                             *)

LEMMA WriteInv ==
  ASSUME ConfigInv, Free, UNCHANGED <<lock, call>>, issued \subseteq issued',
         issued' \subseteq Drafts \cup Versions, stamp' \in 0..MaxStamp, Sound(tree)',
         \A d \in Drafts \cap issued : Kept(d, tree, tree')
  PROVE  ConfigInv'
  <1>1. Committed = tree /\ Committed' = tree'
    BY DEF Committed, Free
  <1>2. ASSUME NEW c \in Callers
        PROVE  /\ call'[c].pc \in {"compared", "moved", "put"} <=> lock' = c
               /\ Knows(call[c])' /\ Fresh(call[c], Committed)' /\ Copies(call[c])' /\ Installing(call[c])'
    <2>1. PICK k \in Requests : k = call[c]
      BY DEF ConfigInv
    <2>2. /\ k.pc \notin {"compared", "moved", "put"} /\ Knows(k) /\ Fresh(k, tree) /\ Copies(k)
          /\ call'[c] = k
      BY <1>1, <2>1, ConfigurationAssumption DEF ConfigInv, Free
    <2>3. Knows(k)'
      BY <2>2 DEF Knows
    <2>4. Fresh(k, Committed)'
      <3>1. CASE k.op \in {"validate", "publish"}
        <4>1. k.draft \in Drafts \cap issued /\ k.seen \in Nat
          BY <2>2, <3>1, ConfigurationAssumption DEF Knows
        <4>. QED BY <1>1, <2>2, <4>1, FreshKept DEF ConfigInv, Sound
      <3>. QED BY <3>1 DEF Fresh
    <2>5. Copies(k)'
      BY <2>2 DEF Copies, Sound, DraftsSound, VersionsSound, VersionSound
    <2>6. Installing(k)'
      BY <2>2 DEF Installing
    <2>. QED BY <2>1, <2>2, <2>3, <2>4, <2>5, <2>6, ConfigurationAssumption DEF Free
  <1>. QED BY <1>2 DEF ConfigInv

LEMMA CreateDraftInv ==
  ASSUME ConfigInv, NEW d \in Drafts, NEW x \in Contents, CreateDraft(d, x)
  PROVE  ConfigInv'
  <1>1. PICK r \in DraftRecords : r = [revision |-> 1, content |-> x, validation |-> NoValidation]
    <2>1. 1 \in 1..MaxRevision
      BY ConfigurationAssumption
    <2>. QED BY <2>1 DEF DraftRecords
  <1>2. /\ tree' = [tree EXCEPT !.drafts[d] = r] /\ issued' = issued \cup {d} /\ d \notin issued /\ Free
        /\ UNCHANGED <<lock, call, stamp>>
    BY <1>1 DEF CreateDraft
  <1>3. tree \in Trees /\ DraftsSound(tree) /\ VersionsSound(tree)
    BY DEF ConfigInv, Sound
  <1>4. tree' \in Trees
    BY <1>2, <1>3 DEF Trees, DraftRecords
  <1>5. /\ \A e \in Drafts : tree'.drafts[e] = IF e = d THEN r ELSE tree.drafts[e]
        /\ tree'.versions = tree.versions /\ tree'.connections = tree.connections
    BY <1>2, <1>3 DEF Trees
  <1>6. Sound(tree)'
    <2>1. DraftsSound(tree)'
      BY <1>1, <1>2, <1>3, <1>5 DEF DraftsSound, Publishable
    <2>2. VersionsSound(tree)'
      BY <1>2, <1>3, <1>5 DEF VersionsSound, VersionSound
    <2>. QED BY <1>4, <2>1, <2>2 DEF Sound
  <1>7. \A e \in Drafts \cap issued : Kept(e, tree, tree')
    BY <1>2, <1>5 DEF Kept
  <1>. QED BY <1>2, <1>6, <1>7, WriteInv DEF ConfigInv

\* Connections: nothing that a draft or a version names is deleted.
LEMMA ConnectionInv ==
  ASSUME ConfigInv, Free, NEW k \in Connections, NEW s \in {"absent", "active", "archived"},
         NEW n \in 0..MaxStamp, UNCHANGED <<lock, call, issued>>, stamp' \in 0..MaxStamp,
         tree' = [tree EXCEPT !.connections[k] = s, !.stamp = n],
         s = "absent" => Eligible(k)
  PROVE  ConfigInv'
  <1>1. tree \in Trees /\ DraftsSound(tree) /\ VersionsSound(tree)
    BY DEF ConfigInv, Sound
  <1>2. tree' \in Trees
    BY <1>1 DEF Trees
  <1>3. /\ tree'.drafts = tree.drafts /\ tree'.versions = tree.versions
        /\ \A r \in Connections : tree'.connections[r] = IF r = k THEN s ELSE tree.connections[r]
    BY <1>1 DEF Trees
  <1>4. Sound(tree)'
    <2>1. DraftsSound(tree)'
      BY <1>1, <1>3 DEF DraftsSound
    <2>2. ASSUME NEW v \in Versions PROVE VersionSound(tree, v)'
      <3>1. tree.versions[v] # NoVersion => Refs[tree.versions[v].content] \subseteq Connections
        BY <1>1, VersionTyped, ConfigurationAssumption DEF VersionRecords
      <3>. QED BY <1>1, <1>3, <3>1 DEF VersionsSound, VersionSound, Eligible
    <2>3. VersionsSound(tree)'
      BY <1>1, <1>3, <2>2 DEF VersionsSound
    <2>. QED BY <1>2, <2>1, <2>3 DEF Sound
  <1>5. ASSUME NEW d \in Drafts PROVE Kept(d, tree, tree')
    <2>1. tree.drafts[d] # NoDraft => Refs[tree.drafts[d].content] \subseteq Connections
      BY <1>1, DraftTyped, ConfigurationAssumption DEF DraftRecords
    <2>. QED BY <1>3, <2>1 DEF Kept, Eligible
  <1>. QED BY <1>4, <1>5, WriteInv DEF ConfigInv

LEMMA DirectWriteInv ==
  ASSUME ConfigInv, DirectWrite
  PROVE  ConfigInv'
  <1>1. tree.stamp \in 0..MaxStamp /\ tree.connections \in [Connections -> {"absent", "active", "archived"}]
    BY DEF ConfigInv, Sound, Trees
  <1>2. ASSUME NEW k \in Connections, NEW from, NEW to \in {"active", "archived"}, Stamped(k, from, to)
        PROVE  ConfigInv'
    <2>1. stamp + 1 \in 0..MaxStamp
      BY <1>2, ConfigurationAssumption DEF Stamped, ConfigInv
    <2>. QED BY <1>2, <2>1, ConnectionInv DEF Stamped
  <1>3. ASSUME NEW k \in Connections, NEW s \in {"absent", "archived"},
               Free, UNCHANGED <<lock, call, issued, stamp>>,
               tree' = [tree EXCEPT !.connections[k] = s], s = "absent" => Eligible(k)
        PROVE  ConfigInv'
    <2>1. tree' = [tree EXCEPT !.connections[k] = s, !.stamp = tree.stamp]
      BY <1>3 DEF ConfigInv, Sound, Trees
    <2>. QED BY <1>1, <1>3, <2>1, ConnectionInv DEF ConfigInv
  <1>4. ASSUME NEW k \in Connections, ArchiveConnection(k) PROVE ConfigInv'
    BY <1>3, <1>4 DEF ArchiveConnection
  <1>5. ASSUME NEW k \in Connections, DeleteConnection(k) PROVE ConfigInv'
    BY <1>3, <1>5 DEF DeleteConnection
  <1>6. ASSUME NEW k \in Connections, CreateConnection(k) \/ UpdateConnection(k) \/ RestoreConnection(k)
        PROVE  ConfigInv'
    BY <1>2, <1>6 DEF CreateConnection, UpdateConnection, RestoreConnection
  <1>. QED BY <1>4, <1>5, <1>6, CreateDraftInv DEF DirectWrite
-----------------------------------------------------------------------------
(* The invariant.                                                          *)

LEMMA StutterInv == ConfigInv /\ UNCHANGED vars => ConfigInv'
  <1>. SUFFICES ASSUME ConfigInv, UNCHANGED vars PROVE ConfigInv'
    OBVIOUS
  <1>1. UNCHANGED <<tree, lock, call, issued, stamp>>
    BY DEF vars
  <1>2. Committed' = Committed
    BY <1>1 DEF Committed
  <1>3. Sound(tree)'
    BY <1>1 DEF ConfigInv, Sound, DraftsSound, VersionsSound, VersionSound
  <1>4. ASSUME NEW c \in Callers
        PROVE  Knows(call[c])' /\ Fresh(call[c], Committed)' /\ Copies(call[c])' /\ Installing(call[c])'
    <2>1. PICK k \in Requests : k = call[c]
      BY DEF ConfigInv
    <2>2. Knows(k) /\ Fresh(k, Committed) /\ Copies(k) /\ Installing(k)
      BY <2>1 DEF ConfigInv
    <2>3. Knows(k)' /\ Fresh(k, Committed)'
      BY <1>1, <1>2, <2>2 DEF Knows, Fresh
    <2>4. Copies(k)' /\ Installing(k)'
      BY <1>1, <2>2 DEF Copies, Installing, Sound, DraftsSound, VersionsSound, VersionSound
    <2>. QED BY <1>1, <2>1, <2>3, <2>4
  <1>. QED BY <1>1, <1>3, <1>4 DEF ConfigInv

LEMMA NextInv == ConfigInv /\ [Next]_vars => ConfigInv'
  <1>. SUFFICES ASSUME ConfigInv, Next PROVE ConfigInv'
    BY StutterInv
  <1>1. ASSUME NEW c \in Callers, Work(c) PROVE ConfigInv'
    <2>1. CASE GiveUp(c)
      BY <2>1, GiveUpInv DEF GiveUp
    <2>. QED BY <1>1, <2>1, CompileInv, RunPackageInv, CheckPublicationInv, StageInv DEF Work
  <1>2. ASSUME NEW c \in Callers, Install(c) PROVE ConfigInv'
    BY <1>2, CompareInv, MoveAwayInv, PutInv, PutFailsInv, PutBlockedInv, InstallAuditInv DEF Install
  <1>. QED BY <1>1, <1>2, RequestInv, DirectWriteInv, CrashInv DEF Next

\* ConfigInv holds in every reachable state: between any two steps of
\* _install_staged_directories, of the adapters and of the direct writes, every
\* tree, copy and backup is sound and every request knows what it read.
THEOREM ConfigurationInvariant == Spec => []ConfigInv
  BY InitInv, NextInv, PTL DEF Spec

\* What the holder of the lock knows when a commit counts.
LEMMA HolderOf ==
  ASSUME ConfigInv, lock # NoCaller
  PROVE  /\ lock \in Callers /\ call[lock].pc \in {"compared", "moved", "put"}
         /\ call[lock].pc = "moved" => Configuration(tree) = EmptyTree
         /\ call[lock].pc = "put" =>
              OwnChange(call[lock], Configuration(call[lock].base), Configuration(tree))
         /\ Committed = IF call[lock].pc = "compared" THEN tree ELSE call[lock].base
  <1>1. lock \in Callers /\ call[lock].pc \in {"compared", "moved", "put"}
    BY DEF ConfigInv
  <1>2. /\ Installing(call[lock])
        /\ OwnChange(call[lock], Configuration(call[lock].base), Configuration(call[lock].staged))
        /\ Committed = IF call[lock].pc = "compared" THEN tree ELSE call[lock].base
    BY <1>1, Holder
  <1>. QED BY <1>1, <1>2 DEF Installing

LEMMA CommitStep ==
  ASSUME ConfigInv, Next, lock # NoCaller, Configuration(Committed') # Configuration(Committed)
  PROVE  \/ Configuration(Committed') = EmptyTree
         \/ OwnChange(call[lock], Configuration(Committed), Configuration(Committed'))
  <1>. DEFINE Good == \/ Configuration(Committed') = EmptyTree
                      \/ OwnChange(call[lock], Configuration(Committed), Configuration(Committed'))
  <1>1. /\ lock \in Callers /\ call[lock].pc \in {"compared", "moved", "put"}
        /\ call[lock].pc = "moved" => Configuration(tree) = EmptyTree
        /\ call[lock].pc = "put" =>
             OwnChange(call[lock], Configuration(call[lock].base), Configuration(tree))
        /\ Committed = IF call[lock].pc = "compared" THEN tree ELSE call[lock].base
    BY HolderOf
  <1>2. ASSUME lock' = NoCaller, UNCHANGED tree PROVE Good
    <2>1. Committed' = tree
      BY <1>2 DEF Committed
    <2>. QED BY <1>1, <2>1
  <1>3. call \in [Callers -> Requests]
    BY DEF ConfigInv
  <1>4. ASSUME UNCHANGED <<lock, tree>>, call'[lock] = call[lock] PROVE FALSE
    BY <1>4 DEF Committed
  <1>5. ASSUME NEW c \in Callers, Request(c) PROVE FALSE
    BY <1>5 DEF Request, BeginRename, BeginValidate, BeginPublish, BeginEdit, BeginRollback, ReadDraft, Free
  <1>6. ASSUME NEW c \in Callers, Compile(c) PROVE FALSE
    <2>1. lock # c /\ call'[lock] = call[lock] /\ lock' = lock
      BY <1>1, <1>3, <1>6 DEF Compile, Goto
    <2>2. Configuration(tree') = Configuration(tree)
      <3>1. PICK i \in Requests : i = call[c]
        BY <1>3
      <3>2. i.pc = "compile" /\ Knows(i)
        BY <1>6, <3>1 DEF Compile, ConfigInv
      <3>3. i.draft \in Drafts /\ i.content \in Contents
        BY <3>2 DEF Knows
      <3>. QED BY <1>6, <3>1, <3>3, PackagesFree DEF Compile, PackageOf, Packages, ConfigInv, Sound
    <2>. QED BY <1>1, <2>1, <2>2 DEF Committed
  <1>7. ASSUME NEW c \in Callers, RunPackage(c) PROVE FALSE
    <2>1. lock # c
      BY <1>1, <1>7 DEF RunPackage
    <2>2. UNCHANGED <<lock, tree>> /\ call'[lock] = call[lock]
      BY <1>1, <1>3, <1>7, <2>1 DEF RunPackage
    <2>. QED BY <1>4, <2>2
  <1>8. ASSUME NEW c \in Callers, GiveUp(c) PROVE Good
    <2>1. CASE lock = c
      BY <1>2, <1>8, <2>1 DEF GiveUp
    <2>2. CASE lock # c
      BY <1>1, <1>3, <1>4, <1>8, <2>2 DEF GiveUp, Reply
    <2>. QED BY <2>1, <2>2
  <1>9. ASSUME NEW c \in Callers, CheckPublication(c) \/ Stage(c) \/ Compare(c) PROVE FALSE
    BY <1>9 DEF CheckPublication, Stage, Compare, Free
  <1>10. ASSUME NEW c \in Callers, MoveAway(c) \/ Put(c) PROVE FALSE
    <2>1. lock = c /\ lock' = lock
      BY <1>10 DEF MoveAway, Put, ConfigInv
    <2>2. CASE MoveAway(c)
      <3>1. call'[c].pc = "moved" /\ call'[c].base = tree /\ Committed = tree
        BY <1>1, <1>3, <2>1, <2>2 DEF MoveAway, Requests
      <3>. QED BY <1>1, <2>1, <3>1 DEF Committed
    <2>3. CASE Put(c)
      <3>1. call'[c].pc = "put" /\ call'[c].base = call[c].base /\ Committed = call[c].base
        BY <1>1, <1>3, <2>1, <2>3 DEF Put, Goto, Requests
      <3>. QED BY <1>1, <2>1, <3>1 DEF Committed
    <2>. QED BY <1>10, <2>2, <2>3
  <1>11. ASSUME NEW c \in Callers, PutFails(c) \/ AuditFails(c) PROVE FALSE
    <2>1. lock = c /\ lock' = NoCaller /\ tree' = call[c].base /\ call[c].pc \in {"moved", "put"}
      BY <1>11 DEF PutFails, AuditFails, ConfigInv
    <2>. QED BY <1>1, <2>1 DEF Committed
  <1>12. ASSUME NEW c \in Callers, PutBlocked(c) \/ InstallAudit(c) PROVE Good
    BY <1>2, <1>12 DEF PutBlocked, InstallAudit
  <1>13. ASSUME DirectWrite PROVE Good
    BY <1>13 DEF DirectWrite, CreateDraft, CreateConnection, UpdateConnection, RestoreConnection,
                 Stamped, ArchiveConnection, DeleteConnection, Free
  <1>14. ASSUME Crash PROVE Good
    BY <1>2, <1>14 DEF Crash
  <1>. HIDE DEF Good
  <1>15. ASSUME NEW c \in Callers, Work(c) PROVE Good
    BY <1>6, <1>7, <1>8, <1>9, <1>15 DEF Work
  <1>16. ASSUME NEW c \in Callers, Install(c) PROVE Good
    BY <1>9, <1>10, <1>11, <1>12, <1>16 DEF Install
  <1>17. Good
    BY <1>5, <1>13, <1>14, <1>15, <1>16 DEF Next
  <1>. QED BY <1>17 DEF Good

\* The commit of a unit of work, which renames a whole copied tree into place,
\* changes only what its own request was about, from what its caller had read,
\* however many callers read, compile, install, fail and crash in between.
THEOREM CommitsOwn == Spec => CommitsAreOwn
  <1>1. ConfigInv /\ [Next]_vars =>
          [LET before == Configuration(Committed)
               after  == Configuration(Committed')
           IN lock # NoCaller /\ after # before =>
                after = EmptyTree \/ OwnChange(call[lock], before, after)]_vars
    BY CommitStep
  <1>. QED BY <1>1, ConfigurationInvariant, PTL DEF Spec, CommitsAreOwn

LEMMA InvImplies == ConfigInv => ConfigTypeOK /\ PublishedRevisionValidated /\ ReferencesExist
  <1>. SUFFICES ASSUME ConfigInv PROVE ConfigTypeOK /\ PublishedRevisionValidated /\ ReferencesExist
    OBVIOUS
  <1>1. \A c \in Callers : call[c] \in Requests
    BY DEF ConfigInv
  <1>2. ConfigTypeOK
    BY <1>1 DEF ConfigInv, ConfigTypeOK, Requests, Sound
  <1>3. PublishedRevisionValidated /\ ReferencesExist
    BY DEF ConfigInv, PublishedRevisionValidated, ReferencesExist, Sound, VersionsSound, VersionSound
  <1>. QED BY <1>2, <1>3

\* Trees, copies and backups keep their types, and only the holder of the store's
\* lock is between the comparison and the end of _install_staged_directories.
THEOREM ConfigTypeCorrect == Spec => []ConfigTypeOK
  BY ConfigurationInvariant, InvImplies, PTL

\* publish_version_record publishes only content whose own validation passed,
\* although the draft was read, compiled and copied in separate locked sections.
THEOREM PublishedValidated == Spec => []PublishedRevisionValidated
  BY ConfigurationInvariant, InvImplies, PTL

\* No connection that a published version names is deleted, although
\* validate_draft_publication looked at it before the copy was made.
THEOREM ReferencesStay == Spec => []ReferencesExist
  BY ConfigurationInvariant, InvImplies, PTL
=============================================================================
