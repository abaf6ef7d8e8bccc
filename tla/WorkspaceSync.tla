---------------------------- MODULE WorkspaceSync ----------------------------
(***************************************************************************)
(* What keeps a workspace in step with its repository: the post-commit     *)
(* hook, `index`, `update` and `refresh`, on a workspace either extraction *)
(* backend may have written (cli/_indexing.py, the hook template).         *)
(*                                                                         *)
(* Two backends share one store.  codeindex exports the working tree and   *)
(* is incremental by file; codegraph's export is a snapshot of a database  *)
(* of its own, which only the user brings up to date, and is either a noop *)
(* (its fingerprint is the recorded one) or a rebuild.  The meta table     *)
(* remembers backend and fingerprint from one command to the next.         *)
(*                                                                         *)
(* Content is by file here (GraphIngest has the symbols and tables): the   *)
(* row of a file is the version it was exported at, together with the      *)
(* version of the configuration the export ran under.                      *)
(***************************************************************************)
EXTENDS Naturals, FiniteSets

CONSTANTS
    Sources,     \* files of a supported language
    Docs,        \* a file no backend reads
    Config,      \* .codeindex.yaml
    Procs,       \* commands that may run at once
    None,
    HookModes,   \* values LOOMGRAPH_HOOK_MODE may have at a commit
    MaxSync,     \* LOOMGRAPH_MAX_FILES_SYNC
    MaxEvents    \* bound: what developers do and what dies, in all

Files == Sources \cup {Docs, Config}
Backends == {"codeindex", "codegraph"}

ASSUME SyncAssumption ==
    /\ IsFiniteSet(Sources)
    /\ Docs \notin Sources /\ Config \notin Sources /\ Docs # Config
    /\ None \notin Nat /\ None \notin Backends /\ None \notin Nat \X Nat
    /\ HookModes \subseteq {"auto", "sync", "async", "disabled"}
    /\ MaxSync \in Nat /\ MaxEvents \in Nat

VARIABLES
    base, head, work,  \* the trees of HEAD~1, HEAD and the working tree
    cg,                \* codegraph's database: the tree it indexed, its fingerprint
    rows,              \* backend -> file -> what its rows were exported from
    meta,              \* extraction_backend and codegraph_fingerprint
    run,               \* process -> the command it is executing
    edits,             \* so far; names the versions
    events,            \* bound
    taint              \* history: what stands between this workspace and its promises

repo == <<base, head, work, cg>>
store == <<rows, meta>>
vars == <<repo, store, run, edits, events, taint>>

Tree == [Files -> Nat]
Version == Nat \X Nat

NoRows == [f \in Sources |-> None]

\* what the export of a tree has for a file
Row(b, t, f) == <<t[f], IF b = "codeindex" THEN t[Config] ELSE 0>>

Export(b, t) == [f \in Sources |-> Row(b, t, f)]

\* git diff --name-only between two trees
Changed(s, t) == {f \in Files : s[f] # t[f]}

Recorded == IF meta.backend = None THEN "codeindex" ELSE meta.backend

\* No command; a command has its name, the backend (None until routed), what
\* it is to do with the rows, what it exported, and the files it covers.
Idle == [pc |-> "idle", cmd |-> None, backend |-> None, mode |-> None,
         tree |-> None, stamp |-> None, changed |-> {}, front |-> FALSE]

At(p, l) == run[p].pc = l

Active == {p \in Procs : ~At(p, "idle")}

\* bound: what happens beside a running command counts twice
Event(n) ==
    /\ events + n <= MaxEvents
    /\ events' = events + n

Beside == IF Active = {} THEN 1 ELSE 2

End(p) == run' = [run EXCEPT ![p] = Idle]

\* process p is about to work with backend b (None: not yet known)
Contention(p, b) ==
    {t \in {"raced"} : Active \ {p} # {}} \cup
    {t \in {"crossed"} : b # None /\ \E q \in Active \ {p} : run[q].backend \notin {b, None}}

-----------------------------------------------------------------------------
(* Starting a command.                                                     *)

\* Mutant: the codeindex checks come before the backend is looked at.
UpdatePcGate(b) == "gate"

\* the first step of an update whose backend is known
UpdatePc(b) == IF b = "codegraph" THEN "export" ELSE "gate"

\* commands are interchangeable: the next takes a free place
FreePlace == CHOOSE p \in Procs : At(p, "idle")

Launch(p, command, marks) ==
    /\ Active # Procs /\ p = FreePlace
    /\ run' = [run EXCEPT ![p] = command]
    /\ taint' = taint \cup marks \cup Contention(p, command.backend)

\* an explicit backend that is not the recorded one
Override(b) == {t \in {"override"} : b \notin {None, Recorded}}

\* codeindex is asked for while a fingerprint is recorded
Switch(b) == {t \in {"switched"} : b = "codeindex" /\ meta.fp # None}

\* update, with or without --backend
UpdateOf(b, front) ==
    [Idle EXCEPT !.cmd = "update", !.backend = b, !.front = front, !.mode = "incremental",
                 !.pc = IF b = None THEN "route" ELSE UpdatePc(b)]

BeginIndex(p) ==
    \E b \in Backends, clear \in BOOLEAN :
        Launch(p, [Idle EXCEPT !.cmd = "index", !.backend = b, !.pc = "export",
                               !.mode = IF clear THEN "rebuild" ELSE "append"],
               Switch(b) \cup IF clear THEN {} ELSE Override(b) \cup {"appended"})

BeginUpdate(p) ==
    \E b \in Backends \cup {None} : Launch(p, UpdateOf(b, FALSE), Switch(b) \cup Override(b))

\* Mutant: refresh takes the workspace for a codeindex one.
RefreshBackendDefault == "codeindex"

\* refresh honors the recorded backend
RefreshBackend == Recorded

\* refresh without force is refused on a codegraph workspace and a noop on
\* a clean working tree: then nothing starts
BeginRefresh(p) ==
    LET b == RefreshBackend
        dirty == Changed(head, work)
    IN  \/ Launch(p, [Idle EXCEPT !.cmd = "refresh", !.backend = b, !.mode = "rebuild",
                                  !.pc = "export"], {})
        \/ /\ b = "codeindex" /\ dirty # {}
           /\ Launch(p, [Idle EXCEPT !.cmd = "refresh", !.backend = b, !.mode = "incremental",
                                     !.pc = "export", !.changed = dirty], {})

Command ==
    /\ Event(Beside)
    /\ \E p \in Procs : BeginIndex(p) \/ BeginUpdate(p) \/ BeginRefresh(p)
    /\ UNCHANGED <<repo, store, edits>>

-----------------------------------------------------------------------------
(* The steps of a command.                                                 *)

\* _peek_backend: the recorded backend, or the default
Routed == Recorded

Route(p) ==
    /\ At(p, "route")
    /\ run' = [run EXCEPT ![p].backend = Routed, ![p].pc = UpdatePc(Routed)]
    /\ taint' = taint \cup Contention(p, Routed)
    /\ UNCHANGED <<repo, store, edits, events>>

\* Mutant: a changed configuration is handled like a changed source.
GateModeNoConfig(diff) == IF diff \cap (Sources \cup {Config}) # {} THEN "incremental" ELSE "skip"

\* what the diff since HEAD~1 asks for
GateMode(diff) ==
    IF Config \in diff THEN "rebuild"
    ELSE IF diff \cap Sources # {} THEN "incremental" ELSE "skip"

Gate(p) ==
    /\ At(p, "gate")
    /\ LET m == GateMode(Changed(base, work))
       IN  \/ m = "skip" /\ End(p)
           \/ m # "skip" /\ run' = [run EXCEPT ![p].mode = m, ![p].pc = "export"]
    /\ UNCHANGED <<repo, store, edits, events, taint>>

\* codeindex reads the working tree, codegraph's reader copies its database
Exported(p) ==
    /\ At(p, "export")
    /\ LET b == run[p].backend
           next == IF b = "codegraph" /\ run[p].cmd = "update" THEN "peek"
                   ELSE IF run[p].mode = "rebuild" THEN "clear"
                   ELSE IF run[p].mode = "append" THEN "insert"
                   ELSE IF run[p].cmd = "update" THEN "look" ELSE "gc"
       IN  run' = [run EXCEPT ![p].tree = IF b = "codegraph" THEN cg.tree ELSE work,
                              ![p].stamp = IF b = "codegraph" THEN cg.stamp ELSE None,
                              ![p].pc = next]
    /\ UNCHANGED <<repo, store, edits, events, taint>>

\* get_changed_files: a second look at git, after the export
Look(p) ==
    /\ At(p, "look")
    /\ run' = [run EXCEPT ![p].changed = Changed(base, work), ![p].pc = "gc"]
    /\ UNCHANGED <<repo, store, edits, events, taint>>

\* Mutant: the fingerprint is taken without the newest updated_at.
UnchangedCountsOnly(p) == meta.fp # None

\* the noop: the snapshot's fingerprint is the recorded one
Unchanged(p) == meta.fp = run[p].stamp

Peek(p) ==
    /\ At(p, "peek")
    /\ \/ Unchanged(p) /\ End(p)
       \/ ~Unchanged(p) /\ run' = [run EXCEPT ![p].mode = "rebuild", ![p].pc = "clear"]
    /\ UNCHANGED <<repo, store, edits, events, taint>>

\* delete_all empties the tables and keeps meta
Clear(p) ==
    /\ At(p, "clear")
    /\ rows' = [b \in Backends |-> NoRows]
    /\ run' = [run EXCEPT ![p].pc = "insert"]
    /\ UNCHANGED <<repo, meta, edits, events, taint>>

\* ingest_incremental's GC: what the store has of a covered file and the
\* export has not, the other backend's symbols included
Gc(p) ==
    /\ At(p, "gc")
    /\ rows' = [b \in Backends |-> [f \in Sources |->
                   IF b # "codeindex" /\ f \in run[p].changed THEN None ELSE rows[b][f]]]
    /\ run' = [run EXCEPT ![p].pc = "insert"]
    /\ UNCHANGED <<repo, meta, edits, events, taint>>

Covered(p) == IF run[p].mode = "incremental" THEN run[p].changed ELSE Files

\* Mutant: nothing is recorded.
RecordsNever(p) == FALSE

\* only `index` and codegraph's rebuilds record the backend
Records(p) == run[p].cmd = "index" \/ run[p].backend = "codegraph"

Insert(p) ==
    /\ At(p, "insert")
    /\ LET b == run[p].backend
       IN  rows' = [rows EXCEPT ![b] = [f \in Sources |->
                       IF f \in Covered(p) THEN Row(b, run[p].tree, f) ELSE @[f]]]
    /\ \/ Records(p) /\ run' = [run EXCEPT ![p].pc = "backend"]
       \/ ~Records(p) /\ End(p)
    /\ UNCHANGED <<repo, meta, edits, events, taint>>

RecordBackend(p) ==
    /\ At(p, "backend")
    /\ meta' = [meta EXCEPT !.backend = run[p].backend]
    /\ \/ run[p].backend = "codegraph" /\ run' = [run EXCEPT ![p].pc = "fp"]
       \/ run[p].backend # "codegraph" /\ End(p)
    /\ UNCHANGED <<repo, rows, edits, events, taint>>

\* a rebuild that got here makes up for what went before it
RecordFp(p) ==
    /\ At(p, "fp")
    /\ meta' = [meta EXCEPT !.fp = run[p].stamp]
    /\ End(p)
    /\ taint' = taint \ {t \in {"halfway", "switched", "override", "unrecorded", "appended"} :
                            run[p].mode = "rebuild" /\ "raced" \notin taint}
    /\ UNCHANGED <<repo, rows, edits, events>>

\* Killed, or an error.  Halfway: the store is without the snapshot whose
\* fingerprint is on record.  Unrecorded: it holds another backend's rows.
Die(p) ==
    /\ p \in Active
    /\ Event(1)
    /\ End(p)
    /\ taint' = taint \cup {"died"}
                \cup {t \in {"halfway"} : At(p, "insert") /\ run[p].mode = "rebuild"}
                \cup {t \in {"unrecorded"} : At(p, "backend") /\ run[p].backend # Recorded}
    /\ UNCHANGED <<repo, store, edits>>

-----------------------------------------------------------------------------
(* The developer and the hook.                                             *)

Edit ==
    /\ Event(1)
    /\ edits' = edits + 1
    /\ \E f \in Files : work' = [work EXCEPT ![f] = edits']
    /\ UNCHANGED <<base, head, cg, store, run, taint>>

\* git checkout -- f: bad luck for what the store has already read
Checkout ==
    /\ Event(1)
    /\ \E f \in Changed(head, work) :
          /\ work' = [work EXCEPT ![f] = head[f]]
          /\ taint' = taint \cup {t \in {"discarded"} :
                         \/ Active # {}
                         \/ \E g \in Sources : /\ f \in {g, Config}
                                               /\ rows["codeindex"][g] # Row("codeindex", work', g)}
    /\ UNCHANGED <<base, head, cg, store, run, edits>>

\* Mutant: the hook leaves single-file commits to the next one.
RunModeSkipsOne(mode, n) ==
    IF mode = "disabled" \/ n <= 1 THEN "none"
    ELSE IF mode = "auto" THEN IF n <= MaxSync THEN "sync" ELSE "async"
    ELSE mode

\* the hook's decision for a commit of n files; nobody is told of n = 0,
\* which is what diff-tree shows of a merge
RunMode(mode, n) ==
    IF mode = "disabled" \/ n = 0 THEN "none"
    ELSE IF mode = "auto" THEN IF n <= MaxSync THEN "sync" ELSE "async"
    ELSE mode

\* a commit waits for the hook of the last one if that runs in front
Advance(t) ==
    /\ Event(Beside)
    /\ ~ \E p \in Active : run[p].front
    /\ base' = head
    /\ head' = t

\* git commit of some of the edited files, and the post-commit hook
Commit ==
    /\ \E C \in (SUBSET Changed(head, work)) \ {{}}, mode \in HookModes :
          LET m == RunMode(mode, Cardinality(C))
          IN  /\ Advance([f \in Files |-> IF f \in C THEN work[f] ELSE head[f]])
              /\ \/ /\ m = "none"
                    /\ taint' = taint \cup {t \in {"skipped"} : mode = "disabled"}
                    /\ UNCHANGED run
                 \/ /\ m # "none"
                    /\ \E p \in Procs : Launch(p, UpdateOf(None, m = "sync"), {})
    /\ UNCHANGED <<work, cg, store, edits>>

\* a merge brings one file; the hook sees no changed file, or is not run
MergeCommit ==
    /\ edits' = edits + 1
    /\ Changed(head, work) = {}
    /\ RunMode("auto", 0) = "none"
    /\ \E f \in Files : /\ Advance([head EXCEPT ![f] = edits'])
                        /\ work' = head'
    /\ taint' = taint \cup {"skipped"}
    /\ UNCHANGED <<cg, store, run>>

\* codegraph sync, by the user: changed nodes get a new updated_at
SyncCodegraph ==
    /\ Event(1)
    /\ Changed(cg.tree, work) # {}
    /\ cg' = [tree |-> work, stamp |-> cg.stamp + 1]
    /\ UNCHANGED <<base, head, work, store, run, edits, taint>>

-----------------------------------------------------------------------------
\* a workspace no command has recorded a backend in, or one that a finished
\* index of either backend left, up to date
Init ==
    /\ base = [f \in Files |-> 0] /\ head = base /\ work = base
    /\ cg = [tree |-> work, stamp |-> 0]
    /\ \E b \in Backends :
          /\ rows = [k \in Backends |-> IF k = b THEN Export(b, work) ELSE NoRows]
          /\ \/ meta = [backend |-> b, fp |-> IF b = "codegraph" THEN 0 ELSE None]
             \/ b = "codeindex" /\ meta = [backend |-> None, fp |-> None]
    /\ run = [p \in Procs |-> Idle]
    /\ edits = 0 /\ events = 0
    /\ taint = {}

Step(p) ==
    \/ Route(p) \/ Gate(p) \/ Exported(p) \/ Look(p) \/ Peek(p)
    \/ Clear(p) \/ Gc(p) \/ Insert(p) \/ RecordBackend(p) \/ RecordFp(p)

Developer == Edit \/ Checkout \/ Commit \/ MergeCommit \/ SyncCodegraph \/ Command

Next == Developer \/ \E p \in Procs : Step(p) \/ Die(p)

\* A command that was started and not killed runs to its end.  Nothing makes
\* the developer do anything, and nothing makes a command die.
Fairness == \A p \in Procs : WF_vars(Step(p))

Spec == Init /\ [][Next]_vars /\ Fairness
-----------------------------------------------------------------------------
(* Properties.                                                             *)

Marks == {"raced", "crossed", "override", "switched", "appended", "halfway",
          "unrecorded", "died", "discarded", "skipped"}

Labels == {"idle", "route", "gate", "export", "look", "peek", "clear", "gc", "insert",
           "backend", "fp"}

CommandOK(c) ==
    /\ c.pc \in Labels /\ c.cmd \in {None, "index", "update", "refresh"}
    /\ c.backend \in Backends \cup {None}
    /\ c.mode \in {None, "rebuild", "append", "incremental"}
    /\ c.tree \in Tree \cup {None} /\ c.stamp \in Nat \cup {None}
    /\ c.changed \subseteq Files /\ c.front \in BOOLEAN
    /\ c.pc \in {"gate", "look", "gc"} => c.backend = "codeindex"
    /\ c.pc \in {"peek", "fp"} => c.backend = "codegraph"
    /\ c.pc \in {"look", "peek", "clear", "gc", "insert"} => c.tree \in Tree

\* Type invariant of the repository, the store, the commands and the history.
TypeOK ==
    /\ base \in Tree /\ head \in Tree /\ work \in Tree
    /\ cg.tree \in Tree /\ cg.stamp \in Nat
    /\ rows \in [Backends -> [Sources -> Version \cup {None}]]
    /\ meta.backend \in Backends \cup {None} /\ meta.fp \in Nat \cup {None}
    /\ \A p \in Procs : CommandOK(run[p])
    /\ edits \in Nat /\ events \in Nat
    /\ taint \subseteq Marks

Free(marks) == taint \cap marks = {}

\* A store never has rows of both backends: a bare `update` and `refresh`
\* follow the record.  Exceptions: a backend forced on an incremental or
\* appending command, a rebuild that died before it was recorded, two
\* commands of different backends at once.
OneBackend ==
    Free({"override", "unrecorded", "crossed"}) => \E b \in Backends : rows[b] = NoRows

\* Between commands the record names the backend whose rows the store has,
\* whatever sequence of commands, with the same exceptions.
RecordNamesRows ==
    Active = {} /\ Free({"override", "unrecorded", "crossed"}) =>
        \A b \in Backends \ {Recorded} : rows[b] = NoRows

\* "unchanged -> noop (graph already current for this snapshot)": an update
\* that skips its rebuild leaves exactly the snapshot it read in the store,
\* unless a rebuild of the recorded snapshot died behind its clear, codeindex
\* wrote since, rows were appended, or commands raced.
NoopIsCurrent ==
    [][ \A p \in Procs :
          /\ At(p, "peek") /\ At(p, "idle")' /\ events' = events
          /\ Free({"halfway", "switched", "appended", "raced"})
          => /\ rows["codegraph"] = Export("codegraph", run[p].tree)
             /\ rows["codeindex"] = NoRows ]_vars

\* the store has every clean file as it is in HEAD
Current ==
    work[Config] = head[Config] =>
        \A f \in Sources : work[f] = head[f] => rows["codeindex"][f] = Row("codeindex", head, f)

\* A codeindex workspace whose commits all reached the hook, whose commands
\* all finished one after the other, and whose developer never discarded an
\* edit the store had read; an append keeps the symbols a file has lost,
\* which rows by file do not show.
Trusted ==
    /\ Recorded = "codeindex"
    /\ Free({"raced", "died", "discarded", "skipped", "appended"})

\* Such a workspace is current whenever no command is running: the diff since
\* HEAD~1, the second look after the export and the rebuild on a changed
\* configuration add up over any sequence of edits, partial commits, updates
\* and refreshes.
IdleIsCurrent == Active = {} /\ Trusted => Current

\* and every commit is caught up with, without anybody running a command.
CatchesUp == ~Current ~> (Current \/ ~Trusted)
=============================================================================
