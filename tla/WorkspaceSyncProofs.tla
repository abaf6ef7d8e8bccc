------------------------- MODULE WorkspaceSyncProofs -------------------------
(***************************************************************************)
(* Proofs about WorkspaceSync: types, and what a store that two backends   *)
(* may write holds, for every number of files, commands and events.        *)
(***************************************************************************)
EXTENDS WorkspaceSync, FiniteSetTheorems, TLAPS

-----------------------------------------------------------------------------
(* Types.                                                                  *)

Commands ==
    [pc : Labels, cmd : {None, "index", "update", "refresh"}, backend : Backends \cup {None},
     mode : {None, "rebuild", "append", "incremental"}, tree : Tree \cup {None},
     stamp : Nat \cup {None}, changed : SUBSET Files, front : BOOLEAN]

Exporting == {"look", "peek", "clear", "gc", "insert", "backend", "fp"}

\* what a command knows of itself at each of its steps
Formed(c) ==
    /\ c.pc \notin {"idle", "route"} =>
          c.backend \in Backends /\ c.mode \in {"rebuild", "append", "incremental"}
    /\ c.pc \in {"idle", "route"} => c.backend = None
    /\ c.pc = "idle" => c.stamp = None
    /\ c.pc \in {"gate", "look", "gc"} => c.backend = "codeindex"
    /\ c.pc \in {"peek", "fp"} => c.backend = "codegraph"
    /\ c.pc \in Exporting => c.tree \in Tree /\ (c.backend = "codegraph" => c.stamp \in Nat)
    /\ c.pc = "clear" => c.mode = "rebuild"
    /\ c.pc = "gc" => c.mode = "incremental"
    /\ c.pc \in {"route", "gate", "look", "peek"} => c.cmd = "update" /\ c.mode = "incremental"
    /\ c.pc # "idle" /\ c.mode = "incremental" => c.cmd # "index"
    /\ c.pc # "idle" /\ c.mode = "append" => c.cmd = "index"
    /\ c.backend = "codegraph" /\ c.mode = "incremental" =>
          c.cmd = "update" /\ c.pc \in {"route", "export", "peek"}
    /\ c.pc = "export" /\ c.backend = "codegraph" /\ c.cmd = "update" => c.mode = "incremental"

TypeInv ==
    /\ base \in Tree /\ head \in Tree /\ work \in Tree
    /\ cg \in [tree : Tree, stamp : Nat]
    /\ rows \in [Backends -> [Sources -> Version \cup {None}]]
    /\ meta \in [backend : Backends \cup {None}, fp : Nat \cup {None}]
    /\ run \in [Procs -> Commands]
    /\ \A p \in Procs : Formed(run[p])
    /\ edits \in Nat /\ events \in Nat
    /\ taint \subseteq Marks

-----------------------------------------------------------------------------
(* The inductive invariant.                                                *)

\* no row of a backend other than b
Only(b) == \A c \in Backends \ {b} : rows[c] = NoRows

Busy(p) == ~At(p, "idle")

\* a fingerprint names one tree of codegraph's database, and grows
Stamps ==
    /\ meta.fp # None => meta.fp <= cg.stamp
    /\ \A p \in Procs : run[p].stamp # None =>
          /\ run[p].stamp <= cg.stamp
          /\ run[p].stamp = cg.stamp => run[p].tree = cg.tree

Crossing == "crossed" \in taint => "raced" \in taint

\* as long as no two commands ran at once, a rebuild has the store to itself
Solitude ==
    "raced" \notin taint =>
        /\ \A p, q \in Procs : Busy(p) /\ Busy(q) => p = q
        /\ \A p \in Procs :
              /\ run[p].mode = "rebuild" /\ At(p, "insert") => \A b \in Backends : rows[b] = NoRows
              /\ run[p].mode = "rebuild" /\ run[p].pc \in {"backend", "fp"} =>
                    /\ rows[run[p].backend] = Export(run[p].backend, run[p].tree)
                    /\ Only(run[p].backend)
              /\ At(p, "fp") => Recorded = "codegraph"

\* the commands that may bring rows of a backend that is not on record
Replaces(p) == run[p].cmd = "index" /\ run[p].mode = "rebuild"

\* all running commands work with one backend, and the rows are those of the
\* recorded one, but for a command that is about to record another
Partition ==
    Free({"override", "unrecorded", "crossed"}) =>
        /\ \A p, q \in Procs : run[p].backend # None /\ run[q].backend # None =>
                                   run[p].backend = run[q].backend
        /\ \A p \in Procs : run[p].backend # None /\ ~Replaces(p) => Recorded = run[p].backend
        /\ \A p \in Procs : \/ At(p, "insert") /\ Replaces(p)
                            \/ At(p, "backend")
                            => Only(run[p].backend)
        /\ \A b \in Backends : rows[b] # NoRows =>
              /\ Only(b)
              /\ b = Recorded \/ \E p \in Procs : At(p, "backend") /\ run[p].backend = b

Snapshot(t) == rows["codegraph"] = Export("codegraph", t) /\ rows["codeindex"] = NoRows

\* the store has the snapshot whose fingerprint is on record, if that is the
\* latest one; codegraph's fingerprint is on record only for codegraph's rows
Fingerprint ==
    Free({"halfway", "switched", "appended", "raced"}) =>
        /\ meta.fp = cg.stamp /\ (\A p \in Procs : ~At(p, "insert")) => Snapshot(cg.tree)
        /\ Recorded = "codeindex" => meta.fp = None
        /\ \A p \in Procs :
              /\ Busy(p) => run[p].mode # "append"
              /\ run[p].backend = "codeindex" => meta.fp = None
              /\ At(p, "peek") /\ run[p].stamp = meta.fp => Snapshot(run[p].tree)
              /\ run[p].stamp # None /\ meta.fp # None => meta.fp <= run[p].stamp

Inv == TypeInv /\ Stamps /\ Crossing /\ Solitude /\ Partition /\ Fingerprint

-----------------------------------------------------------------------------
(* Commands that start.                                                    *)

\* p was free and now has command c, with the marks that go with it
Launched(p, c) ==
    /\ At(p, "idle") /\ c \in Commands /\ Formed(c)
    /\ c.pc \in {"route", "gate", "export"} /\ c.stamp = None
    /\ run' = [run EXCEPT ![p] = c]
    /\ taint \subseteq taint' /\ taint' \subseteq Marks
    /\ (\E q \in Procs \ {p} : Busy(q)) => "raced" \in taint'
    /\ "crossed" \in taint' => "crossed" \in taint \/ "raced" \in taint'
    /\ c.backend # None => \A q \in Procs \ {p} :
          run[q].backend \notin {c.backend, None} => "crossed" \in taint'
    /\ c.backend \notin {None, Recorded} =>
          "override" \in taint' \/ (c.cmd = "index" /\ c.mode = "rebuild")
    /\ c.backend = "codeindex" =>
          meta.fp = None \/ "switched" \in taint' \/ Recorded = "codeindex"
    /\ c.mode = "append" => "appended" \in taint'
    /\ c.cmd = "update" /\ c.backend = "codeindex" => c.pc = "gate"

\* The marks Launch adds.
LEMMA LaunchMarks ==
    ASSUME TypeInv, NEW p \in Procs, NEW c \in Commands, Formed(c),
           c.pc \in {"route", "gate", "export"}, c.stamp = None,
           NEW marks \in SUBSET {"override", "switched", "appended"}, Launch(p, c, marks),
           c.backend \notin {None, Recorded} =>
               "override" \in marks \/ (c.cmd = "index" /\ c.mode = "rebuild"),
           c.backend = "codeindex" =>
               meta.fp = None \/ "switched" \in marks \/ Recorded = "codeindex",
           c.mode = "append" => "appended" \in marks,
           c.cmd = "update" /\ c.backend = "codeindex" => c.pc = "gate"
    PROVE  Launched(p, c)
<1>1. At(p, "idle")
  BY DEF Launch, FreePlace, Active
<1>2. run' = [run EXCEPT ![p] = c] /\ taint' = taint \cup marks \cup Contention(p, c.backend)
  BY DEF Launch
<1>3. taint' \subseteq Marks
  BY <1>2 DEF TypeInv, Contention, Marks
<1>4. /\ (\E q \in Procs \ {p} : Busy(q)) => "raced" \in taint'
      /\ "crossed" \in taint' => "crossed" \in taint \/ "raced" \in taint'
  BY <1>2 DEF Contention, Active, Busy
<1>5. ASSUME c.backend # None, NEW q \in Procs \ {p}, run[q].backend \notin {c.backend, None}
      PROVE  "crossed" \in taint'
  <2>1. q \in Active \ {p}
    BY <1>5 DEF TypeInv, Formed, Active, At
  <2> QED
    BY <2>1, <1>2, <1>5 DEF Contention
<1> QED
  BY <1>1, <1>2, <1>3, <1>4, <1>5 DEF Launched

\* No command is a command of the right form.
LEMMA IdleCommand ==
    /\ Idle \in Commands /\ Formed(Idle) /\ Idle.pc = "idle" /\ Idle.backend = None
    /\ Idle.tree = None /\ Idle.stamp = None
BY SyncAssumption DEF Idle, Commands, Labels, Formed, Exporting, Backends

\* The command of an update.
LEMMA UpdateCommand ==
    ASSUME NEW b \in Backends \cup {None}, NEW front \in BOOLEAN
    PROVE  LET c == UpdateOf(b, front)
           IN  /\ c \in Commands /\ Formed(c)
               /\ c.pc \in {"route", "gate", "export"} /\ c.stamp = None
               /\ c.backend = b /\ c.mode = "incremental"
               /\ b = "codeindex" => c.pc = "gate"
               /\ b = None => c.pc = "route"
<1> DEFINE first == IF b = None THEN "route" ELSE UpdatePc(b)
           c == [Idle EXCEPT !.cmd = "update", !.backend = b, !.front = front,
                             !.mode = "incremental", !.pc = first]
<1>1. None \notin Nat /\ None \notin Backends
  BY SyncAssumption
<1>3. /\ first \in Labels /\ first \in {"route", "gate", "export"}
      /\ first = "route" <=> b = None
      /\ first = "gate" <=> b = "codeindex"
  BY <1>1 DEF UpdatePc, Labels, Backends
<1> HIDE DEF first
<1>2. /\ c \in Commands /\ c.stamp = None /\ c.backend = b /\ c.mode = "incremental"
      /\ c.cmd = "update" /\ c.pc = first
  BY <1>3, IdleCommand DEF Commands
<1>4. UpdateOf(b, front) = c
  BY DEF UpdateOf, first
<1> HIDE DEF c
<1>5. Formed(c)
  BY <1>1, <1>2, <1>3 DEF Formed, Exporting, Backends
<1> QED
  BY <1>2, <1>3, <1>4, <1>5

\* `index` starts with a command of the right form and its marks,
LEMMA IndexStarts ==
    ASSUME TypeInv, NEW p \in Procs, BeginIndex(p)
    PROVE  \E c \in Commands : Launched(p, c)
<1> PICK b \in Backends, clear \in BOOLEAN :
        Launch(p, [Idle EXCEPT !.cmd = "index", !.backend = b, !.pc = "export",
                               !.mode = IF clear THEN "rebuild" ELSE "append"],
               Switch(b) \cup IF clear THEN {} ELSE Override(b) \cup {"appended"})
  BY DEF BeginIndex
<1> DEFINE c == [Idle EXCEPT !.cmd = "index", !.backend = b, !.pc = "export",
                             !.mode = IF clear THEN "rebuild" ELSE "append"]
           marks == Switch(b) \cup IF clear THEN {} ELSE Override(b) \cup {"appended"}
<1>1. Launch(p, c, marks)
  OBVIOUS
<1>2. None \notin Nat /\ None \notin Backends
  BY SyncAssumption
<1>3. /\ c \in Commands /\ c.stamp = None /\ c.backend = b /\ c.pc = "export" /\ c.cmd = "index"
      /\ c.mode = IF clear THEN "rebuild" ELSE "append"
  BY IdleCommand DEF Commands, Labels
<1>4. marks \in SUBSET {"override", "switched", "appended"}
  BY DEF Switch, Override
<1>5. b \notin {None, Recorded} => "override" \in marks \/ clear
  BY DEF Override
<1>6. b = "codeindex" => meta.fp = None \/ "switched" \in marks
  BY DEF Switch
<1>7. ~clear => "appended" \in marks
  OBVIOUS
<1> HIDE DEF c, marks
<1>8. Formed(c)
  BY <1>2, <1>3 DEF Formed, Exporting, Backends
<1>9. c.mode = "append" => "appended" \in marks
  BY <1>3, <1>7
<1>10. c.backend \notin {None, Recorded} =>
           "override" \in marks \/ (c.cmd = "index" /\ c.mode = "rebuild")
  BY <1>3, <1>5
<1> QED
  BY <1>1, <1>3, <1>4, <1>6, <1>8, <1>9, <1>10, LaunchMarks

\* and so does `update`,
LEMMA UpdateStarts ==
    ASSUME TypeInv, NEW p \in Procs, BeginUpdate(p)
    PROVE  \E c \in Commands : Launched(p, c)
<1> PICK b \in Backends \cup {None} : Launch(p, UpdateOf(b, FALSE), Switch(b) \cup Override(b))
  BY DEF BeginUpdate
<1> DEFINE marks == Switch(b) \cup Override(b)
           c == UpdateOf(b, FALSE)
<1>1. Launch(p, c, marks)
  OBVIOUS
<1>2. /\ c \in Commands /\ Formed(c) /\ c.pc \in {"route", "gate", "export"}
      /\ c.stamp = None /\ c.backend = b /\ c.mode = "incremental"
      /\ b = "codeindex" => c.pc = "gate"
  BY UpdateCommand
<1>3. marks \in SUBSET {"override", "switched", "appended"}
  BY DEF Switch, Override
<1>4. b \notin {None, Recorded} => "override" \in marks
  BY DEF Override
<1>5. b = "codeindex" => meta.fp = None \/ "switched" \in marks
  BY DEF Switch
<1> HIDE DEF c, marks
<1> QED
  BY <1>1, <1>2, <1>3, <1>4, <1>5, LaunchMarks

\* and the update of a git hook,
LEMMA HookStarts ==
    ASSUME TypeInv, NEW p \in Procs, NEW front \in BOOLEAN, Launch(p, UpdateOf(None, front), {})
    PROVE  \E c \in Commands : Launched(p, c) /\ c.pc = "route"
<1> DEFINE c == UpdateOf(None, front)
           marks == {}
<1>1. Launch(p, c, marks)
  OBVIOUS
<1>2. /\ c \in Commands /\ Formed(c) /\ c.pc \in {"route", "gate", "export"}
      /\ c.stamp = None /\ c.backend = None /\ c.mode = "incremental"
      /\ c.pc = "route"
  BY UpdateCommand
<1>3. None # "codeindex"
  BY SyncAssumption DEF Backends
<1>4. marks \in SUBSET {"override", "switched", "appended"}
  OBVIOUS
<1> HIDE DEF c, marks
<1> QED
  BY <1>1, <1>2, <1>3, <1>4, LaunchMarks

\* and `refresh`.
LEMMA RefreshStarts ==
    ASSUME TypeInv, NEW p \in Procs, BeginRefresh(p)
    PROVE  \E c \in Commands : Launched(p, c)
<1>1. None \notin Nat /\ None \notin Backends
  BY SyncAssumption
<1>2. Recorded \in Backends
  BY <1>1 DEF Recorded, TypeInv, Backends
<1> DEFINE none == {}
<1>3. none \in SUBSET {"override", "switched", "appended"}
  OBVIOUS
<1> HIDE DEF none
<1>4. ASSUME Launch(p, [Idle EXCEPT !.cmd = "refresh", !.backend = Recorded, !.mode = "rebuild",
                                  !.pc = "export"], none)
      PROVE  \E c \in Commands : Launched(p, c)
  <2> DEFINE c == [Idle EXCEPT !.cmd = "refresh", !.backend = Recorded, !.mode = "rebuild",
                               !.pc = "export"]
  <2>1. Launch(p, c, none)
    BY <1>4
  <2>2. /\ c \in Commands /\ c.stamp = None /\ c.backend = Recorded /\ c.pc = "export"
        /\ c.cmd = "refresh" /\ c.mode = "rebuild"
    BY <1>2, IdleCommand DEF Commands, Labels
  <2> HIDE DEF c
  <2>3. Formed(c)
    BY <1>1, <1>2, <2>2 DEF Formed, Exporting, Backends
  <2> QED
    BY <1>3, <2>1, <2>2, <2>3, LaunchMarks
<1>5. ASSUME Recorded = "codeindex",
             Launch(p, [Idle EXCEPT !.cmd = "refresh", !.backend = Recorded, !.mode = "incremental",
                                  !.pc = "export", !.changed = Changed(head, work)], none)
      PROVE  \E c \in Commands : Launched(p, c)
  <2> DEFINE c == [Idle EXCEPT !.cmd = "refresh", !.backend = Recorded, !.mode = "incremental",
                               !.pc = "export", !.changed = Changed(head, work)]
  <2>1. Launch(p, c, none)
    BY <1>5
  <2>2. /\ c \in Commands /\ c.stamp = None /\ c.backend = Recorded /\ c.pc = "export"
        /\ c.cmd = "refresh" /\ c.mode = "incremental"
    BY <1>2, IdleCommand DEF Commands, Labels, Changed
  <2> HIDE DEF c
  <2>3. Formed(c)
    BY <1>1, <1>2, <1>5, <2>2 DEF Formed, Exporting, Backends
  <2> QED
    BY <1>3, <2>1, <2>2, <2>3, LaunchMarks
<1> QED
  BY <1>4, <1>5 DEF BeginRefresh, RefreshBackend, none

-----------------------------------------------------------------------------
(* Commands that go on.                                                    *)

\* the command of p becomes c
Moves(p, c) == c \in Commands /\ Formed(c) /\ run' = [run EXCEPT ![p] = c]

\* c is the command of p, elsewhere in its text
Same(p, c) ==
    /\ c.cmd = run[p].cmd /\ c.backend = run[p].backend
    /\ c.tree = run[p].tree /\ c.stamp = run[p].stamp

\* A command that ends leaves its place free.
LEMMA EndMoves == ASSUME NEW p \in Procs, End(p) PROVE Moves(p, Idle)
BY IdleCommand DEF End, Moves

\* `update` goes on with the recorded backend.
LEMMA RouteMoves ==
    ASSUME TypeInv, NEW p \in Procs, Route(p)
    PROVE  \E c \in Commands :
              /\ Moves(p, c) /\ c.pc \in {"gate", "export"} /\ c.backend = Recorded
              /\ c.cmd = "update" /\ c.mode = "incremental" /\ c.stamp = run[p].stamp
              /\ c.tree = run[p].tree
<1> DEFINE next == UpdatePc(Routed)
           c == [run[p] EXCEPT !.backend = Routed, !.pc = next]
<1>1. run[p] \in Commands /\ Formed(run[p]) /\ run[p].pc = "route"
  BY DEF TypeInv, Route, At
<1>2. Routed = Recorded /\ Recorded \in Backends
  BY SyncAssumption DEF Routed, Recorded, TypeInv, Backends
<1>3. next \in {"gate", "export"} /\ (next = "gate" => Routed = "codeindex")
  BY <1>2 DEF UpdatePc, Backends
<1>4. run' = [run EXCEPT ![p] = c]
  BY DEF Route, TypeInv
<1> HIDE DEF next
<1>5. /\ c \in Commands /\ c.pc = next /\ c.backend = Routed /\ c.cmd = run[p].cmd
      /\ c.mode = run[p].mode /\ c.stamp = run[p].stamp /\ c.tree = run[p].tree
  BY <1>1, <1>2, <1>3 DEF Commands, Labels
<1> HIDE DEF c
<1>6. c.cmd = "update" /\ c.mode = "incremental"
  BY <1>1, <1>5 DEF Formed
<1>7. Formed(c)
  BY <1>2, <1>3, <1>5, <1>6 DEF Formed, Exporting
<1> QED
  BY <1>2, <1>3, <1>4, <1>5, <1>6, <1>7 DEF Moves

\* The delta gate ends the update or chooses between increment and rebuild.
LEMMA GateMoves ==
    ASSUME TypeInv, NEW p \in Procs, Gate(p)
    PROVE  \/ End(p)
           \/ \E c \in Commands : /\ Moves(p, c) /\ Same(p, c) /\ c.pc = "export"
                                  /\ c.mode \in {"incremental", "rebuild"}
<1> DEFINE m == GateMode(Changed(base, work))
           c == [run[p] EXCEPT !.mode = m, !.pc = "export"]
<1>1. run[p] \in Commands /\ Formed(run[p]) /\ run[p].pc = "gate"
  BY DEF TypeInv, Gate, At
<1>2. m \in {"skip", "incremental", "rebuild"}
  BY DEF GateMode
<1>3. (m = "skip" /\ End(p)) \/ (m # "skip" /\ run' = [run EXCEPT ![p] = c])
  BY DEF Gate, TypeInv
<1> HIDE DEF m
<1> SUFFICES ASSUME m # "skip", run' = [run EXCEPT ![p] = c] PROVE Moves(p, c) /\ Same(p, c)
                    /\ c \in Commands /\ c.pc = "export" /\ c.mode \in {"incremental", "rebuild"}
  BY <1>3
<1>5. /\ c \in Commands /\ c.pc = "export" /\ c.mode = m /\ c.cmd = run[p].cmd
      /\ c.backend = run[p].backend /\ c.stamp = run[p].stamp /\ c.tree = run[p].tree
  BY <1>1, <1>2 DEF Commands, Labels
<1>6. c.mode \in {"incremental", "rebuild"}
  BY <1>2, <1>5
<1> HIDE DEF c
<1>7. Formed(c)
  BY <1>1, <1>5, <1>6 DEF Formed, Exporting, Backends
<1> QED
  BY <1>5, <1>6, <1>7 DEF Moves, Same

\* where an export is followed by what, and what has been exported
LEMMA ExportMoves ==
    ASSUME TypeInv, NEW p \in Procs, Exported(p)
    PROVE  \E c \in Commands :
              /\ Moves(p, c) /\ c.cmd = run[p].cmd /\ c.backend = run[p].backend
              /\ c.mode = run[p].mode
              /\ c.pc \in {"peek", "clear", "look", "gc", "insert"}
              /\ c.pc = "insert" => c.mode = "append"
              /\ c.backend = "codegraph" => c.tree = cg.tree /\ c.stamp = cg.stamp
              /\ c.backend # "codegraph" => c.stamp = None
<1> DEFINE b == run[p].backend
           next == IF b = "codegraph" /\ run[p].cmd = "update" THEN "peek"
                   ELSE IF run[p].mode = "rebuild" THEN "clear"
                   ELSE IF run[p].mode = "append" THEN "insert"
                   ELSE IF run[p].cmd = "update" THEN "look" ELSE "gc"
           tree == IF b = "codegraph" THEN cg.tree ELSE work
           stamp == IF b = "codegraph" THEN cg.stamp ELSE None
           c == [run[p] EXCEPT !.tree = tree, !.stamp = stamp, !.pc = next]
<1>1. run[p] \in Commands /\ Formed(run[p]) /\ run[p].pc = "export"
  BY DEF TypeInv, Exported, At
<1>2. b \in Backends /\ run[p].mode \in {"rebuild", "append", "incremental"}
  BY <1>1 DEF Formed
<1>3. /\ next \in {"peek", "clear", "look", "gc", "insert"}
      /\ next = "insert" => run[p].mode = "append"
      /\ next = "clear" => run[p].mode = "rebuild"
      /\ next = "peek" => b = "codegraph" /\ run[p].cmd = "update" /\ run[p].mode = "incremental"
      /\ next \in {"look", "gc"} => b = "codeindex" /\ run[p].mode = "incremental"
      /\ next = "look" => run[p].cmd = "update"
  BY <1>1, <1>2 DEF Formed, Backends
<1>4. /\ tree \in Tree /\ stamp \in Nat \cup {None}
      /\ b = "codegraph" => tree = cg.tree /\ stamp = cg.stamp /\ stamp \in Nat
      /\ b # "codegraph" => stamp = None
  BY DEF TypeInv
<1>5. run' = [run EXCEPT ![p] = c]
  BY DEF Exported, TypeInv
<1> HIDE DEF next, tree, stamp
<1>6. /\ c \in Commands /\ c.pc = next /\ c.tree = tree /\ c.stamp = stamp
      /\ c.mode = run[p].mode /\ c.cmd = run[p].cmd /\ c.backend = b
  BY <1>1, <1>3, <1>4 DEF Commands, Labels
<1> HIDE DEF c
<1>7. Formed(c)
  BY <1>1, <1>2, <1>3, <1>4, <1>6 DEF Formed, Exporting, Backends
<1> QED
  BY <1>3, <1>4, <1>5, <1>6, <1>7 DEF Moves

\* The incremental update sees the changed files of one moment.
LEMMA LookMoves ==
    ASSUME TypeInv, NEW p \in Procs, Look(p)
    PROVE  \E c \in Commands : /\ Moves(p, c) /\ Same(p, c) /\ c.mode = run[p].mode
                               /\ c.pc = "gc" /\ c.changed = Changed(base, work)
<1> DEFINE d == Changed(base, work)
           c == [run[p] EXCEPT !.changed = d, !.pc = "gc"]
<1>1. run[p] \in Commands /\ Formed(run[p]) /\ run[p].pc = "look" /\ d \in SUBSET Files
  BY DEF TypeInv, Look, At, Changed
<1>2. run' = [run EXCEPT ![p] = c]
  BY DEF Look, TypeInv
<1> HIDE DEF d
<1>3. /\ c \in Commands /\ c.pc = "gc" /\ c.changed = d /\ c.mode = run[p].mode
      /\ c.cmd = run[p].cmd /\ c.backend = run[p].backend /\ c.stamp = run[p].stamp
      /\ c.tree = run[p].tree
  BY <1>1 DEF Commands, Labels
<1> HIDE DEF c
<1>4. Formed(c)
  BY <1>1, <1>3 DEF Formed, Exporting
<1> QED
  BY <1>2, <1>3, <1>4 DEF Moves, Same, d

\* A codegraph update ends at the recorded fingerprint, or becomes a rebuild.
LEMMA PeekMoves ==
    ASSUME TypeInv, NEW p \in Procs, Peek(p)
    PROVE  \/ Unchanged(p) /\ End(p)
           \/ \E c \in Commands : /\ Moves(p, c) /\ Same(p, c) /\ c.pc = "clear"
                                  /\ c.mode = "rebuild"
<1> DEFINE c == [run[p] EXCEPT !.mode = "rebuild", !.pc = "clear"]
<1>1. run[p] \in Commands /\ Formed(run[p]) /\ run[p].pc = "peek"
  BY DEF TypeInv, Peek, At
<1>2. (Unchanged(p) /\ End(p)) \/ run' = [run EXCEPT ![p] = c]
  BY DEF Peek, TypeInv
<1>3. /\ c \in Commands /\ c.pc = "clear" /\ c.mode = "rebuild" /\ c.cmd = run[p].cmd
      /\ c.backend = run[p].backend /\ c.stamp = run[p].stamp /\ c.tree = run[p].tree
  BY <1>1 DEF Commands, Labels
<1> HIDE DEF c
<1>4. Formed(c)
  BY <1>1, <1>3 DEF Formed, Exporting
<1> QED
  BY <1>2, <1>3, <1>4 DEF Moves, Same

\* a command at one of the labels with no more to it than the next label
LEMMA PcMoves ==
    ASSUME TypeInv, NEW p \in Procs, NEW l \in {"insert", "backend", "fp"},
           run[p].pc \in {"clear", "gc", "insert", "backend"}, l = "fp" => run[p].backend = "codegraph",
           run[p].mode = "incremental" => run[p].backend = "codeindex",
           run' = [run EXCEPT ![p].pc = l]
    PROVE  \E c \in Commands : /\ Moves(p, c) /\ Same(p, c) /\ c.mode = run[p].mode
                               /\ c.pc = l
<1> DEFINE c == [run[p] EXCEPT !.pc = l]
<1>1. run[p] \in Commands /\ Formed(run[p])
  BY DEF TypeInv
<1>2. run' = [run EXCEPT ![p] = c]
  BY DEF TypeInv
<1>3. /\ c \in Commands /\ c.pc = l /\ c.mode = run[p].mode /\ c.cmd = run[p].cmd
      /\ c.backend = run[p].backend /\ c.stamp = run[p].stamp /\ c.tree = run[p].tree
  BY <1>1 DEF Commands, Labels
<1> HIDE DEF c
<1>4. Formed(c)
  BY <1>1, <1>3 DEF Formed, Exporting, Backends
<1> QED
  BY <1>2, <1>3, <1>4 DEF Moves, Same

-----------------------------------------------------------------------------
(* What a step of the developer is to the commands and the store.          *)

DeveloperStep ==
    /\ UNCHANGED <<rows, meta>>
    /\ \/ /\ run' = run
          /\ taint \subseteq taint' /\ taint' \subseteq taint \cup {"discarded", "skipped"}
          /\ cg' = cg \/ cg' = [tree |-> work, stamp |-> cg.stamp + 1]
       \/ cg' = cg /\ \E p \in Procs : \E c \in Commands : Launched(p, c)

\* What the developer does leaves store and commands alone.
LEMMA DeveloperSteps == ASSUME TypeInv, Developer PROVE DeveloperStep
<1>1. CASE Edit
  BY <1>1 DEF Edit, DeveloperStep, store
<1>2. CASE Checkout
  BY <1>2 DEF Checkout, DeveloperStep, store
<1>3. CASE SyncCodegraph
  BY <1>3 DEF SyncCodegraph, DeveloperStep, store
<1>4. CASE MergeCommit
  BY <1>4 DEF MergeCommit, DeveloperStep, store
<1>5. CASE Commit
  <2>1. UNCHANGED <<rows, meta, cg>>
    BY <1>5 DEF Commit, store
  <2> PICK C \in (SUBSET Changed(head, work)) \ {{}}, mode \in HookModes :
          LET m == RunMode(mode, Cardinality(C))
          IN  \/ /\ m = "none"
                 /\ taint' = taint \cup {t \in {"skipped"} : mode = "disabled"}
                 /\ UNCHANGED run
              \/ /\ m # "none"
                 /\ \E p \in Procs : Launch(p, UpdateOf(None, m = "sync"), {})
    BY <1>5 DEF Commit
  <2>2. ASSUME NEW p \in Procs,
               Launch(p, UpdateOf(None, RunMode(mode, Cardinality(C)) = "sync"), {})
        PROVE  \E c \in Commands : Launched(p, c)
    BY <2>2, HookStarts
  <2> QED
    BY <2>1, <2>2 DEF DeveloperStep
<1>6. CASE Command
  <2>1. UNCHANGED <<rows, meta, cg>>
    BY <1>6 DEF Command, store, repo
  <2>2. \E p \in Procs : \E c \in Commands : Launched(p, c)
    BY <1>6, IndexStarts, UpdateStarts, RefreshStarts DEF Command
  <2> QED
    BY <2>1, <2>2 DEF DeveloperStep
<1> QED
  BY <1>1, <1>2, <1>3, <1>4, <1>5, <1>6 DEF Developer

-----------------------------------------------------------------------------
(* Types are kept.                                                         *)

\* A command that moves keeps the types,
LEMMA RunType ==
    ASSUME TypeInv, NEW p \in Procs, NEW c, Moves(p, c)
    PROVE  run' \in [Procs -> Commands] /\ \A q \in Procs : Formed(run'[q])
BY DEF TypeInv, Moves

\* every step of a command, or its end, moves it
LEMMA StepMoves ==
    ASSUME TypeInv, NEW p \in Procs, Step(p) \/ Die(p)
    PROVE  \E c \in Commands : Moves(p, c)
<1>1. End(p) => \E c \in Commands : Moves(p, c)
  BY EndMoves, IdleCommand
<1>2. TypeInv /\ Formed(run[p]) /\ run[p] \in Commands
  BY DEF TypeInv
<1>3. CASE Clear(p)
  <2>1. run' = [run EXCEPT ![p].pc = "insert"] /\ run[p].pc = "clear"
    BY <1>3 DEF Clear, At
  <2> QED
    BY <1>2, <2>1, PcMoves DEF Formed
<1>4. CASE Gc(p)
  <2>1. run' = [run EXCEPT ![p].pc = "insert"] /\ run[p].pc = "gc"
    BY <1>4 DEF Gc, At
  <2> QED
    BY <1>2, <2>1, PcMoves DEF Formed
<1>5. CASE Insert(p)
  <2>1. run[p].pc = "insert" /\ (End(p) \/ run' = [run EXCEPT ![p].pc = "backend"])
    BY <1>5 DEF Insert, At
  <2>2. run[p].pc = "insert" /\ run[p].mode = "incremental" => run[p].backend = "codeindex"
    BY <1>2 DEF Formed, Backends
  <2> QED
    BY <1>1, <2>1, <2>2, PcMoves
<1>6. CASE RecordBackend(p)
  <2>1. End(p) \/ (/\ run' = [run EXCEPT ![p].pc = "fp"] /\ run[p].pc = "backend"
                   /\ run[p].backend = "codegraph")
    BY <1>6 DEF RecordBackend, At
  <2>2. run[p].pc = "backend" /\ run[p].mode = "incremental" => run[p].backend = "codeindex"
    BY <1>2 DEF Formed, Backends
  <2> QED
    BY <1>1, <2>1, <2>2, PcMoves
<1>7. CASE RecordFp(p) \/ Die(p)
  BY <1>1, <1>7 DEF RecordFp, Die
<1> QED
  BY <1>1, <1>3, <1>4, <1>5, <1>6, <1>7, RouteMoves, GateMoves, ExportMoves, LookMoves, PeekMoves
     DEF Step

\* and so do the exports it inserts.
LEMMA RowsType ==
    /\ NoRows \in [Sources -> Version \cup {None}]
    /\ \A b \in Backends, t \in Tree : Export(b, t) \in [Sources -> Version \cup {None}]
BY DEF NoRows, Export, Row, Tree, Files, Version

\* The types are an invariant.
LEMMA TypeStep == ASSUME TypeInv, [Next]_vars PROVE TypeInv'
<1>1. CASE UNCHANGED vars
  BY <1>1 DEF vars, repo, store, TypeInv, Recorded
<1>2. ASSUME Developer PROVE TypeInv'
  <2>1. UNCHANGED <<rows, meta>> /\ run' \in [Procs -> Commands]
        /\ (\A p \in Procs : Formed(run'[p])) /\ taint' \subseteq Marks
    <3>1. DeveloperStep
      BY <1>2, DeveloperSteps
    <3>2. CASE run' = run /\ taint' \subseteq taint \cup {"discarded", "skipped"}
      BY <3>1, <3>2 DEF DeveloperStep, TypeInv, Marks
    <3>3. CASE \E p \in Procs : \E c \in Commands : Launched(p, c)
      BY <3>1, <3>3 DEF DeveloperStep, TypeInv, Launched
    <3> QED
      BY <3>1, <3>2, <3>3 DEF DeveloperStep
  <2>2. /\ base' \in Tree /\ head' \in Tree /\ work' \in Tree
        /\ edits' \in Nat /\ cg' \in [tree : Tree, stamp : Nat]
    <3>1. CASE Edit
      BY <3>1 DEF Edit, TypeInv, Tree
    <3>2. CASE Checkout
      BY <3>2 DEF Checkout, TypeInv, Tree, Changed
    <3>3. CASE SyncCodegraph
      BY <3>3 DEF SyncCodegraph, TypeInv
    <3>4. CASE MergeCommit
      BY <3>4 DEF MergeCommit, Advance, TypeInv, Tree
    <3>5. CASE Commit
      BY <3>5 DEF Commit, Advance, TypeInv, Tree
    <3>6. CASE Command
      BY <3>6 DEF Command, TypeInv, repo
    <3> QED
      BY <1>2, <3>1, <3>2, <3>3, <3>4, <3>5, <3>6 DEF Developer
  <2>3. events' \in Nat
    BY <1>2 DEF Developer, Edit, Checkout, SyncCodegraph, MergeCommit, Commit, Command, Advance,
                Event, Beside, TypeInv
  <2> QED
    BY <2>1, <2>2, <2>3 DEF TypeInv
<1>3. ASSUME NEW p \in Procs, Step(p) \/ Die(p) PROVE TypeInv'
  <2>1. run' \in [Procs -> Commands] /\ \A q \in Procs : Formed(run'[q])
    BY <1>3, StepMoves, RunType
  <2>2. UNCHANGED <<base, head, work, cg, edits>>
    BY <1>3 DEF Step, Die, Route, Gate, Exported, Look, Peek, Clear, Gc, Insert, RecordBackend,
                RecordFp, repo
  <2>3. events' \in Nat
    BY <1>3 DEF Step, Die, Route, Gate, Exported, Look, Peek, Clear, Gc, Insert, RecordBackend,
                RecordFp, Event, TypeInv
  <2>4. taint' \subseteq Marks
    BY <1>3 DEF Step, Die, Route, Gate, Exported, Look, Peek, Clear, Gc, Insert, RecordBackend,
                RecordFp, TypeInv, Marks, Contention
  <2>5. rows' \in [Backends -> [Sources -> Version \cup {None}]]
    <3>1. CASE Clear(p)
      BY <3>1, RowsType DEF Clear
    <3>2. CASE Gc(p)
      BY <3>2 DEF Gc, TypeInv
    <3>3. CASE Insert(p)
      <4>1. run[p].backend \in Backends /\ run[p].tree \in Tree
        BY <3>3 DEF TypeInv, Formed, Insert, At, Exporting
      <4>2. \A f \in Sources : Row(run[p].backend, run[p].tree, f) \in Version
        BY <4>1 DEF Row, Tree, Files, Version
      <4> QED
        BY <3>3, <4>1, <4>2 DEF Insert, TypeInv
    <3>4. CASE ~(Clear(p) \/ Gc(p) \/ Insert(p))
      BY <1>3, <3>4 DEF Step, Die, Route, Gate, Exported, Look, Peek, RecordBackend, RecordFp,
                        store, TypeInv
    <3> QED
      BY <3>1, <3>2, <3>3, <3>4
  <2>6. meta' \in [backend : Backends \cup {None}, fp : Nat \cup {None}]
    <3>1. CASE RecordBackend(p)
      BY <3>1 DEF RecordBackend, At, TypeInv, Formed
    <3>2. CASE RecordFp(p)
      BY <3>2 DEF RecordFp, At, TypeInv, Formed, Exporting
    <3>3. CASE ~(RecordBackend(p) \/ RecordFp(p))
      BY <1>3, <3>3 DEF Step, Die, Route, Gate, Exported, Look, Peek, Clear, Gc, Insert,
                        store, TypeInv
    <3> QED
      BY <3>1, <3>2, <3>3
  <2> QED
    BY <2>1, <2>2, <2>3, <2>4, <2>5, <2>6 DEF TypeInv
<1> QED
  BY <1>1, <1>2, <1>3 DEF Next

-----------------------------------------------------------------------------
(* The steps of a command, by what they do to the store.                   *)

RouteTo(p, c) ==
    /\ At(p, "route") /\ UNCHANGED <<rows, meta>>
    /\ taint' = taint \cup Contention(p, Recorded)
    /\ c.pc \in {"gate", "export"} /\ c.backend = Recorded
    /\ c.cmd = "update" /\ c.mode = "incremental"
    /\ c.stamp = run[p].stamp /\ c.tree = run[p].tree

\* gate, second look at git, comparison of fingerprints
QuietTo(p, c) ==
    /\ run[p].pc \in {"gate", "look", "peek"} /\ UNCHANGED <<rows, meta, taint>>
    /\ \/ c = Idle
       \/ /\ Same(p, c) /\ c.pc \in {"export", "gc", "clear"}
          /\ c.mode \in {run[p].mode, "rebuild"}

ExportTo(p, c) ==
    /\ At(p, "export") /\ UNCHANGED <<rows, meta, taint>>
    /\ c.cmd = run[p].cmd /\ c.backend = run[p].backend /\ c.mode = run[p].mode
    /\ c.pc \in {"peek", "clear", "look", "gc", "insert"}
    /\ c.pc = "insert" => c.mode = "append"
    /\ c.backend = "codegraph" => c.tree = cg.tree /\ c.stamp = cg.stamp
    /\ c.backend # "codegraph" => c.stamp = None

ClearTo(p, c) ==
    /\ At(p, "clear") /\ UNCHANGED <<meta, taint>>
    /\ rows' = [b \in Backends |-> NoRows]
    /\ Same(p, c) /\ c.mode = run[p].mode /\ c.pc = "insert"

GcTo(p, c) ==
    /\ At(p, "gc") /\ UNCHANGED <<meta, taint>>
    /\ \A b \in Backends : rows[b] = NoRows => rows'[b] = NoRows
    /\ rows'["codeindex"] = rows["codeindex"]
    /\ Same(p, c) /\ c.mode = run[p].mode /\ c.pc = "insert"

InsertTo(p, c) ==
    /\ At(p, "insert") /\ UNCHANGED <<meta, taint>>
    /\ \A b \in Backends \ {run[p].backend} : rows'[b] = rows[b]
    /\ Covered(p) = Files => rows'[run[p].backend] = Export(run[p].backend, run[p].tree)
    /\ \/ Records(p) /\ Same(p, c) /\ c.mode = run[p].mode /\ c.pc = "backend"
       \/ ~Records(p) /\ c = Idle

RecordTo(p, c) ==
    /\ At(p, "backend") /\ UNCHANGED <<rows, taint>>
    /\ meta'.backend = run[p].backend /\ meta'.fp = meta.fp
    /\ \/ /\ run[p].backend = "codegraph"
          /\ Same(p, c) /\ c.mode = run[p].mode /\ c.pc = "fp"
       \/ c = Idle

FpTo(p, c) ==
    /\ At(p, "fp") /\ UNCHANGED rows /\ c = Idle
    /\ meta'.backend = meta.backend /\ meta'.fp = run[p].stamp
    /\ taint' = taint \ {t \in {"halfway", "switched", "override", "unrecorded", "appended"} :
                            run[p].mode = "rebuild" /\ "raced" \notin taint}

DieTo(p, c) ==
    /\ Busy(p) /\ UNCHANGED <<rows, meta>> /\ c = Idle
    /\ taint' = taint \cup {"died"}
                \cup {t \in {"halfway"} : At(p, "insert") /\ run[p].mode = "rebuild"}
                \cup {t \in {"unrecorded"} : At(p, "backend") /\ run[p].backend # Recorded}

StepTo(p, c) ==
    /\ Moves(p, c) /\ cg' = cg
    /\ \/ RouteTo(p, c) \/ QuietTo(p, c) \/ ExportTo(p, c) \/ ClearTo(p, c) \/ GcTo(p, c)
       \/ InsertTo(p, c) \/ RecordTo(p, c) \/ FpTo(p, c) \/ DieTo(p, c)

\* Every step of a command, and its death, is one of the described ones.
LEMMA Steps ==
    ASSUME TypeInv, NEW p \in Procs, Step(p) \/ Die(p)
    PROVE  \E c \in Commands : StepTo(p, c)
<1>0. run[p] \in Commands /\ Formed(run[p]) /\ run[p].backend \in Backends \cup {None}
  BY DEF TypeInv, Commands
<1>1. cg' = cg
  BY DEF Step, Die, Route, Gate, Exported, Look, Peek, Clear, Gc, Insert, RecordBackend,
         RecordFp, repo
<1>2. End(p) => Moves(p, Idle) /\ Idle \in Commands
  BY EndMoves, IdleCommand
<1>3. CASE Route(p)
  <2>1. /\ At(p, "route") /\ UNCHANGED <<rows, meta>>
        /\ taint' = taint \cup Contention(p, Recorded)
    BY <1>3 DEF Route, store, Routed
  <2> QED
    BY <1>1, <1>3, <2>1, RouteMoves DEF StepTo, RouteTo
<1>4. CASE Gate(p)
  <2>1. run[p].pc = "gate" /\ UNCHANGED <<rows, meta, taint>>
    BY <1>4 DEF Gate, At, store
  <2>2. run[p].mode = "incremental"
    BY <1>0, <2>1 DEF Formed
  <2> QED
    BY <1>1, <1>2, <1>4, <2>1, <2>2, GateMoves DEF StepTo, QuietTo
<1>5. CASE Exported(p)
  <2>1. At(p, "export") /\ UNCHANGED <<rows, meta, taint>>
    BY <1>5 DEF Exported, store
  <2> QED
    BY <1>1, <1>5, <2>1, ExportMoves DEF StepTo, ExportTo
<1>6. CASE Look(p)
  <2>1. run[p].pc = "look" /\ UNCHANGED <<rows, meta, taint>>
    BY <1>6 DEF Look, At, store
  <2> QED
    BY <1>1, <1>6, <2>1, LookMoves DEF StepTo, QuietTo
<1>7. CASE Peek(p)
  <2>1. run[p].pc = "peek" /\ UNCHANGED <<rows, meta, taint>>
    BY <1>7 DEF Peek, At, store
  <2> QED
    BY <1>1, <1>2, <1>7, <2>1, PeekMoves DEF StepTo, QuietTo
<1>8. CASE Clear(p)
  <2>1. /\ run[p].pc = "clear" /\ UNCHANGED <<meta, taint>> /\ rows' = [b \in Backends |-> NoRows]
        /\ run' = [run EXCEPT ![p].pc = "insert"]
    BY <1>8 DEF Clear, At
  <2>2. \E c \in Commands : /\ Moves(p, c) /\ Same(p, c) /\ c.mode = run[p].mode /\ c.pc = "insert"
    BY <1>0, <2>1, PcMoves DEF Formed
  <2> QED
    BY <1>1, <2>1, <2>2 DEF StepTo, ClearTo, At
<1>9. CASE Gc(p)
  <2>1. /\ run[p].pc = "gc" /\ UNCHANGED <<meta, taint>>
        /\ run' = [run EXCEPT ![p].pc = "insert"]
    BY <1>9 DEF Gc, At
  <2>2. \E c \in Commands : /\ Moves(p, c) /\ Same(p, c) /\ c.mode = run[p].mode /\ c.pc = "insert"
    BY <1>0, <2>1, PcMoves DEF Formed
  <2>3. rows' = [b \in Backends |-> [f \in Sources |->
                    IF b # "codeindex" /\ f \in run[p].changed THEN None ELSE rows[b][f]]]
    BY <1>9 DEF Gc
  <2>4. \A b \in Backends : rows[b] = NoRows => rows'[b] = NoRows
    BY <2>3 DEF NoRows
  <2>5. rows'["codeindex"] = rows["codeindex"]
    BY <2>3 DEF TypeInv, Backends
  <2> QED
    BY <1>1, <2>1, <2>2, <2>4, <2>5 DEF StepTo, GcTo, At
<1>10. CASE Insert(p)
  <2>1. /\ run[p].pc = "insert" /\ UNCHANGED <<meta, taint>>
        /\ \/ Records(p) /\ run' = [run EXCEPT ![p].pc = "backend"]
           \/ ~Records(p) /\ End(p)
    BY <1>10 DEF Insert, At
  <2>2. run[p].mode = "incremental" => run[p].backend = "codeindex"
    BY <1>0, <2>1 DEF Formed, Backends
  <2>3. \/ /\ Records(p)
           /\ \E c \in Commands : /\ Moves(p, c) /\ Same(p, c) /\ c.mode = run[p].mode
                                  /\ c.pc = "backend"
        \/ ~Records(p) /\ Moves(p, Idle) /\ Idle \in Commands
    BY <1>2, <2>1, <2>2, PcMoves
  <2>4. run[p].backend \in Backends
    BY <1>0, <2>1 DEF Formed
  <2>5. rows' = [rows EXCEPT ![run[p].backend] = [f \in Sources |->
                    IF f \in Covered(p) THEN Row(run[p].backend, run[p].tree, f) ELSE @[f]]]
    BY <1>10 DEF Insert
  <2>6. \A b \in Backends \ {run[p].backend} : rows'[b] = rows[b]
    BY <2>5 DEF TypeInv
  <2>7. Covered(p) = Files => rows'[run[p].backend] = Export(run[p].backend, run[p].tree)
    BY <2>4, <2>5 DEF TypeInv, Export, Files
  <2> QED
    BY <1>1, <2>1, <2>3, <2>6, <2>7 DEF StepTo, InsertTo, At
<1>11. CASE RecordBackend(p)
  <2>1. /\ run[p].pc = "backend" /\ UNCHANGED <<rows, taint>>
        /\ meta' = [meta EXCEPT !.backend = run[p].backend]
        /\ \/ run[p].backend = "codegraph" /\ run' = [run EXCEPT ![p].pc = "fp"]
           \/ End(p)
    BY <1>11 DEF RecordBackend, At
  <2>2. run[p].mode = "incremental" => run[p].backend = "codeindex"
    BY <1>0, <2>1 DEF Formed, Backends
  <2>3. \/ /\ run[p].backend = "codegraph"
           /\ \E c \in Commands : /\ Moves(p, c) /\ Same(p, c) /\ c.mode = run[p].mode
                                  /\ c.pc = "fp"
        \/ Moves(p, Idle) /\ Idle \in Commands
    BY <1>2, <2>1, <2>2, PcMoves
  <2>4. meta'.backend = run[p].backend /\ meta'.fp = meta.fp
    BY <2>1 DEF TypeInv
  <2> QED
    BY <1>1, <2>1, <2>3, <2>4 DEF StepTo, RecordTo, At
<1>12. CASE RecordFp(p)
  <2>1. /\ At(p, "fp") /\ UNCHANGED rows /\ Moves(p, Idle) /\ Idle \in Commands
        /\ taint' = taint \ {t \in {"halfway", "switched", "override", "unrecorded", "appended"} :
                                run[p].mode = "rebuild" /\ "raced" \notin taint}
    BY <1>2, <1>12 DEF RecordFp
  <2>2. meta'.backend = meta.backend /\ meta'.fp = run[p].stamp
    BY <1>12 DEF RecordFp, TypeInv
  <2> QED
    BY <1>1, <2>1, <2>2 DEF StepTo, FpTo
<1>13. CASE Die(p)
  BY <1>1, <1>2, <1>13 DEF Die, StepTo, DieTo, Active, Busy, store
<1> QED
  BY <1>3, <1>4, <1>5, <1>6, <1>7, <1>8, <1>9, <1>10, <1>11, <1>12, <1>13 DEF Step

-----------------------------------------------------------------------------
(* The invariant is kept, part by part.                                    *)

\* A step of one command leaves the others alone,
LEMMA MovedOnly ==
    ASSUME TypeInv, NEW p \in Procs, NEW c, Moves(p, c)
    PROVE  run'[p] = c /\ \A q \in Procs \ {p} : run'[q] = run[q]
BY DEF TypeInv, Moves

\* and so does its start.
LEMMA LaunchedOnly ==
    ASSUME TypeInv, NEW p \in Procs, NEW c, Launched(p, c)
    PROVE  run'[p] = c /\ \A q \in Procs \ {p} : run'[q] = run[q]
BY DEF TypeInv, Launched

\* Fingerprints grow, so an equal one names the same tree.
LEMMA StampsKept == ASSUME TypeInv, Stamps, [Next]_vars PROVE Stamps'
<1>0. None \notin Nat /\ cg.stamp \in Nat /\ meta.fp \in Nat \cup {None}
      /\ \A q \in Procs : run[q].stamp \in Nat \cup {None}
  BY SyncAssumption DEF TypeInv, Commands
<1>1. CASE UNCHANGED vars
  BY <1>1 DEF vars, repo, store, Stamps
<1>2. ASSUME Developer PROVE Stamps'
  <2>1. DeveloperStep
    BY <1>2, DeveloperSteps
  <2>2. CASE run' = run /\ cg' = cg
    BY <2>1, <2>2 DEF DeveloperStep, Stamps
  <2>3. CASE run' = run /\ cg' = [tree |-> work, stamp |-> cg.stamp + 1]
    <3>1. cg'.stamp = cg.stamp + 1 /\ meta' = meta
      BY <2>1, <2>3 DEF DeveloperStep
    <3> QED
      BY <1>0, <2>3, <3>1 DEF Stamps
  <2>4. ASSUME cg' = cg, NEW p \in Procs, NEW c \in Commands, Launched(p, c) PROVE Stamps'
    <3>1. run'[p] = c /\ c.stamp = None /\ \A q \in Procs \ {p} : run'[q] = run[q]
      BY <2>4, LaunchedOnly DEF Launched
    <3> QED
      BY <2>1, <2>4, <3>1 DEF DeveloperStep, Stamps
  <2> QED
    BY <2>1, <2>2, <2>3, <2>4 DEF DeveloperStep
<1>3. ASSUME NEW p \in Procs, NEW c \in Commands, StepTo(p, c) PROVE Stamps'
  <2>1. run'[p] = c /\ \A q \in Procs \ {p} : run'[q] = run[q]
    BY <1>3, MovedOnly DEF StepTo
  <2>2. c.stamp # None => c.stamp <= cg.stamp /\ (c.stamp = cg.stamp => c.tree = cg.tree)
    <3>1. CASE c.stamp = None
      BY <3>1
    <3>2. CASE c.stamp = run[p].stamp /\ c.tree = run[p].tree
      BY <3>2 DEF Stamps
    <3>3. CASE c.stamp = cg.stamp /\ c.tree = cg.tree
      BY <1>0, <3>3
    <3> QED
      BY <1>3, <3>1, <3>2, <3>3, IdleCommand
         DEF StepTo, RouteTo, QuietTo, ExportTo, ClearTo, GcTo, InsertTo, RecordTo, FpTo, DieTo, Same
  <2>3. meta'.fp # None => meta'.fp <= cg.stamp
    <3>1. CASE FpTo(p, c)
      BY <1>0, <3>1 DEF FpTo, Stamps
    <3>2. CASE meta'.fp = meta.fp
      BY <3>2 DEF Stamps
    <3> QED
      BY <1>3, <3>1, <3>2
         DEF StepTo, RouteTo, QuietTo, ExportTo, ClearTo, GcTo, InsertTo, RecordTo, DieTo
  <2>4. cg' = cg
    BY <1>3 DEF StepTo
  <2> QED
    BY <2>1, <2>2, <2>3, <2>4 DEF Stamps
<1> QED
  BY <1>1, <1>2, <1>3, Steps DEF Next

\* Commands of two backends at once are commands at once.
LEMMA CrossingKept == ASSUME TypeInv, Crossing, [Next]_vars PROVE Crossing'
<1>1. CASE UNCHANGED vars
  BY <1>1 DEF vars, Crossing
<1>2. ASSUME Developer PROVE Crossing'
  <2>1. DeveloperStep
    BY <1>2, DeveloperSteps
  <2> QED
    BY <2>1 DEF DeveloperStep, Launched, Crossing
<1>3. ASSUME NEW p \in Procs, NEW c \in Commands, StepTo(p, c) PROVE Crossing'
  <2>1. CASE RouteTo(p, c)
    BY <2>1 DEF RouteTo, Contention, Crossing
  <2>2. CASE FpTo(p, c)
    BY <2>2 DEF FpTo, Crossing
  <2>3. CASE DieTo(p, c)
    BY <2>3 DEF DieTo, Crossing
  <2> QED
    BY <1>3, <2>1, <2>2, <2>3
       DEF StepTo, QuietTo, ExportTo, ClearTo, GcTo, InsertTo, RecordTo, Crossing
<1> QED
  BY <1>1, <1>2, <1>3, Steps DEF Next

\* "raced" stays
LEMMA RacedStays ==
    ASSUME TypeInv, [Next]_vars, "raced" \in taint PROVE "raced" \in taint'
<1>1. CASE UNCHANGED vars
  BY <1>1 DEF vars
<1>2. ASSUME Developer PROVE "raced" \in taint'
  <2>1. DeveloperStep
    BY <1>2, DeveloperSteps
  <2> QED
    BY <2>1 DEF DeveloperStep, Launched
<1>3. ASSUME NEW p \in Procs, NEW c \in Commands, StepTo(p, c) PROVE "raced" \in taint'
  BY <1>3 DEF StepTo, RouteTo, QuietTo, ExportTo, ClearTo, GcTo, InsertTo, RecordTo, FpTo, DieTo
<1> QED
  BY <1>1, <1>2, <1>3, Steps DEF Next

\* Without commands at once, a rebuild has the store to itself.
LEMMA SolitudeKept == ASSUME TypeInv, Solitude, [Next]_vars PROVE Solitude'
<1> SUFFICES ASSUME "raced" \notin taint' PROVE Solitude'
  BY DEF Solitude
<1>0. /\ "raced" \notin taint
      /\ \A p, q \in Procs : Busy(p) /\ Busy(q) => p = q
  BY RacedStays DEF Solitude
<1>1. CASE UNCHANGED vars
  BY <1>1 DEF vars, store, Solitude, Busy, At, Only, Recorded
<1>2. ASSUME Developer PROVE Solitude'
  <2>1. DeveloperStep
    BY <1>2, DeveloperSteps
  <2>2. CASE run' = run
    BY <2>1, <2>2, <1>0 DEF DeveloperStep, Solitude, Busy, At, Only, Recorded
  <2>3. ASSUME NEW p \in Procs, NEW c \in Commands, Launched(p, c) PROVE Solitude'
    <3>1. /\ run'[p] = c /\ c.pc \in {"route", "gate", "export"}
          /\ \A q \in Procs \ {p} : run'[q] = run[q] /\ ~Busy(q)
      BY <2>3, LaunchedOnly DEF Launched
    <3> QED
      BY <3>1 DEF Solitude, Busy, At
  <2> QED
    BY <2>1, <2>2, <2>3 DEF DeveloperStep
<1>3. ASSUME NEW p \in Procs, NEW c \in Commands, StepTo(p, c) PROVE Solitude'
  <2>1. run'[p] = c /\ \A q \in Procs \ {p} : run'[q] = run[q]
    BY <1>3, MovedOnly DEF StepTo
  <2>2. Busy(p) /\ run[p] \in Commands /\ Formed(run[p])
    BY <1>3 DEF StepTo, RouteTo, QuietTo, ExportTo, ClearTo, GcTo, InsertTo, RecordTo, FpTo, DieTo,
                Busy, At, TypeInv
  <2>3. \A q \in Procs \ {p} : run'[q].pc = "idle"
    BY <1>0, <2>1, <2>2 DEF Busy, At
  <2>4. SUFFICES /\ c.mode = "rebuild" /\ c.pc = "insert" => \A b \in Backends : rows'[b] = NoRows
                 /\ c.mode = "rebuild" /\ c.pc \in {"backend", "fp"} =>
                       /\ rows'[c.backend] = Export(c.backend, c.tree)
                       /\ \A b \in Backends \ {c.backend} : rows'[b] = NoRows
                 /\ c.pc = "fp" => Recorded' = "codegraph"
    BY <2>1, <2>3 DEF Solitude, Busy, At, Only
  <2>5. CASE RouteTo(p, c) \/ QuietTo(p, c) \/ ExportTo(p, c) \/ FpTo(p, c) \/ DieTo(p, c)
    <3>1. c.pc \notin {"backend", "fp"} /\ ~(c.mode = "rebuild" /\ c.pc = "insert")
      BY <2>5, IdleCommand DEF RouteTo, QuietTo, ExportTo, FpTo, DieTo
    <3> QED
      BY <3>1
  <2>6. CASE ClearTo(p, c)
    BY <2>6 DEF ClearTo
  <2>7. CASE GcTo(p, c)
    BY <2>2, <2>7 DEF GcTo, At, Formed
  <2>8. CASE InsertTo(p, c)
    <3>1. run[p].mode = "rebuild" =>
             /\ rows'[run[p].backend] = Export(run[p].backend, run[p].tree)
             /\ \A b \in Backends \ {run[p].backend} : rows'[b] = NoRows
      BY <1>0, <2>8 DEF InsertTo, Covered, Solitude
    <3> QED
      BY <2>8, <3>1, IdleCommand DEF InsertTo, Same
  <2>9. CASE RecordTo(p, c)
    <3>1. c # Idle => Recorded' = "codegraph"
      BY <2>9, SyncAssumption DEF RecordTo, Recorded, Backends
    <3> QED
      BY <1>0, <2>9, <3>1, IdleCommand DEF RecordTo, Same, Solitude, At, Only
  <2> QED
    BY <1>3, <2>5, <2>6, <2>7, <2>8, <2>9 DEF StepTo
<1> QED
  BY <1>1, <1>2, <1>3, Steps DEF Next

\* Where the store may hold other rows than those of the record, and what
\* running commands work with.
LEMMA PartitionKept ==
    ASSUME TypeInv, Crossing, Solitude, Partition, [Next]_vars PROVE Partition'
<1> DEFINE Clean == Free({"override", "unrecorded", "crossed"})
<1>0. Recorded \in Backends /\ None \notin Backends
  BY SyncAssumption DEF Recorded, TypeInv, Backends
<1>1. CASE UNCHANGED vars
  BY <1>1 DEF vars, store, Partition, Free, At, Only, Recorded, Replaces
<1>2. ASSUME Developer PROVE Partition'
  <2>1. DeveloperStep
    BY <1>2, DeveloperSteps
  <2> SUFFICES ASSUME Clean' PROVE Partition'
    BY DEF Partition
  <2>2. CASE run' = run
    BY <2>1, <2>2 DEF DeveloperStep, Launched, Partition, Free, At, Only, Recorded, Replaces
  <2>3. ASSUME NEW p \in Procs, NEW c \in Commands, Launched(p, c) PROVE Partition'
    <3>1. run'[p] = c /\ \A q \in Procs \ {p} : run'[q] = run[q]
      BY <2>3, LaunchedOnly
    <3>2. Clean /\ UNCHANGED <<rows, meta, Recorded>>
      BY <2>1, <2>3 DEF DeveloperStep, Launched, Free, Recorded
    <3>3. /\ c.backend # None => \A q \in Procs \ {p} : run[q].backend \in {c.backend, None}
          /\ c.backend \notin {None, Recorded} => c.cmd = "index" /\ c.mode = "rebuild"
          /\ c.pc \in {"route", "gate", "export"} /\ At(p, "idle")
      BY <2>3 DEF Launched, Free
    <3>4. \A q1, q2 \in Procs : run'[q1].backend # None /\ run'[q2].backend # None =>
                                    run'[q1].backend = run'[q2].backend
      BY <3>1, <3>2, <3>3 DEF Partition
    <3>5. \A q \in Procs : run'[q].backend # None /\ ~Replaces(q)' => Recorded' = run'[q].backend
      BY <3>1, <3>2, <3>3 DEF Partition, Replaces
    <3>6. \A q \in Procs : (At(q, "insert") /\ Replaces(q))' \/ At(q, "backend")'
                           => Only(run[q].backend) /\ run'[q] = run[q]
      BY <3>1, <3>2, <3>3 DEF Partition, Replaces, At
    <3>7. \A b \in Backends : rows[b] # NoRows =>
             Only(b) /\ (b = Recorded \/ \E q \in Procs : At(q, "backend")' /\ run'[q].backend = b)
      BY <3>1, <3>2, <3>3 DEF Partition, At
    <3> QED
      BY <3>2, <3>4, <3>5, <3>6, <3>7 DEF Partition, Only, At
  <2> QED
    BY <2>1, <2>2, <2>3 DEF DeveloperStep
<1>3. ASSUME NEW p \in Procs, NEW c \in Commands, StepTo(p, c) PROVE Partition'
  <2> SUFFICES ASSUME Clean' PROVE Partition'
    BY DEF Partition
  <2>1. run'[p] = c /\ \A q \in Procs \ {p} : run'[q] = run[q]
    BY <1>3, MovedOnly DEF StepTo
  <2>2. run[p] \in Commands /\ Formed(run[p]) /\ Formed(c)
    BY <1>3 DEF StepTo, Moves, TypeInv
  <2>3. c = Idle => c.backend = None /\ c.pc = "idle"
    BY IdleCommand
  <2>4. CASE ~Clean
    <3>1. FpTo(p, c) /\ run[p].mode = "rebuild" /\ "raced" \notin taint
      BY <1>3, <2>4 DEF StepTo, RouteTo, QuietTo, ExportTo, ClearTo, GcTo, InsertTo, RecordTo,
                        FpTo, DieTo, Free
    <3>2. Busy(p) /\ At(p, "fp") /\ run[p].backend = "codegraph"
      BY <2>2, <3>1 DEF FpTo, At, Busy, Formed
    <3>3. /\ \A q \in Procs \ {p} : ~Busy(q)
          /\ Only("codegraph") /\ Recorded = "codegraph"
      BY <3>1, <3>2 DEF Solitude, At
    <3>4. \A q \in Procs : run'[q].backend = None /\ run'[q].pc = "idle"
      <4>1. \A q \in Procs \ {p} : run[q].pc = "idle" /\ run[q].backend = None
        BY <3>3 DEF Busy, At, TypeInv, Formed
      <4> QED
        BY <2>1, <2>3, <3>1, <4>1 DEF FpTo
    <3>5. rows' = rows /\ Recorded' = "codegraph"
      BY <3>1, <3>3 DEF FpTo, Recorded
    <3> QED
      BY <3>3, <3>4, <3>5 DEF Partition, Only, At
  <2>5. ASSUME Clean PROVE Partition'
    <3>1. /\ \A q1, q2 \in Procs : run[q1].backend # None /\ run[q2].backend # None =>
                                       run[q1].backend = run[q2].backend
          /\ \A q \in Procs : run[q].backend # None /\ ~Replaces(q) => Recorded = run[q].backend
          /\ \A q \in Procs : (At(q, "insert") /\ Replaces(q)) \/ At(q, "backend")
                              => Only(run[q].backend)
          /\ \A b \in Backends : rows[b] # NoRows =>
                /\ Only(b)
                /\ b = Recorded \/ \E q \in Procs : At(q, "backend") /\ run[q].backend = b
      BY <2>5 DEF Partition
    <3>2. CASE RouteTo(p, c)
      <4>0. /\ \A q \in Procs \ {p} : run[q].backend \in {Recorded, None}
            /\ rows' = rows /\ Recorded' = Recorded
        <5>1. Contention(p, Recorded) \subseteq taint'
          BY <3>2 DEF RouteTo
        <5>2. \A q \in Active \ {p} : run[q].backend \in {Recorded, None}
          BY <1>0, <5>1 DEF Contention, Free
        <5>3. \A q \in Procs \ Active : run[q].backend = None
          BY DEF Active, At, TypeInv, Formed
        <5> QED
          BY <3>2, <5>2, <5>3 DEF RouteTo, Recorded
      <4>1. \A q1, q2 \in Procs : run'[q1].backend # None /\ run'[q2].backend # None =>
                                      run'[q1].backend = run'[q2].backend
        BY <1>0, <2>1, <3>1, <3>2, <4>0 DEF RouteTo
      <4>2. \A q \in Procs : run'[q].backend # None /\ ~Replaces(q)' => Recorded' = run'[q].backend
        BY <2>1, <3>1, <3>2, <4>0 DEF RouteTo, Replaces
      <4>3. \A q \in Procs : (At(q, "insert") /\ Replaces(q))' \/ At(q, "backend")' =>
               \A b \in Backends \ {run'[q].backend} : rows'[b] = NoRows
        BY <2>1, <3>1, <3>2, <4>0 DEF RouteTo, Replaces, At, Only
      <4>4. \A b \in Backends : rows'[b] # NoRows =>
               /\ \A k \in Backends \ {b} : rows'[k] = NoRows
               /\ b = Recorded' \/ \E q \in Procs : At(q, "backend")' /\ run'[q].backend = b
        BY <2>1, <3>1, <3>2, <4>0 DEF RouteTo, At, Only
      <4> QED
        BY <4>1, <4>2, <4>3, <4>4 DEF Partition, Only
    <3>3. CASE QuietTo(p, c) \/ ExportTo(p, c)
      <4>0. /\ rows' = rows /\ Recorded' = Recorded /\ ~At(p, "backend")
            /\ \/ c.backend = None /\ c.pc = "idle"
               \/ /\ c.backend = run[p].backend /\ c.pc # "backend"
                  /\ (c.cmd = "index" /\ c.mode = "rebuild") <=> Replaces(p)
                  /\ ~(c.pc = "insert" /\ c.cmd = "index" /\ c.mode = "rebuild")
        <5>1. CASE QuietTo(p, c)
          BY <2>2, <2>3, <5>1 DEF QuietTo, Same, Replaces, Recorded, At, Formed
        <5>2. CASE ExportTo(p, c)
          BY <2>2, <5>2 DEF ExportTo, Replaces, Recorded, At
        <5> QED
          BY <3>3, <5>1, <5>2
      <4>1. \A q1, q2 \in Procs : run'[q1].backend # None /\ run'[q2].backend # None =>
                                      run'[q1].backend = run'[q2].backend
        BY <2>1, <3>1, <4>0
      <4>2. \A q \in Procs : run'[q].backend # None /\ ~Replaces(q)' => Recorded' = run'[q].backend
        BY <2>1, <3>1, <4>0 DEF Replaces
      <4>3. \A q \in Procs : (At(q, "insert") /\ Replaces(q))' \/ At(q, "backend")' =>
               \A b \in Backends \ {run'[q].backend} : rows'[b] = NoRows
        BY <2>1, <3>1, <4>0 DEF Replaces, At, Only
      <4>4. \A b \in Backends : rows'[b] # NoRows =>
               /\ \A k \in Backends \ {b} : rows'[k] = NoRows
               /\ b = Recorded' \/ \E q \in Procs : At(q, "backend")' /\ run'[q].backend = b
        BY <2>1, <3>1, <4>0 DEF At, Only
      <4> QED
        BY <4>1, <4>2, <4>3, <4>4 DEF Partition, Only
    <3>4. CASE ClearTo(p, c) \/ GcTo(p, c)
      <4>0. /\ Recorded' = Recorded /\ ~At(p, "backend")
            /\ c.backend = run[p].backend /\ c.pc = "insert"
            /\ c.cmd = run[p].cmd /\ c.mode = run[p].mode
            /\ Replaces(p) => \A b \in Backends : rows'[b] = NoRows
            /\ \A b \in Backends : rows[b] = NoRows => rows'[b] = NoRows
        <5>1. CASE ClearTo(p, c)
          BY <5>1 DEF ClearTo, Same, Recorded, At
        <5>2. CASE GcTo(p, c)
          BY <2>2, <5>2 DEF GcTo, Same, Recorded, At, Replaces, Formed
        <5> QED
          BY <3>4, <5>1, <5>2
      <4>1. \A q1, q2 \in Procs : run'[q1].backend # None /\ run'[q2].backend # None =>
                                      run'[q1].backend = run'[q2].backend
        BY <2>1, <3>1, <4>0
      <4>2. \A q \in Procs : run'[q].backend # None /\ ~Replaces(q)' => Recorded' = run'[q].backend
        BY <2>1, <3>1, <4>0 DEF Replaces
      <4>3. \A q \in Procs : (At(q, "insert") /\ Replaces(q))' \/ At(q, "backend")' =>
               \A b \in Backends \ {run'[q].backend} : rows'[b] = NoRows
        BY <2>1, <3>1, <4>0 DEF Replaces, At, Only
      <4>4. \A b \in Backends : rows'[b] # NoRows =>
               /\ \A k \in Backends \ {b} : rows'[k] = NoRows
               /\ b = Recorded' \/ \E q \in Procs : At(q, "backend")' /\ run'[q].backend = b
        BY <2>1, <3>1, <4>0 DEF At, Only
      <4> QED
        BY <4>1, <4>2, <4>3, <4>4 DEF Partition, Only
    <3>5. CASE InsertTo(p, c)
      <4>0. /\ Recorded' = Recorded /\ At(p, "insert")
            /\ run[p].backend \in Backends /\ run[p].backend # None
            /\ \/ c.backend = None /\ c.pc = "idle" /\ ~Replaces(p)
               \/ /\ c.backend = run[p].backend /\ c.pc = "backend"
                  /\ c.cmd = run[p].cmd /\ c.mode = run[p].mode
        BY <1>0, <2>2, <2>3, <3>5 DEF InsertTo, Same, Recorded, At, Records, Replaces, Formed
      <4>5. \A b \in Backends \ {run[p].backend} : rows'[b] = NoRows
        <5>1. \A b \in Backends \ {run[p].backend} : rows[b] = NoRows
          <6>1. CASE Replaces(p)
            BY <3>1, <4>0, <6>1 DEF Only
          <6>2. CASE ~Replaces(p)
            BY <1>0, <3>1, <4>0, <6>2
          <6> QED
            BY <6>1, <6>2
        <5> QED
          BY <3>5, <5>1 DEF InsertTo
      <4>1. \A q1, q2 \in Procs : run'[q1].backend # None /\ run'[q2].backend # None =>
                                      run'[q1].backend = run'[q2].backend
        BY <2>1, <3>1, <4>0
      <4>2. \A q \in Procs : run'[q].backend # None /\ ~Replaces(q)' => Recorded' = run'[q].backend
        BY <2>1, <3>1, <4>0 DEF Replaces
      <4>3. \A q \in Procs : (At(q, "insert") /\ Replaces(q))' \/ At(q, "backend")' =>
               \A b \in Backends \ {run'[q].backend} : rows'[b] = NoRows
        <5>1. \A q \in Procs : run[q].pc \in {"insert", "backend"} => run[q].backend # None
          BY <1>0 DEF TypeInv, Formed
        <5>2. \A q \in Procs \ {p} : run[q].pc \in {"insert", "backend"} =>
                                        run[q].backend = run[p].backend
          BY <3>1, <4>0, <5>1
        <5> QED
          BY <2>1, <4>0, <4>5, <5>2 DEF At
      <4>4. \A b \in Backends : rows'[b] # NoRows =>
               /\ \A k \in Backends \ {b} : rows'[k] = NoRows
               /\ b = Recorded' \/ \E q \in Procs : At(q, "backend")' /\ run'[q].backend = b
        <5>1. ASSUME NEW b \in Backends, rows'[b] # NoRows
              PROVE  /\ b = run[p].backend
                     /\ b = Recorded' \/ (c.pc = "backend" /\ c.backend = b)
          <6>1. b = run[p].backend
            BY <4>5, <5>1
          <6>2. ~Replaces(p) => b = Recorded'
            BY <3>1, <4>0, <6>1
          <6> QED
            BY <4>0, <6>1, <6>2
        <5>2. c.pc = "backend" => At(p, "backend")' /\ run'[p].backend = c.backend
          BY <2>1 DEF At
        <5> QED
          BY <4>5, <5>1, <5>2
      <4> QED
        BY <4>1, <4>2, <4>3, <4>4 DEF Partition, Only
    <3>6. CASE RecordTo(p, c)
      <4>0. /\ rows' = rows /\ At(p, "backend") /\ run[p].backend # None
            /\ Recorded' = run[p].backend /\ run[p].backend \in Backends
            /\ \/ c.backend = None /\ c.pc = "idle"
               \/ /\ c.backend = run[p].backend /\ c.pc = "fp"
                  /\ c.cmd = run[p].cmd /\ c.mode = run[p].mode
        BY <1>0, <2>2, <2>3, <3>6 DEF RecordTo, Same, Recorded, At, Formed
      <4>1. \A q1, q2 \in Procs : run'[q1].backend # None /\ run'[q2].backend # None =>
                                      run'[q1].backend = run'[q2].backend
        BY <2>1, <3>1, <4>0
      <4>2. \A q \in Procs : run'[q].backend # None /\ ~Replaces(q)' => Recorded' = run'[q].backend
        BY <1>0, <2>1, <3>1, <4>0 DEF Replaces
      <4>3. \A q \in Procs : (At(q, "insert") /\ Replaces(q))' \/ At(q, "backend")' =>
               \A b \in Backends \ {run'[q].backend} : rows'[b] = NoRows
        BY <2>1, <3>1, <4>0 DEF Replaces, At, Only
      <4>4. \A b \in Backends : rows'[b] # NoRows =>
               /\ \A k \in Backends \ {b} : rows'[k] = NoRows
               /\ b = Recorded' \/ \E q \in Procs : At(q, "backend")' /\ run'[q].backend = b
        BY <2>1, <3>1, <4>0 DEF Replaces, At, Only
      <4> QED
        BY <4>1, <4>2, <4>3, <4>4 DEF Partition, Only
    <3>7. CASE FpTo(p, c)
      <4>0. /\ rows' = rows /\ At(p, "fp") /\ Recorded' = Recorded
            /\ c.backend = None /\ c.pc = "idle"
        BY <2>3, <3>7 DEF FpTo, Recorded
      <4>1. \A q1, q2 \in Procs : run'[q1].backend # None /\ run'[q2].backend # None =>
                                      run'[q1].backend = run'[q2].backend
        BY <2>1, <3>1, <4>0
      <4>2. \A q \in Procs : run'[q].backend # None /\ ~Replaces(q)' => Recorded' = run'[q].backend
        BY <2>1, <3>1, <4>0 DEF Replaces
      <4>3. \A q \in Procs : (At(q, "insert") /\ Replaces(q))' \/ At(q, "backend")' =>
               \A b \in Backends \ {run'[q].backend} : rows'[b] = NoRows
        BY <2>1, <3>1, <4>0 DEF Replaces, At, Only
      <4>4. \A b \in Backends : rows'[b] # NoRows =>
               /\ \A k \in Backends \ {b} : rows'[k] = NoRows
               /\ b = Recorded' \/ \E q \in Procs : At(q, "backend")' /\ run'[q].backend = b
        BY <2>1, <3>1, <4>0 DEF Replaces, At, Only
      <4> QED
        BY <4>1, <4>2, <4>3, <4>4 DEF Partition, Only
    <3>8. CASE DieTo(p, c)
      <4>0. /\ rows' = rows /\ Recorded' = Recorded
            /\ c.backend = None /\ c.pc = "idle"
            /\ At(p, "backend") => run[p].backend = Recorded
        BY <2>3, <3>8 DEF DieTo, Recorded, Free
      <4>1. \A q1, q2 \in Procs : run'[q1].backend # None /\ run'[q2].backend # None =>
                                      run'[q1].backend = run'[q2].backend
        BY <2>1, <3>1, <4>0
      <4>2. \A q \in Procs : run'[q].backend # None /\ ~Replaces(q)' => Recorded' = run'[q].backend
        BY <2>1, <3>1, <4>0 DEF Replaces
      <4>3. \A q \in Procs : (At(q, "insert") /\ Replaces(q))' \/ At(q, "backend")' =>
               \A b \in Backends \ {run'[q].backend} : rows'[b] = NoRows
        BY <2>1, <3>1, <4>0 DEF Replaces, At, Only
      <4>4. \A b \in Backends : rows'[b] # NoRows =>
               /\ \A k \in Backends \ {b} : rows'[k] = NoRows
               /\ b = Recorded' \/ \E q \in Procs : At(q, "backend")' /\ run'[q].backend = b
        BY <2>1, <3>1, <4>0 DEF Replaces, At, Only
      <4> QED
        BY <4>1, <4>2, <4>3, <4>4 DEF Partition, Only
    <3> QED
      BY <1>3, <3>2, <3>3, <3>4, <3>5, <3>6, <3>7, <3>8 DEF StepTo
  <2> QED
    BY <2>4, <2>5
<1> QED
  BY <1>1, <1>2, <1>3, Steps DEF Next

\* What a recorded fingerprint says of the rows.
LEMMA FingerprintKept ==
    ASSUME TypeInv, Stamps, Solitude, Fingerprint, [Next]_vars PROVE Fingerprint'
<1> DEFINE Calm == Free({"halfway", "switched", "appended", "raced"})
<1>0. /\ None \notin Nat /\ None \notin Backends /\ cg.stamp \in Nat
      /\ meta.fp \in Nat \cup {None} /\ "codeindex" # None
  BY SyncAssumption DEF TypeInv, Backends
<1>1. CASE UNCHANGED vars
  BY <1>1 DEF vars, repo, store, Fingerprint, Free, At, Busy, Recorded, Snapshot
<1> SUFFICES ASSUME Calm' PROVE Fingerprint'
  BY DEF Fingerprint
<1>2. /\ "raced" \notin taint /\ "raced" \notin taint'
      /\ \A p, q \in Procs : Busy(p) /\ Busy(q) => p = q
  BY RacedStays DEF Free, Solitude
<1>3. ASSUME Developer PROVE Fingerprint'
  <2>1. DeveloperStep
    BY <1>3, DeveloperSteps
  <2>2. Calm /\ rows' = rows /\ meta' = meta
    BY <2>1 DEF DeveloperStep, Launched, Free
  <2>3. CASE run' = run /\ cg' = cg
    BY <2>2, <2>3 DEF Fingerprint, At, Busy, Recorded, Snapshot
  <2>4. CASE run' = run /\ cg' = [tree |-> work, stamp |-> cg.stamp + 1]
    <3>1. meta.fp # cg'.stamp
      BY <1>0, <2>4 DEF Stamps
    <3> QED
      BY <2>2, <2>4, <3>1 DEF Fingerprint, At, Busy, Recorded, Snapshot
  <2>5. ASSUME cg' = cg, NEW p \in Procs, NEW c \in Commands, Launched(p, c) PROVE Fingerprint'
    <3>1. run'[p] = c /\ \A q \in Procs \ {p} : run'[q] = run[q]
      BY <2>5, LaunchedOnly
    <3>2. /\ c.pc \in {"route", "gate", "export"} /\ c.stamp = None /\ At(p, "idle")
          /\ c.mode # "append"
      BY <2>5 DEF Launched, Free
    <3>3. c.backend = "codeindex" => meta.fp = None
      BY <2>2, <2>5 DEF Launched, Free, Fingerprint
    <3> QED
      BY <2>2, <2>5, <3>1, <3>2, <3>3 DEF Fingerprint, At, Busy, Recorded, Snapshot
  <2> QED
    BY <2>1, <2>3, <2>4, <2>5 DEF DeveloperStep
<1>4. ASSUME NEW p \in Procs, NEW c \in Commands, StepTo(p, c) PROVE Fingerprint'
  <2>1. run'[p] = c /\ (\A q \in Procs \ {p} : run'[q] = run[q]) /\ cg' = cg
    BY <1>4, MovedOnly DEF StepTo
  <2>2. run[p] \in Commands /\ Formed(run[p]) /\ Formed(c) /\ Busy(p)
    BY <1>4 DEF StepTo, RouteTo, QuietTo, ExportTo, ClearTo, GcTo, InsertTo, RecordTo, FpTo, DieTo,
                Moves, TypeInv, Busy, At
  <2>3. c = Idle => c.backend = None /\ c.pc = "idle" /\ c.stamp = None
    BY IdleCommand
  <2>4. \A q \in Procs \ {p} : run[q].pc = "idle" /\ run[q].backend = None /\ run[q].stamp = None
    BY <1>2, <2>2 DEF Busy, At, TypeInv, Formed
  <2>5. SUFFICES /\ meta'.fp = cg.stamp /\ c.pc # "insert" => Snapshot(cg.tree)'
                 /\ Recorded' = "codeindex" => meta'.fp = None
                 /\ c.pc # "idle" => c.mode # "append"
                 /\ c.backend = "codeindex" => meta'.fp = None
                 /\ c.pc = "peek" /\ c.stamp = meta'.fp => Snapshot(c.tree)'
                 /\ c.stamp # None /\ meta'.fp # None => meta'.fp <= c.stamp
    BY <1>0, <2>1, <2>4 DEF Fingerprint, At, Busy, Snapshot
  <2>6. CASE FpTo(p, c)
    <3>1. run[p].pc = "fp" /\ run[p].backend = "codegraph" /\ run[p].stamp \in Nat
      BY <2>2, <2>6 DEF FpTo, At, Formed, Exporting
    <3>2. run[p].mode = "rebuild"
      <4>1. CASE Calm
        BY <2>2, <3>1, <4>1 DEF Fingerprint, Formed
      <4>2. CASE ~Calm
        BY <2>6, <4>2 DEF FpTo, Free
      <4> QED
        BY <4>1, <4>2
    <3>3. /\ rows["codegraph"] = Export("codegraph", run[p].tree)
          /\ Only("codegraph") /\ Recorded = "codegraph"
      BY <1>2, <3>1, <3>2 DEF Solitude, At
    <3>4. rows["codeindex"] = NoRows
      BY <3>3 DEF Only, Backends
    <3>5. run[p].stamp = cg.stamp => run[p].tree = cg.tree
      BY <1>0, <3>1 DEF Stamps
    <3>6. rows' = rows /\ meta'.fp = run[p].stamp /\ Recorded' = "codegraph" /\ c = Idle
      BY <2>6, <3>3 DEF FpTo, Recorded
    <3> QED
      BY <2>1, <1>0, <2>3, <3>3, <3>4, <3>5, <3>6 DEF Snapshot
  <2>7. ASSUME ~FpTo(p, c)
        PROVE  /\ Calm /\ meta'.fp = meta.fp
               /\ meta.fp = cg.stamp /\ run[p].pc # "insert" => Snapshot(cg.tree)
               /\ Recorded = "codeindex" => meta.fp = None
               /\ run[p].mode # "append"
               /\ run[p].backend = "codeindex" => meta.fp = None
               /\ run[p].pc = "peek" /\ run[p].stamp = meta.fp => Snapshot(run[p].tree)
               /\ run[p].stamp # None /\ meta.fp # None => meta.fp <= run[p].stamp
    <3>1. taint \subseteq taint' /\ meta'.fp = meta.fp
      BY <1>4, <2>7 DEF StepTo, RouteTo, QuietTo, ExportTo, ClearTo, GcTo, InsertTo, RecordTo, DieTo
    <3>2. Calm
      BY <3>1 DEF Free
    <3> QED
      BY <2>2, <2>4, <3>1, <3>2 DEF Fingerprint, At
  <2>8. CASE RouteTo(p, c)
    BY <2>1, <2>7, <2>8 DEF RouteTo, FpTo, At, Recorded, Snapshot
  <2>9. CASE QuietTo(p, c)
    BY <1>0, <2>1, <2>3, <2>7, <2>9 DEF QuietTo, FpTo, At, Recorded, Snapshot, Same
  <2>10. CASE ExportTo(p, c)
    <3>1. ~FpTo(p, c) /\ run[p].pc = "export" /\ rows' = rows /\ meta' = meta
      BY <2>10 DEF ExportTo, FpTo, At
    <3>2. c.pc = "peek" => c.backend = "codegraph"
      BY <2>2 DEF Formed
    <3>3. meta.fp # None => meta.fp <= cg.stamp
      BY DEF Stamps
    <3> QED
      BY <2>1, <2>7, <2>10, <3>1, <3>2, <3>3 DEF ExportTo, Recorded, Snapshot
  <2>11. CASE ClearTo(p, c) \/ GcTo(p, c)
    BY <2>7, <2>11 DEF ClearTo, GcTo, FpTo, At, Recorded, Same
  <2>12. CASE InsertTo(p, c)
    <3>1. ~FpTo(p, c) /\ run[p].pc = "insert" /\ meta' = meta
      BY <2>12 DEF InsertTo, FpTo, At
    <3>2. ASSUME meta.fp = cg.stamp PROVE Snapshot(cg.tree)'
      <4>1. run[p].backend = "codegraph" /\ run[p].stamp \in Nat
        BY <1>0, <2>2, <2>7, <3>1, <3>2 DEF Formed, Backends, Exporting
      <4>2. run[p].mode = "rebuild"
        BY <2>2, <2>7, <3>1, <4>1 DEF Formed
      <4>3. run[p].tree = cg.tree
        BY <1>0, <2>7, <3>1, <3>2, <4>1 DEF Stamps
      <4>4. rows["codeindex"] = NoRows
        BY <1>2, <3>1, <4>2 DEF Solitude, At, Backends
      <4>5. Covered(p) = Files
        BY <4>2 DEF Covered
      <4> QED
        BY <2>1, <2>12, <4>1, <4>3, <4>4, <4>5 DEF InsertTo, Snapshot, Backends
    <3> QED
      BY <1>0, <2>1, <2>3, <2>7, <2>12, <3>1, <3>2 DEF InsertTo, Same, Recorded
  <2>13. CASE RecordTo(p, c)
    <3>1. /\ ~FpTo(p, c) /\ run[p].pc = "backend" /\ rows' = rows
          /\ Recorded' = "codeindex" => run[p].backend = "codeindex"
      BY <1>0, <2>2, <2>13 DEF RecordTo, FpTo, At, Recorded, Formed
    <3> QED
      BY <1>0, <2>1, <2>3, <2>7, <2>13, <3>1 DEF RecordTo, Same, Snapshot
  <2>14. CASE DieTo(p, c)
    <3>1. CASE FpTo(p, c)
      BY <2>6, <3>1
    <3>2. CASE ~FpTo(p, c)
      <4>1. run[p].pc = "insert" => run[p].mode # "rebuild"
        BY <2>14 DEF DieTo, Free, At
      <4>2. run[p].pc = "insert" => run[p].backend = "codeindex"
        BY <2>2, <2>7, <3>2, <4>1 DEF Formed, Backends
      <4> QED
        BY <2>1, <1>0, <2>3, <2>7, <2>14, <3>2, <4>2 DEF DieTo, Recorded, Snapshot
    <3> QED
      BY <3>1, <3>2
  <2> QED
    BY <1>4, <2>6, <2>8, <2>9, <2>10, <2>11, <2>12, <2>13, <2>14 DEF StepTo
<1> QED
  BY <1>1, <1>3, <1>4, Steps DEF Next

-----------------------------------------------------------------------------
(* The theorems.                                                           *)

\* A new workspace satisfies the invariant.
LEMMA Initially == Init => Inv
<1> SUFFICES ASSUME Init PROVE Inv
  OBVIOUS
<1>0. None \notin Nat /\ None \notin Backends
  BY SyncAssumption
<1>1. \A p \in Procs : run[p] = Idle
  BY DEF Init
<1>2. /\ base \in Tree /\ head \in Tree /\ work \in Tree
      /\ cg = [tree |-> work, stamp |-> 0]
  BY DEF Init, Tree
<1> PICK b \in Backends :
        /\ rows = [k \in Backends |-> IF k = b THEN Export(b, work) ELSE NoRows]
        /\ \/ meta = [backend |-> b, fp |-> IF b = "codegraph" THEN 0 ELSE None]
           \/ b = "codeindex" /\ meta = [backend |-> None, fp |-> None]
  BY DEF Init
<1>3. Recorded = b /\ (meta.fp = None \/ (b = "codegraph" /\ meta.fp = 0))
  BY <1>0 DEF Recorded, Backends
<1>4. TypeInv
  <2>1. run \in [Procs -> Commands] /\ \A p \in Procs : Formed(run[p])
    BY <1>1, IdleCommand DEF Init
  <2>2. rows \in [Backends -> [Sources -> Version \cup {None}]]
    BY <1>2, RowsType
  <2>3. meta \in [backend : Backends \cup {None}, fp : Nat \cup {None}]
    OBVIOUS
  <2> QED
    BY <1>2, <2>1, <2>2, <2>3 DEF TypeInv, Init
<1>5. Stamps
  BY <1>0, <1>1, <1>2, <1>3, IdleCommand DEF Stamps
<1>6. Crossing /\ Solitude
  BY <1>1, IdleCommand DEF Init, Crossing, Solitude, Busy, At
<1>7. Partition
  BY <1>1, <1>3, IdleCommand DEF Partition, At, Only
<1>8. Fingerprint
  BY <1>0, <1>1, <1>2, <1>3, IdleCommand DEF Fingerprint, Snapshot, Backends, At, Busy
<1> QED
  BY <1>4, <1>5, <1>6, <1>7, <1>8 DEF Inv

\* Every step preserves the invariant.
LEMMA Kept == Inv /\ [Next]_vars => Inv'
BY TypeStep, StampsKept, CrossingKept, SolitudeKept, PartitionKept, FingerprintKept DEF Inv

\* The invariant holds in every reachable state.
LEMMA Invariance == Spec => []Inv
BY Initially, Kept, PTL DEF Spec

\* For all numbers of files, commands, versions and events the types hold.
THEOREM Types == Spec => []TypeOK
<1>1. Inv => TypeOK
  <2> SUFFICES ASSUME TypeInv PROVE TypeOK
    BY DEF Inv
  <2>1. \A p \in Procs : CommandOK(run[p])
    BY DEF TypeInv, CommandOK, Commands, Formed, Exporting
  <2> QED
    BY <2>1 DEF TypeInv, TypeOK
<1> QED
  BY <1>1, Invariance, PTL

\* For all numbers of files, commands and events, a store never has rows of
\* both backends, with the exceptions OneBackend names.
THEOREM NeverMixed == Spec => []OneBackend
<1>1. Inv => OneBackend
  <2> SUFFICES ASSUME Inv, Free({"override", "unrecorded", "crossed"})
               PROVE  \E b \in Backends : rows[b] = NoRows
    BY DEF OneBackend
  <2>1. rows["codeindex"] # NoRows => Only("codeindex")
    BY DEF Inv, Partition, Backends
  <2> QED
    BY <2>1 DEF Only, Backends
<1> QED
  BY <1>1, Invariance, PTL

\* and between commands the record names the backend whose rows they are.
THEOREM RecordIsRight == Spec => []RecordNamesRows
<1>1. Inv => RecordNamesRows
  <2> SUFFICES ASSUME Inv, Active = {}, Free({"override", "unrecorded", "crossed"}),
                      NEW b \in Backends \ {Recorded}
               PROVE  rows[b] = NoRows
    BY DEF RecordNamesRows
  <2>1. \A p \in Procs : ~At(p, "backend")
    BY DEF Active, At
  <2> QED
    BY <2>1 DEF Inv, Partition
<1> QED
  BY <1>1, Invariance, PTL

\* For all numbers of commands, trees and events, an update that finds its
\* snapshot's fingerprint on record leaves a store that has this snapshot.
THEOREM NoopKeepsSnapshot == Spec => NoopIsCurrent
<1>1. Inv /\ [Next]_vars =>
        [\A p \in Procs :
           /\ At(p, "peek") /\ At(p, "idle")' /\ events' = events
           /\ Free({"halfway", "switched", "appended", "raced"})
           => /\ rows["codegraph"] = Export("codegraph", run[p].tree)
              /\ rows["codeindex"] = NoRows ]_vars
  <2> SUFFICES ASSUME Inv, [Next]_vars, NEW p \in Procs, At(p, "peek"), At(p, "idle")',
                      events' = events, Free({"halfway", "switched", "appended", "raced"})
               PROVE  Snapshot(run[p].tree)
    BY DEF Snapshot
  <2>1. run'[p].pc = "idle" /\ run[p].pc = "peek"
    BY DEF At
  <2>2. Fingerprint /\ TypeInv /\ events \in Nat
    BY DEF Inv, TypeInv
  <2>3. SUFFICES run[p].stamp = meta.fp
    BY <2>2 DEF Fingerprint, At, Snapshot
  <2>4. CASE UNCHANGED vars
    BY <2>1, <2>4 DEF vars
  <2>5. ASSUME Developer PROVE FALSE
    <3>1. DeveloperStep
      BY <2>2, <2>5, DeveloperSteps
    <3>2. ASSUME NEW q \in Procs, NEW c \in Commands, Launched(q, c) PROVE FALSE
      BY <2>1, <2>2, <3>2, LaunchedOnly DEF Launched, At
    <3> QED
      BY <2>1, <3>1, <3>2 DEF DeveloperStep
  <2>6. ASSUME NEW q \in Procs, Step(q) \/ Die(q) PROVE Unchanged(p)
    <3>1. q = p
      <4>1. \E c \in Commands : Moves(q, c)
        BY <2>2, <2>6, StepMoves
      <4> QED
        BY <2>1, <2>2, <4>1, MovedOnly
    <3>2. ~Die(p)
      BY <2>2 DEF Die, Event
    <3>3. Peek(p)
      BY <2>1, <2>6, <3>1, <3>2 DEF Step, Route, Gate, Exported, Look, Clear, Gc, Insert,
                                    RecordBackend, RecordFp, At
    <3>4. ASSUME NEW c \in Commands, Moves(p, c), c.pc = "clear" PROVE FALSE
      BY <2>1, <2>2, <3>4, MovedOnly
    <3> QED
      BY <2>2, <3>3, <3>4, PeekMoves
  <2> QED
    BY <2>4, <2>5, <2>6 DEF Next, Unchanged
<1> QED
  BY <1>1, Invariance, PTL DEF Spec, NoopIsCurrent

-----------------------------------------------------------------------------
(* A workspace in step with its repository.                                *)

Clean(f) == work[f] = head[f]

\* the store has f as it is in HEAD
Has(f) == rows["codeindex"][f] = Row("codeindex", head, f)

\* One commit behind, or not even that: the store has every clean file that
\* is in no diff since HEAD~1.
Behind ==
    Clean(Config) /\ base[Config] = work[Config] =>
        \A f \in Sources : Clean(f) /\ base[f] = work[f] => Has(f)

\* the store has every clean file that p will not write
KeptRows(p) == Clean(Config) => \A f \in Sources : Clean(f) /\ f \notin run[p].changed => Has(f)

\* What a running command relies on to leave the store current.
Promises(p) ==
    /\ run[p].pc \in {"route", "gate"} => Behind
    /\ run[p].backend = "codeindex" /\ run[p].mode = "incremental" =>
          /\ run[p].pc \in {"export", "look"} /\ run[p].cmd = "update" =>
                Behind /\ (Clean(Config) => base[Config] = work[Config])
          /\ At(p, "export") /\ run[p].cmd # "update" => KeptRows(p)
          /\ run[p].pc \in {"gc", "insert"} => KeptRows(p)
    /\ run[p].backend = "codegraph" /\ run[p].pc \in {"export", "peek"} => Current

\* What it knows whatever backend is on record: the files that are clean now
\* were exported as they are in HEAD.
Own(p) ==
    /\ Busy(p) /\ run[p].mode = "append" => "appended" \in taint
    /\ run[p].backend = "codeindex" /\ run[p].pc \in Exporting =>
          \A f \in Files : Clean(f) => run[p].tree[f] = head[f]
    /\ run[p].backend = "codeindex" /\ At(p, "backend") =>
          run[p].mode = "append" \/ (run[p].mode = "rebuild" /\ Current)

\* an edit makes a version nobody has seen
Versioned == \A f \in Files : head[f] <= edits /\ work[f] <= edits

Calm == Free({"raced", "died", "discarded", "skipped"})

InStep ==
    Calm =>
        /\ \A p \in Procs : Own(p)
        /\ Recorded = "codeindex" /\ "appended" \notin taint =>
              /\ Active = {} => Current
              /\ \A p \in Procs : Promises(p)

\* Versions only come from edits and merges.
LEMMA VersionedKept == ASSUME TypeInv, Versioned, [Next]_vars PROVE Versioned'
<1> USE DEF TypeInv, Versioned, Tree
<1>1. CASE Edit
  BY <1>1 DEF Edit
<1>2. CASE Checkout
  BY <1>2 DEF Checkout, Changed
<1>3. CASE Commit
  BY <1>3 DEF Commit, Advance
<1>4. CASE MergeCommit
  BY <1>4 DEF MergeCommit, Advance
<1>5. CASE SyncCodegraph \/ Command \/ UNCHANGED vars
  BY <1>5 DEF SyncCodegraph, Command, vars, repo
<1>6. ASSUME NEW p \in Procs, Step(p) \/ Die(p) PROVE Versioned'
  BY <1>6 DEF Step, Die, Route, Gate, Exported, Look, Peek, Clear, Gc, Insert, RecordBackend,
              RecordFp, repo
<1> QED
  BY <1>1, <1>2, <1>3, <1>4, <1>5, <1>6 DEF Next, Developer

\* No mark that ends the calm is ever taken back.
LEMMA CalmBefore == ASSUME TypeInv, [Next]_vars, Calm' PROVE Calm
<1>1. CASE UNCHANGED vars
  BY <1>1 DEF vars, Calm, Free
<1>2. ASSUME Developer PROVE Calm
  <2>1. DeveloperStep
    BY <1>2, DeveloperSteps
  <2> QED
    BY <2>1 DEF DeveloperStep, Launched, Calm, Free
<1>3. ASSUME NEW p \in Procs, NEW c \in Commands, StepTo(p, c) PROVE Calm
  <2>1. taint \cap {"raced", "died", "discarded", "skipped"} \subseteq taint'
    BY <1>3 DEF StepTo, RouteTo, QuietTo, ExportTo, ClearTo, GcTo, InsertTo, RecordTo, FpTo, DieTo
  <2> QED
    BY <2>1 DEF Calm, Free
<1> QED
  BY <1>1, <1>2, <1>3, Steps DEF Next

\* A step that only makes clean files dirty leaves everything in step.
LEMMA DirtierInStep ==
    ASSUME TypeInv, InStep, UNCHANGED <<base, head, rows, meta, run, taint>>,
           \A f \in Files : work'[f] = work[f] \/ work'[f] # head[f]
    PROVE  InStep'
<1>1. \A f \in Files : Clean(f)' => Clean(f) /\ work'[f] = work[f]
  BY DEF Clean
<1>2. Config \in Files /\ Sources \subseteq Files
  BY DEF Files
<1>3. \A f : Has(f)' <=> Has(f)
  BY DEF Has
<1>4. Current => Current'
  BY <1>1, <1>2, <1>3 DEF Current, Clean, Has
<1>5. Behind => Behind'
  BY <1>1, <1>2, <1>3 DEF Behind
<1>6. (Clean(Config) => base[Config] = work[Config])
          => (Clean(Config)' => base'[Config] = work'[Config])
  BY <1>1, <1>2
<1>7. ASSUME NEW p \in Procs PROVE (Own(p) => Own(p)') /\ (Promises(p) => Promises(p)')
  <2>1. KeptRows(p) => KeptRows(p)'
    BY <1>1, <1>2, <1>3 DEF KeptRows
  <2> QED
    BY <1>1, <1>4, <1>5, <1>6, <2>1 DEF Own, Promises, At, Busy
<1>8. (Calm' <=> Calm) /\ Recorded' = Recorded /\ Active' = Active
  BY DEF Calm, Free, Recorded, Active, At
<1> QED
  BY <1>4, <1>7, <1>8 DEF InStep

\* A command that starts finds nobody else and, at its first look, a store
\* that is current or, behind a commit, one commit behind.
LEMMA StartInStep ==
    ASSUME TypeInv, TypeInv', InStep, Calm, NEW p \in Procs, NEW c \in Commands, Launched(p, c),
           UNCHANGED <<rows, meta>>,
           Current => Behind' /\ (c.pc # "route" => Current')
    PROVE  InStep'
<1> SUFFICES ASSUME Calm' PROVE InStep'
  BY DEF InStep
<1>1. run'[p] = c /\ \A q \in Procs \ {p} : run'[q] = run[q]
  BY LaunchedOnly
<1>2. \A q \in Procs : At(q, "idle")
  BY DEF Launched, Calm, Free, Busy
<1>3. \A q \in Procs \ {p} : Own(q)' /\ Promises(q)'
  BY <1>1, <1>2, SyncAssumption
     DEF TypeInv, Formed, Own, Promises, Busy, At, Backends, Exporting
<1>4. /\ c.pc \in {"route", "gate", "export"}
      /\ c.mode = "append" => "appended" \in taint'
      /\ c.cmd = "update" /\ c.backend = "codeindex" => c.pc = "gate"
      /\ taint \subseteq taint'
  BY DEF Launched
<1>5. Own(p)'
  BY <1>1, <1>4 DEF Own, At, Exporting
<1>6. ASSUME Recorded' = "codeindex", "appended" \notin taint'
      PROVE  Promises(p)' /\ Active' # {}
  <2>1. Recorded = "codeindex" /\ "appended" \notin taint
    BY <1>4, <1>6 DEF Recorded
  <2>2. Active = {}
    BY <1>2 DEF Active
  <2>3. Behind' /\ (c.pc # "route" => Current')
    BY <2>1, <2>2 DEF InStep
  <2>4. Current' => KeptRows(p)'
    BY DEF Current, KeptRows, Clean, Has
  <2>5. p \in Active'
    BY <1>1, <1>4 DEF Active, At
  <2> QED
    BY <1>1, <1>4, <2>3, <2>4, <2>5 DEF Promises, At
<1> QED
  BY <1>3, <1>5, <1>6 DEF InStep

\* What the developer does between and beside commands keeps them in step: a
\* commit starts the hook's update one commit behind.
LEMMA DeveloperInStep ==
    ASSUME TypeInv, TypeInv', Versioned, InStep, Calm, Developer
    PROVE  InStep'
<1> SUFFICES ASSUME Calm' PROVE InStep'
  BY DEF InStep
<1>0. Config \in Files /\ Sources \subseteq Files
  BY DEF Files
<1>1. CASE Edit
  <2>1. UNCHANGED <<base, head, rows, meta, run, taint>>
    BY <1>1 DEF Edit, store
  <2>2. \A f \in Files : work'[f] = work[f] \/ work'[f] # head[f]
    BY <1>1 DEF Edit, TypeInv, Tree, Versioned
  <2> QED
    BY <2>1, <2>2, DirtierInStep
<1>2. CASE SyncCodegraph
  <2>1. UNCHANGED <<base, head, rows, meta, run, taint>> /\ work' = work
    BY <1>2 DEF SyncCodegraph, store
  <2> QED
    BY <2>1, DirtierInStep
<1>3. CASE MergeCommit
  BY <1>3 DEF MergeCommit, Calm, Free
<1>4. CASE Checkout
  <2> PICK f \in Changed(head, work) :
         /\ work' = [work EXCEPT ![f] = head[f]]
         /\ taint' = taint \cup {t \in {"discarded"} :
                        \/ Active # {}
                        \/ \E g \in Sources : /\ f \in {g, Config}
                                              /\ rows["codeindex"][g] # Row("codeindex", work', g)}
    BY <1>4 DEF Checkout
  <2>1. UNCHANGED <<base, head, rows, meta, run>>
    BY <1>4 DEF Checkout, store
  <2>2. /\ taint' = taint /\ Active = {}
        /\ \A g \in Sources : f \in {g, Config} =>
              rows["codeindex"][g] = Row("codeindex", work', g)
    BY DEF Calm, Free
  <2>3. f \in Files /\ work'[f] = head[f] /\ \A g \in Files \ {f} : work'[g] = work[g]
    BY DEF Changed, TypeInv, Tree
  <2>4. Current => Current'
    <3> SUFFICES ASSUME Current, work'[Config] = head[Config],
                        NEW g \in Sources, work'[g] = head[g]
                 PROVE  rows["codeindex"][g] = Row("codeindex", head, g)
      BY <2>1 DEF Current
    <3>1. CASE f \in {g, Config}
      BY <2>2, <3>1 DEF Row
    <3>2. CASE f \notin {g, Config}
      BY <1>0, <2>3, <3>2 DEF Current
    <3> QED
      BY <3>1, <3>2
  <2>5. \A p \in Procs : At(p, "idle")'
    BY <2>1, <2>2 DEF Active, At
  <2>6. \A p \in Procs : Own(p)' /\ Promises(p)'
    BY <2>5, SyncAssumption
       DEF TypeInv, Formed, Own, Promises, Busy, At, Backends, Exporting
  <2> QED
    BY <2>1, <2>2, <2>4, <2>6 DEF InStep, Recorded
<1>5. CASE Commit
  <2> PICK C \in (SUBSET Changed(head, work)) \ {{}}, mode \in HookModes :
          LET m == RunMode(mode, Cardinality(C))
          IN  /\ Advance([f \in Files |-> IF f \in C THEN work[f] ELSE head[f]])
              /\ \/ /\ m = "none"
                    /\ taint' = taint \cup {t \in {"skipped"} : mode = "disabled"}
                    /\ UNCHANGED run
                 \/ /\ m # "none"
                    /\ \E p \in Procs : Launch(p, UpdateOf(None, m = "sync"), {})
    BY <1>5 DEF Commit
  <2>1. UNCHANGED <<rows, meta, work>> /\ base' = head
    BY <1>5 DEF Commit, Advance, store
  <2>2. \A f \in Files : head'[f] = work[f] \/ head'[f] = head[f]
    BY DEF Advance
  <2>3. RunMode(mode, Cardinality(C)) # "none"
    <3>1. IsFiniteSet(Files)
      <4>1. IsFiniteSet({Docs}) /\ IsFiniteSet({Config})
        BY FS_Singleton
      <4>2. IsFiniteSet({Docs} \cup {Config})
        BY <4>1, FS_Union
      <4>3. IsFiniteSet(Sources \cup ({Docs} \cup {Config}))
        BY <4>2, SyncAssumption, FS_Union
      <4>4. Files = Sources \cup ({Docs} \cup {Config})
        BY DEF Files
      <4> QED
        BY <4>3, <4>4
    <3>2. IsFiniteSet(C)
      BY <3>1, FS_Subset DEF Changed
    <3>3. Cardinality(C) # 0
      <4>1. \A S : IsFiniteSet(S) /\ S # {} => Cardinality(S) # 0
        BY FS_EmptySet
      <4> QED
        BY <3>2, <4>1
    <3>4. mode # "disabled" \/ "skipped" \in taint'
      BY <3>3 DEF RunMode, Launch
    <3> QED
      BY <3>3, <3>4, SyncAssumption DEF RunMode, Calm, Free
  <2>4. PICK p \in Procs, c \in Commands : Launched(p, c) /\ c.pc = "route"
    BY <2>3, HookStarts
  <2>5. ASSUME Current PROVE Behind'
    <3> SUFFICES ASSUME work[Config] = head'[Config], head[Config] = work[Config],
                        NEW f \in Sources, work[f] = head'[f], head[f] = work[f]
                 PROVE  rows["codeindex"][f] = Row("codeindex", head', f)
      BY <2>1 DEF Behind, Clean, Has
    <3> QED
      BY <2>5 DEF Current, Row
  <2> QED
    BY <2>1, <2>4, <2>5, StartInStep
<1>6. CASE Command
  <2>1. UNCHANGED <<rows, meta, base, head, work>>
    BY <1>6 DEF Command, store, repo
  <2>2. PICK p \in Procs, c \in Commands : Launched(p, c)
    BY <1>6, IndexStarts, UpdateStarts, RefreshStarts DEF Command
  <2>3. Current => Current' /\ Behind'
    BY <2>1 DEF Current, Behind, Clean, Has
  <2> QED
    BY <2>1, <2>2, <2>3, StartInStep
<1> QED
  BY <1>1, <1>2, <1>3, <1>4, <1>5, <1>6 DEF Developer

\* Each step of the only command there is keeps what the command relies on,
\* and the last one leaves the store current.
LEMMA CommandInStep ==
    ASSUME TypeInv, TypeInv', Solitude, InStep, Calm, Calm', NEW p \in Procs, Step(p)
    PROVE  InStep'
<1> DEFINE c == run[p]
           d == run'[p]
           Trusting == Recorded = "codeindex" /\ "appended" \notin taint
<1>0. /\ Config \in Files /\ Sources \subseteq Files /\ None \notin Backends
      /\ Recorded \in Backends
  BY SyncAssumption DEF Files, TypeInv, Recorded, Backends
<1>1. UNCHANGED <<base, head, work>>
  BY DEF Step, Route, Gate, Exported, Look, Peek, Clear, Gc, Insert, RecordBackend, RecordFp, repo
<1>2. c \in Commands /\ Formed(c) /\ c.pc # "idle"
  BY DEF TypeInv, Step, Route, Gate, Exported, Look, Peek, Clear, Gc, Insert, RecordBackend,
         RecordFp, At
<1>3. \A q \in Procs \ {p} : run'[q] = run[q] /\ run[q].pc = "idle"
  <2>1. \A q \in Procs \ {p} : run'[q] = run[q]
    BY StepMoves, MovedOnly
  <2>2. \A q \in Procs \ {p} : run[q].pc = "idle"
    BY <1>2 DEF Solitude, Calm, Free, Busy, At
  <2> QED
    BY <2>1, <2>2
<1>4. \A q \in Procs \ {p} : Own(q)' /\ Promises(q)'
  BY <1>3, SyncAssumption
     DEF TypeInv, Formed, Own, Promises, Busy, At, Backends, Exporting
<1>5. SUFFICES /\ Own(p)'
               /\ Recorded' = "codeindex" /\ "appended" \notin taint' =>
                     /\ d.pc = "idle" => Current'
                     /\ Promises(p)'
  BY <1>4 DEF InStep, Active, At
<1>6. Own(p) /\ (Trusting => Promises(p))
  BY DEF InStep
<1>7. ASSUME rows' = rows
      PROVE  (Current' <=> Current) /\ (Behind' <=> Behind) /\ (KeptRows(p) /\ d.changed = c.changed => KeptRows(p)')
  BY <1>1, <1>7 DEF Current, Behind, KeptRows, Clean, Has
<1>8. ASSUME d = Idle
      PROVE  d.pc = "idle" /\ Own(p)' /\ Promises(p)'
  BY <1>0, <1>8, IdleCommand DEF Own, Promises, Busy, At, Backends, Exporting
<1>9. CASE Route(p)
  <2>1. /\ UNCHANGED <<rows, meta>> /\ taint \subseteq taint'
        /\ c.pc = "route" /\ c.cmd = "update" /\ c.mode = "incremental"
    BY <1>2, <1>9 DEF Route, store, At, Formed
  <2>2. /\ d.pc = UpdatePc(Recorded) /\ d.backend = Recorded
        /\ d.mode = c.mode /\ d.cmd = c.cmd
    BY <1>2, <1>9 DEF Route, Routed, TypeInv, Commands
  <2>3. Own(p)'
    BY <1>0, <2>1, <2>2 DEF Own, At, UpdatePc, Exporting
  <2> QED
    BY <1>6, <1>7, <2>1, <2>2, <2>3 DEF Promises, UpdatePc, Recorded
<1>10. CASE Gate(p)
  <2>1. /\ UNCHANGED <<rows, meta, taint>>
        /\ c.pc = "gate" /\ c.cmd = "update" /\ c.backend = "codeindex"
    BY <1>2, <1>10 DEF Gate, store, At, Formed
  <2>2. Trusting => Behind
    BY <1>6, <2>1 DEF Promises
  <2>3. CASE End(p)
    <3>1. d = Idle /\ GateMode(Changed(base, work)) = "skip"
      <4>1. d = Idle
        BY <2>3 DEF End, TypeInv
      <4>2. Idle.pc # "export"
        BY IdleCommand
      <4> QED
        BY <1>10, <4>1, <4>2 DEF Gate, TypeInv, Commands
    <3>2. base[Config] = work[Config] /\ \A f \in Sources : base[f] = work[f]
      BY <1>0, <3>1 DEF GateMode, Changed
    <3>3. Behind => Current
      BY <3>2 DEF Behind, Current, Clean, Has
    <3> QED
      BY <1>7, <1>8, <2>1, <2>2, <3>1, <3>3 DEF Recorded
  <2>4. CASE run' = [run EXCEPT ![p].mode = GateMode(Changed(base, work)), ![p].pc = "export"]
    <3>1. /\ d.pc = "export" /\ d.cmd = "update" /\ d.backend = "codeindex"
          /\ d.mode = GateMode(Changed(base, work))
      BY <1>2, <2>1, <2>4 DEF TypeInv, Commands
    <3>2. d.mode # "append"
      BY <3>1 DEF GateMode
    <3>3. d.mode = "incremental" => base[Config] = work[Config]
      BY <1>0, <3>1 DEF GateMode, Changed
    <3>4. Own(p)'
      BY <3>1, <3>2 DEF Own, At, Exporting
    <3> QED
      BY <1>1, <1>7, <2>1, <2>2, <3>1, <3>3, <3>4 DEF Promises, Recorded, At
  <2> QED
    BY <1>10, <2>3, <2>4 DEF Gate
<1>11. CASE Exported(p)
  <2>1. UNCHANGED <<rows, meta, taint>> /\ c.pc = "export" /\ c.backend \in Backends
    BY <1>2, <1>11 DEF Exported, store, At, Formed
  <2>2. /\ d.mode = c.mode /\ d.cmd = c.cmd /\ d.backend = c.backend /\ d.changed = c.changed
        /\ c.backend = "codeindex" => d.tree = work
    BY <1>2, <1>11 DEF Exported, TypeInv, Commands
  <2>3. /\ c.backend = "codegraph" /\ c.cmd = "update" => d.pc = "peek"
        /\ c.backend = "codeindex" /\ c.mode = "incremental" =>
              d.pc = IF c.cmd = "update" THEN "look" ELSE "gc"
        /\ d.pc \notin {"idle", "route", "gate", "export", "backend"}
        /\ d.pc = "insert" => c.mode = "append"
        /\ d.pc = "peek" => c.backend = "codegraph"
    <3>1. d.pc = IF c.backend = "codegraph" /\ c.cmd = "update" THEN "peek"
                 ELSE IF c.mode = "rebuild" THEN "clear"
                 ELSE IF c.mode = "append" THEN "insert"
                 ELSE IF c.cmd = "update" THEN "look" ELSE "gc"
      BY <1>2, <1>11 DEF Exported, TypeInv, Commands
    <3> QED
      BY <2>1, <3>1
  <2>4. Own(p)'
    BY <1>1, <1>2, <1>6, <2>1, <2>2, <2>3 DEF Own, Busy, At, Clean
  <2> QED
    BY <1>1, <1>6, <1>7, <2>1, <2>2, <2>3, <2>4 DEF Promises, Recorded, At, Clean
<1>12. CASE Look(p)
  <2>1. /\ UNCHANGED <<rows, meta, taint>>
        /\ c.pc = "look" /\ c.cmd = "update" /\ c.mode = "incremental" /\ c.backend = "codeindex"
    BY <1>2, <1>12 DEF Look, store, At, Formed
  <2>2. /\ d.mode = c.mode /\ d.cmd = c.cmd /\ d.backend = c.backend /\ d.tree = c.tree
        /\ d.pc = "gc" /\ d.changed = Changed(base, work)
    BY <1>2, <1>12 DEF Look, TypeInv, Commands
  <2>3. Trusting => Behind /\ (Clean(Config) => base[Config] = work[Config])
    BY <1>6, <2>1 DEF Promises
  <2>4. Trusting => KeptRows(p)'
    BY <1>0, <1>1, <2>1, <2>2, <2>3 DEF KeptRows, Behind, Changed, Clean, Has
  <2>5. Own(p)'
    BY <1>1, <1>6, <2>1, <2>2 DEF Own, At, Clean, Exporting
  <2> QED
    BY <2>1, <2>2, <2>4, <2>5, <1>0 DEF Promises, Recorded, At
<1>13. CASE Peek(p)
  <2>1. UNCHANGED <<rows, meta, taint>> /\ c.pc = "peek" /\ c.backend = "codegraph"
    BY <1>2, <1>13 DEF Peek, store, At, Formed
  <2>2. Trusting => Current
    BY <1>6, <2>1 DEF Promises
  <2>3. CASE End(p)
    <3>1. d = Idle
      BY <2>3 DEF End, TypeInv
    <3> QED
      BY <1>7, <1>8, <2>1, <2>2, <3>1 DEF Recorded
  <2>4. CASE run' = [run EXCEPT ![p].mode = "rebuild", ![p].pc = "clear"]
    <3>1. d.pc = "clear" /\ d.mode = "rebuild" /\ d.backend = "codegraph"
      BY <1>2, <2>1, <2>4 DEF TypeInv, Commands
    <3> QED
      BY <3>1 DEF Own, Promises, At
  <2> QED
    BY <1>13, <2>3, <2>4 DEF Peek
<1>14. CASE Clear(p)
  <2>1. UNCHANGED <<meta, taint>> /\ c.pc = "clear" /\ c.mode = "rebuild"
    BY <1>2, <1>14 DEF Clear, At, Formed
  <2>2. /\ d.pc = "insert" /\ d.mode = c.mode /\ d.backend = c.backend /\ d.tree = c.tree
    BY <1>2, <1>14 DEF Clear, TypeInv, Commands
  <2>3. Own(p)'
    BY <1>1, <1>6, <2>1, <2>2 DEF Own, At, Clean, Exporting
  <2> QED
    BY <2>1, <2>2, <2>3 DEF Promises, At
<1>15. CASE Gc(p)
  <2>1. UNCHANGED <<meta, taint>> /\ c.pc = "gc" /\ c.mode = "incremental" /\ c.backend = "codeindex"
    BY <1>2, <1>15 DEF Gc, At, Formed
  <2>2. /\ d.pc = "insert" /\ d.mode = c.mode /\ d.backend = c.backend /\ d.tree = c.tree
        /\ d.changed = c.changed
    BY <1>2, <1>15 DEF Gc, TypeInv, Commands
  <2>3. \A f \in Sources : rows'["codeindex"][f] = rows["codeindex"][f]
    BY <1>15 DEF Gc, Backends
  <2>4. KeptRows(p) => KeptRows(p)'
    BY <1>1, <2>2, <2>3 DEF KeptRows, Clean, Has
  <2>5. Own(p)'
    BY <1>1, <1>6, <2>1, <2>2 DEF Own, At, Clean, Exporting
  <2> QED
    BY <1>0, <1>6, <2>1, <2>2, <2>4, <2>5 DEF Promises, Recorded, At
<1>16. CASE Insert(p)
  <2>1. UNCHANGED <<meta, taint>> /\ c.pc = "insert" /\ c.backend \in Backends
    BY <1>2, <1>16 DEF Insert, At, Formed
  <2>2. \/ d = Idle /\ ~Records(p)
        \/ /\ Records(p) /\ d.pc = "backend" /\ d.mode = c.mode /\ d.backend = c.backend
           /\ d.tree = c.tree
    BY <1>2, <1>16 DEF Insert, End, TypeInv, Commands
  <2>3. ASSUME c.backend = "codeindex", c.mode = "rebuild" \/ (Trusting /\ c.mode = "incremental")
        PROVE  Current'
    <3>1. \A f \in Sources : rows'["codeindex"][f] =
              IF f \in Covered(p) THEN Row("codeindex", c.tree, f) ELSE rows["codeindex"][f]
      BY <1>16, <2>3 DEF Insert, TypeInv
    <3>2. \A f \in Files : Clean(f) => c.tree[f] = head[f]
      BY <1>6, <2>1, <2>3 DEF Own, Exporting
    <3>3. Clean(Config) => \A f \in Sources : Clean(f) /\ f \notin Covered(p) => Has(f)
      BY <1>0, <1>6, <2>1, <2>3 DEF Covered, Promises, KeptRows
    <3> SUFFICES ASSUME Clean(Config), NEW f \in Sources, Clean(f)
                 PROVE  rows'["codeindex"][f] = Row("codeindex", head, f)
      BY <1>1 DEF Current, Clean
    <3>4. c.tree[f] = head[f] /\ c.tree[Config] = head[Config]
      BY <1>0, <3>2
    <3>5. Row("codeindex", c.tree, f) = Row("codeindex", head, f)
      BY <3>4 DEF Row
    <3> QED
      BY <3>1, <3>3, <3>5 DEF Has
  <2>4. CASE d = Idle /\ ~Records(p)
    <3>1. c.backend = "codeindex" /\ c.mode \in {"rebuild", "incremental"}
      BY <1>2, <2>1, <2>4 DEF Records, Formed, Backends
    <3> QED
      BY <1>8, <2>1, <2>3, <2>4, <3>1 DEF Recorded
  <2>5. CASE Records(p) /\ d.pc = "backend" /\ d.mode = c.mode /\ d.backend = c.backend
             /\ d.tree = c.tree
    <3>1. d.mode = "append" => "appended" \in taint'
      BY <1>2, <1>6, <2>1, <2>5 DEF Own, Busy, At
    <3>2. d.backend = "codeindex" => \A f \in Files : (work'[f] = head'[f]) => d.tree[f] = head'[f]
      BY <1>1, <1>6, <2>1, <2>5 DEF Own, Clean, Exporting
    <3>3. ASSUME d.backend = "codeindex" PROVE d.mode = "append" \/ (d.mode = "rebuild" /\ Current')
      <4>1. c.cmd = "index"
        BY <2>5, <3>3 DEF Records
      <4>2. c.mode \in {"rebuild", "append"}
        BY <1>2, <2>1, <4>1 DEF Formed
      <4> QED
        BY <2>3, <2>5, <3>3, <4>2
    <3>4. Own(p)'
      BY <3>1, <3>2, <3>3 DEF Own, Clean
    <3> QED
      BY <2>5, <3>4 DEF Promises, At
  <2> QED
    BY <2>2, <2>4, <2>5
<1>17. CASE RecordBackend(p)
  <2>1. UNCHANGED <<rows, taint>> /\ c.pc = "backend" /\ meta'.backend = c.backend
        /\ c.backend \in Backends
    BY <1>2, <1>17 DEF RecordBackend, At, TypeInv, Formed
  <2>2. CASE End(p)
    <3>1. d = Idle
      BY <2>2 DEF End, TypeInv
    <3>2. ASSUME Recorded' = "codeindex", "appended" \notin taint' PROVE Current'
      <4>1. c.backend = "codeindex" /\ c.mode # "append"
        BY <1>0, <1>2, <1>6, <2>1, <3>2 DEF Recorded, Own, Busy, At
      <4>2. c.mode = "rebuild"
        BY <1>6, <2>1, <4>1 DEF Own, At
      <4> QED
        BY <1>6, <1>7, <2>1, <4>1, <4>2 DEF Own, At
    <3> QED
      BY <1>8, <3>1, <3>2
  <2>3. CASE c.backend = "codegraph" /\ run' = [run EXCEPT ![p].pc = "fp"]
    <3>1. d.pc = "fp" /\ d.backend = "codegraph" /\ d.mode = c.mode
      BY <1>2, <2>3 DEF TypeInv, Commands
    <3> QED
      BY <1>2, <1>6, <2>1, <3>1 DEF Own, Promises, Busy, At
  <2> QED
    BY <1>17, <2>2, <2>3 DEF RecordBackend
<1>18. CASE RecordFp(p)
  <2>1. c.pc = "fp" /\ meta'.backend = meta.backend /\ d = Idle
    BY <1>18 DEF RecordFp, At, TypeInv, End
  <2>2. Recorded' = "codegraph"
    BY <2>1 DEF Solitude, Calm, Free, At, Recorded
  <2> QED
    BY <1>8, <2>1, <2>2
<1> QED
  BY <1>9, <1>10, <1>11, <1>12, <1>13, <1>14, <1>15, <1>16, <1>17, <1>18 DEF Step

\* The parts together.
LEMMA InStepKept ==
    ASSUME TypeInv, TypeInv', Solitude, Versioned, InStep, [Next]_vars
    PROVE  InStep'
<1> SUFFICES ASSUME Calm, Calm' PROVE InStep'
  BY CalmBefore DEF InStep
<1>1. CASE UNCHANGED vars
  <2>1. UNCHANGED <<base, head, rows, meta, run, taint>> /\ work' = work
    BY <1>1 DEF vars, repo, store
  <2> QED
    BY <2>1, DirtierInStep
<1>2. ASSUME NEW p \in Procs, Die(p) PROVE FALSE
  BY <1>2 DEF Die, Calm, Free
<1> QED
  BY <1>1, <1>2, DeveloperInStep, CommandInStep DEF Next

\* For all numbers of files, commands, versions and events, a workspace whose
\* commits all reached the hook and whose commands all finished, one after
\* the other, is current whenever no command is running.
THEOREM IdleWorkspaceIsCurrent == Spec => []IdleIsCurrent
<1>1. Init => Versioned /\ InStep
  <2> SUFFICES ASSUME Init PROVE Versioned /\ InStep
    OBVIOUS
  <2>1. Versioned
    BY DEF Init, Versioned
  <2>2. \A p \in Procs : Own(p) /\ Promises(p)
    <3>1. TypeInv /\ \A p \in Procs : At(p, "idle")
      BY Initially, IdleCommand DEF Inv, Init, At
    <3> QED
      BY <3>1, SyncAssumption DEF TypeInv, Formed, Own, Promises, Busy, At, Backends, Exporting
  <2>3. Recorded = "codeindex" => Current
    BY SyncAssumption DEF Init, Recorded, Current, Backends, Export
  <2> QED
    BY <2>1, <2>2, <2>3 DEF InStep
<1>2. Inv /\ Inv' /\ Versioned /\ InStep /\ [Next]_vars => Versioned' /\ InStep'
  BY VersionedKept, InStepKept DEF Inv
<1>3. InStep => IdleIsCurrent
  BY DEF InStep, IdleIsCurrent, Trusted, Calm, Free
<1> QED
  BY <1>1, <1>2, <1>3, Invariance, PTL DEF Spec
=============================================================================
