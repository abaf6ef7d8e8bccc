------------------------- MODULE SnapshotProvision --------------------------
(***************************************************************************)
(* `branch-diff A..B` and `index --at-ref` (cli/_branch_diff.py): each ref *)
(* is cold-indexed from a detached worktree into a workspace database of   *)
(* its own, tagged in the database's meta table so that a later call may   *)
(* reuse it, and the two databases are compared.                           *)
(*                                                                         *)
(* The databases are shared with the user: `index`, `update` and `refresh` *)
(* of a checked-out branch write the database of the same name, refs move, *)
(* two calls may run at once (terminal and MCP server), and a call may die *)
(* between two of its transactions.  What a database holds is kept as the  *)
(* set of the exports its rows come from (GraphStore has the tables).      *)
(***************************************************************************)
EXTENDS Naturals, Sequences, FiniteSets

CONSTANTS
    Refs, Shas, Backends, Dbs, Procs,
    DbOf,          \* ref -> database of the workspace <repo>:<ref>, sanitized
    FallbackDb,    \* ref -> sha -> database of <repo>:<ref>-<short sha>
    Into,          \* databases `-w` may name
    None,
    MayCrash,      \* a call may die or raise between two transactions
    UserMayIndex,  \* the user may index a checked-out branch
    MaxCalls, MaxMoves, MaxUser   \* bounds

WorkTree == "worktree"   \* the user's checkout, uncommitted edits included

Export == [from : Shas \cup {WorkTree}, backend : Backends]

ASSUME ProvisionAssumption ==
    /\ "codeindex" \in Backends
    /\ WorkTree \notin Shas
    /\ None \notin Refs /\ None \notin Shas /\ None \notin Backends /\ None \notin Dbs
    /\ None # "branch-diff"
    /\ DbOf \in [Refs -> Dbs]
    /\ FallbackDb \in [Refs -> [Shas -> Dbs]]
    /\ Into \subseteq Dbs
    /\ MayCrash \in BOOLEAN /\ UserMayIndex \in BOOLEAN
    /\ MaxCalls \in Nat /\ MaxMoves \in Nat /\ MaxUser \in Nat

VARIABLES
    tip,       \* ref -> the commit it points at
    rows,      \* database -> exports its rows come from
    meta,      \* database -> the four provenance keys of its meta table
    call,      \* process -> the call it is running
    calls, moves, indexed,  \* bounds
    taint,     \* history: what else touched a database since its last rebuild
    past,      \* history: commits a ref has left
    back       \* history: a call went for a commit its ref had left

dbVars   == <<rows, meta>>
envVars  == <<tip, past, moves, indexed>>
histVars == <<taint, back>>
vars == <<dbVars, envVars, call, calls, histVars>>

Untagged == [by |-> None, ref |-> None, sha |-> None, backend |-> None]

TagKeys == <<"backend", "by", "ref", "sha">>

\* A call: what was asked (refs, the commits they resolved to, the backend,
\* the workspace `-w` names), the databases taken so far, the meta keys still
\* to write.  NoCall is the value between two calls.
NoCall == [pc |-> "idle", refs |-> <<>>, shas |-> <<>>, backend |-> "codeindex",
           into |-> None, taken |-> <<>>, left |-> <<>>]

At(p, l) == call[p].pc = l

Goto(p, l) == call' = [call EXCEPT ![p].pc = l]

\* the call is over: success, refusal or error
End(p) == call' = [call EXCEPT ![p] = NoCall]

\* the ref a call is provisioning: the last it took a database for
Side(p) == Len(call[p].taken)

Holders(d) == {p \in Procs : \E i \in 1..Side(p) : call[p].taken[i] = d}

Overlap(p, d) == IF Holders(d) \ {p} # {} THEN {"overlap"} ELSE {}

-----------------------------------------------------------------------------
(* The decision table (_decide_workspace).                                 *)

Recorded(m) == IF m.backend = None THEN "codeindex" ELSE m.backend

\* Mutant: a snapshot is recognised without looking at its ref.
VerdictAnyRef(d, ref, sha, backend) ==
    CASE meta[d].by = "branch-diff" /\ meta[d].sha = sha -> "reused"
      [] meta[d].by = "branch-diff" /\ meta[d].sha # sha -> "rebuilt"
      [] meta[d].by = None /\ rows[d] = {} -> "created"
      [] OTHER -> "occupied"

\* Mutant: a database nobody tagged is taken even when it holds something.
VerdictClobber(d, ref, sha, backend) ==
    CASE meta[d].by = None -> "created"
      [] meta[d].ref = ref /\ Recorded(meta[d]) = backend /\ meta[d].sha = sha -> "reused"
      [] meta[d].ref = ref /\ Recorded(meta[d]) = backend /\ meta[d].sha # sha -> "rebuilt"
      [] OTHER -> "occupied"

\* what a call may do with database d
Verdict(d, ref, sha, backend) ==
    LET tagged == meta[d].by = "branch-diff"
        mine   == tagged /\ meta[d].ref = ref /\ Recorded(meta[d]) = backend
    IN  CASE mine /\ meta[d].sha = sha -> "reused"
          [] mine /\ meta[d].sha # sha -> "rebuilt"
          [] ~tagged /\ rows[d] = {}   -> "created"
          [] OTHER                     -> "occupied"

\* after the n-th ref: the next one, or the comparison of the two
After(p, n) == IF n < Len(call[p].refs) THEN "candidate"
               ELSE IF Len(call[p].refs) = 2 THEN "diff" ELSE "done"

\* database d is considered for the call's next ref
Decide(p, d, occupied) ==
    LET n == Side(p) + 1
        ref == call[p].refs[n]
        sha == call[p].shas[n]
        verdict == Verdict(d, ref, sha, call[p].backend)
        next == IF verdict = "reused" THEN After(p, n) ELSE "export"
    IN  /\ \/ verdict = "occupied" /\ occupied /\ UNCHANGED taint
           \/ /\ verdict # "occupied"
              /\ call' = [call EXCEPT ![p].taken = Append(@, d), ![p].pc = next]
              /\ taint' = [taint EXCEPT ![d] = @ \cup Overlap(p, d)]
        /\ back' = (back \/ sha \in past[ref])
        /\ UNCHANGED <<dbVars, envVars, calls>>

DecideCandidate(p) ==
    /\ At(p, "candidate")
    /\ Decide(p, DbOf[call[p].refs[Side(p) + 1]], Goto(p, "fallback"))

\* both names occupied: the call refuses
DecideFallback(p) ==
    LET n == Side(p) + 1
    IN  /\ At(p, "fallback")
        /\ Decide(p, FallbackDb[call[p].refs[n]][call[p].shas[n]], End(p))

-----------------------------------------------------------------------------
(* The calls.                                                              *)

Start(p, l, refs, backend, into) ==
    /\ At(p, "idle")
    /\ calls < MaxCalls
    /\ calls' = calls + 1
    /\ call' = [call EXCEPT ![p] =
                   [pc |-> l, refs |-> refs, shas |-> [i \in 1..Len(refs) |-> tip[refs[i]]],
                    backend |-> backend, into |-> into,
                    taken |-> IF into = None THEN <<>> ELSE <<into>>, left |-> <<>>]]
    /\ UNCHANGED <<dbVars, envVars, back>>

\* branch-diff resolves both refs before anything else
BeginDiff(p) ==
    /\ \E a, b \in Refs, k \in Backends : Start(p, "candidate", <<a, b>>, k, None)
    /\ UNCHANGED taint

\* index --at-ref: by the decision table, or into the workspace -w names
BeginAtRef(p) ==
    \E r \in Refs :
        \/ Start(p, "candidate", <<r>>, "codeindex", None) /\ UNCHANGED taint
        \/ \E d \in Into :
              /\ Start(p, "export", <<r>>, "codeindex", d)
              /\ taint' = [taint EXCEPT ![d] = @ \cup Overlap(p, d)]

Db(p) == call[p].taken[Side(p)]

\* Mutant: the worktree is added at the ref instead of the resolved commit.
SourceAtTip(p) == tip[call[p].refs[Side(p)]]

\* worktree_add --detach at the resolved commit
Source(p) == call[p].shas[Side(p)]

\* worktree, codegraph's gates and the export; a failure or an empty export
\* ends the call before it has written anything
ExportRef(p) ==
    /\ At(p, "export")
    /\ Goto(p, "clear") \/ End(p)
    /\ UNCHANGED <<dbVars, envVars, calls, histVars>>

\* ingest(clear=True); a rebuild makes up for what went before it, unless two
\* calls were at work on the database, or a `-w` that died left its tag
Clear(p) ==
    /\ At(p, "clear")
    /\ rows' = [rows EXCEPT ![Db(p)] = {}]
    /\ taint' = [taint EXCEPT ![Db(p)] = IF Overlap(p, Db(p)) = {} THEN @ \cap {"overlap", "override"} ELSE @]
    /\ Goto(p, "insert")
    /\ UNCHANGED <<meta, envVars, calls, back>>

Insert(p) ==
    /\ At(p, "insert")
    /\ rows' = [rows EXCEPT ![Db(p)] = @ \cup {[from |-> Source(p), backend |-> call[p].backend]}]
    /\ call' = [call EXCEPT ![p].pc = "tag", ![p].left = TagKeys]
    /\ UNCHANGED <<meta, envVars, calls, histVars>>

\* Mutant: ref and commit are tagged the wrong way round.
TagValueSwapped(p, key) ==
    CASE key = "backend" -> call[p].backend
      [] key = "by"      -> "branch-diff"
      [] key = "ref"     -> call[p].shas[Side(p)]
      [] key = "sha"     -> call[p].refs[Side(p)]

TagValue(p, key) ==
    CASE key = "backend" -> call[p].backend
      [] key = "by"      -> "branch-diff"
      [] key = "ref"     -> call[p].refs[Side(p)]
      [] key = "sha"     -> call[p].shas[Side(p)]

\* set_meta, a transaction for each key
Tag(p) ==
    /\ At(p, "tag")
    /\ meta' = [meta EXCEPT ![Db(p)][Head(call[p].left)] = TagValue(p, Head(call[p].left))]
    /\ \/ /\ Len(call[p].left) > 1
          /\ call' = [call EXCEPT ![p].left = Tail(@)]
       \/ /\ Len(call[p].left) = 1 /\ After(p, Side(p)) # "done"
          /\ call' = [call EXCEPT ![p].left = <<>>, ![p].pc = After(p, Side(p))]
       \/ /\ Len(call[p].left) = 1 /\ After(p, Side(p)) = "done"
          /\ End(p)
    /\ UNCHANGED <<rows, envVars, calls, histVars>>

\* at-ref that reused a snapshot, or the comparison that reads both databases
Finish(p) ==
    /\ At(p, "diff") \/ At(p, "done")
    /\ End(p)
    /\ UNCHANGED <<dbVars, envVars, calls, histVars>>

\* killed, or an embedding error that must not be swallowed, in the middle of
\* a rebuild; elsewhere a call that dies is one whose export fails
Crash(p) ==
    /\ MayCrash
    /\ At(p, "insert") \/ At(p, "tag")
    /\ End(p)
    /\ taint' = [taint EXCEPT ![Db(p)] =
                    @ \cup {IF call[p].into = None THEN "crash" ELSE "override"}]
    /\ UNCHANGED <<dbVars, envVars, calls, back>>

-----------------------------------------------------------------------------
(* The user and the repository.                                            *)

\* a commit on the ref, or a reset to a commit it had before
Move ==
    /\ moves < MaxMoves
    /\ moves' = moves + 1
    /\ \E r \in Refs, s \in Shas :
          /\ s # tip[r]
          /\ tip' = [tip EXCEPT ![r] = s]
          /\ past' = [past EXCEPT ![r] = @ \cup {tip[r]}]
    /\ UNCHANGED <<dbVars, indexed, call, calls, histVars>>

\* `index` with or without --clear, or `update`, with the branch r checked
\* out; only `index` records the backend
UserIndex ==
    /\ UserMayIndex
    /\ indexed < MaxUser
    /\ indexed' = indexed + 1
    /\ \E r \in Refs, k \in Backends :
          LET d == DbOf[r]
              new == {[from |-> WorkTree, backend |-> k]}
          IN  /\ \/ /\ meta' = [meta EXCEPT ![d].backend = k]
                    /\ rows' = [rows EXCEPT ![d] = new] \/ rows' = [rows EXCEPT ![d] = @ \cup new]
                 \/ /\ k = Recorded(meta[d])
                    /\ rows' = [rows EXCEPT ![d] = @ \cup new]
                    /\ UNCHANGED meta
              /\ taint' = [taint EXCEPT ![d] =
                              @ \cup {"user"} \cup IF Holders(d) # {} THEN {"raced"} ELSE {}]
    /\ UNCHANGED <<tip, past, moves, call, calls, back>>

-----------------------------------------------------------------------------
\* what a database may hold when the story begins: nothing, the user's own
\* index of the branch, or the snapshot a finished call took of a ref
Fresh == [rows |-> {}, meta |-> Untagged]
Owned == [rows |-> {[from |-> WorkTree, backend |-> "codeindex"]},
          meta |-> [Untagged EXCEPT !.backend = "codeindex"]]
Taken(r, s, k) == [rows |-> {[from |-> s, backend |-> k]},
                   meta |-> [by |-> "branch-diff", ref |-> r, sha |-> s, backend |-> k]]

Earlier(d) ==
    {Fresh} \cup UNION {{Owned} \cup {Taken(r, s, k) : s \in Shas, k \in Backends} :
                          r \in {q \in Refs : DbOf[q] = d}}

Init ==
    /\ tip \in [Refs -> Shas]
    /\ \E was \in [Dbs -> UNION {Earlier(d) : d \in Dbs}] :
          /\ \A d \in Dbs : was[d] \in Earlier(d)
          /\ rows = [d \in Dbs |-> was[d].rows]
          /\ meta = [d \in Dbs |-> was[d].meta]
          /\ past = [r \in Refs |-> {was[d].meta.sha : d \in {b \in Dbs : was[b].meta.ref = r}}
                                    \ {tip[r]}]
    /\ call = [p \in Procs |-> NoCall]
    /\ calls = 0 /\ moves = 0 /\ indexed = 0
    /\ taint = [d \in Dbs |-> {}]
    /\ back = FALSE

Step(p) ==
    \/ BeginDiff(p) \/ BeginAtRef(p)
    \/ DecideCandidate(p) \/ DecideFallback(p)
    \/ ExportRef(p) \/ Clear(p) \/ Insert(p) \/ Tag(p) \/ Finish(p)
    \/ Crash(p)

Next == Move \/ UserIndex \/ \E p \in Procs : Step(p)

Spec == Init /\ [][Next]_vars
-----------------------------------------------------------------------------
(* Properties.                                                             *)

Labels == {"idle", "candidate", "fallback", "export", "clear", "insert", "tag", "diff", "done"}

CallOK(c) ==
    /\ c.pc \in Labels
    /\ c.refs \in Seq(Refs) /\ c.shas \in Seq(Shas)
    /\ Len(c.shas) = Len(c.refs) /\ Len(c.refs) <= 2
    /\ c.backend \in Backends /\ c.into \in Dbs \cup {None}
    /\ c.taken \in Seq(Dbs) /\ Len(c.taken) <= Len(c.refs)
    /\ c.left \in Seq({"backend", "by", "ref", "sha"})

\* Type invariant of the databases, the calls and the history.
TypeOK ==
    /\ tip \in [Refs -> Shas]
    /\ rows \in [Dbs -> SUBSET Export]
    /\ meta \in [Dbs -> [by : {None, "branch-diff"}, ref : Refs \cup {None},
                         sha : Shas \cup {None}, backend : Backends \cup {None}]]
    /\ \A p \in Procs : CallOK(call[p])
    /\ calls \in Nat /\ moves \in Nat /\ indexed \in Nat
    /\ taint \in [Dbs -> SUBSET {"user", "raced", "crash", "override", "overlap"}]
    /\ past \in [Refs -> SUBSET Shas]
    /\ back \in BOOLEAN

\* nothing but provisioning has touched d since its last rebuild; a rebuild
\* that died is harmless as long as no call goes for a commit its ref had left
Undisturbed(d) == taint[d] = {} \/ (taint[d] = {"crash"} /\ ~back)

\* "Stale diffs are never returned": when the two databases are compared,
\* each holds the export of the commit its ref was resolved to, by the
\* backend asked for, and nothing else.
DiffsItsRefs ==
    \A p \in Procs : At(p, "diff") =>
        \A i \in 1..2 : Undisturbed(call[p].taken[i]) =>
            rows[call[p].taken[i]] = {[from |-> call[p].shas[i], backend |-> call[p].backend]}

\* A database without the tag that holds the user's index is not emptied by
\* the decision table's choice; only `-w`, or a user who indexes into a
\* database a running call has already claimed, loses it.
UserIndexKept ==
    [][ \A d \in Dbs :
          /\ meta[d].by = None
          /\ \E e \in rows[d] : e.from = WorkTree
          /\ \A e \in rows'[d] : e.from # WorkTree
          => \/ "raced" \in taint[d]
             \/ \E p \in Procs : At(p, "clear") /\ Db(p) = d /\ call[p].into = d ]_vars

\* Two refs of one comparison never share a database, unless they ask for
\* the same ref.
SidesApart ==
    \A p \in Procs : At(p, "diff") /\ call[p].taken[1] = call[p].taken[2] =>
        \/ call[p].refs[1] = call[p].refs[2]
        \/ taint[call[p].taken[1]] # {}

-----------------------------------------------------------------------------
(* The databases as a cache of exports (SnapshotCache): a database shows    *)
(* an export when its rows are those of this export alone.                  *)

Shown(d) == IF \E e \in rows[d] : rows[d] = {e} THEN CHOOSE e \in rows[d] : TRUE ELSE None

Wanted(c) == [i \in 1..Len(c.shas) |-> [from |-> c.shas[i], backend |-> c.backend]]

Shows   == [d \in Dbs |-> Shown(d)]
Spoiled == {d \in Dbs : ~Undisturbed(d)}
Asked   == [p \in Procs |-> Wanted(call[p])]
Served  == [p \in Procs |-> IF call[p].pc = "diff" THEN call[p].taken ELSE <<>>]

Cache == INSTANCE SnapshotCache WITH
    Slots <- Dbs, Callers <- Procs, Exports <- Export, Nothing <- None,
    shows <- Shows, spoiled <- Spoiled, asked <- Asked, served <- Served

\* Whatever transactions they consist of, the calls implement a cache of
\* exports: a database shows a whole export of a commit some call resolved,
\* is emptied before it shows another, is not emptied under a call that
\* compares it, and each comparison gets the commits and the backend that
\* were asked for when the call began.
ImplementsCache == Cache!CacheSpec

-----------------------------------------------------------------------------
(* A claim of the module's text that the code does not keep.               *)

\* "Uncommitted edits refreshed in must never leak into a ref diff."
NoWorkingTreeInDiff ==
    \A p \in Procs : At(p, "diff") =>
        \A i \in 1..2 : \A e \in rows[call[p].taken[i]] : e.from # WorkTree
=============================================================================
