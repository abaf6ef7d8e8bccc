----------------------- MODULE SnapshotProvisionProofs ------------------------
(***************************************************************************)
(* Proofs about SnapshotProvision: what the databases of refs hold, for    *)
(* every number of refs, commits, databases and concurrent calls, and that *)
(* they are a cache of exports.                                            *)
(***************************************************************************)
EXTENDS SnapshotProvision, TLAPS

-----------------------------------------------------------------------------
(* Types.                                                                  *)

Calls ==
    [pc : Labels, refs : Seq(Refs), shas : Seq(Shas), backend : Backends,
     into : Dbs \cup {None}, taken : Seq(Dbs), left : Seq({"backend", "by", "ref", "sha"})]

Metas ==
    [by : {None, "branch-diff"}, ref : Refs \cup {None}, sha : Shas \cup {None},
     backend : Backends \cup {None}]

Marks == {"user", "raced", "crash", "override", "overlap"}

Working == {"export", "clear", "insert", "tag"}

\* what remains of TagKeys
LeftOver == {TagKeys, <<"by", "ref", "sha">>, <<"ref", "sha">>, <<"sha">>}

\* what a call knows of itself at each of its steps
Formed(c) ==
    /\ Len(c.shas) = Len(c.refs) /\ Len(c.refs) \in 0..2 /\ Len(c.taken) <= Len(c.refs)
    /\ c.pc = "idle" <=> Len(c.refs) = 0
    /\ c.pc \in {"candidate", "fallback"} => Len(c.taken) < Len(c.refs) /\ c.into = None
    /\ c.pc \in Working \cup {"diff", "done"} => Len(c.taken) > 0
    /\ c.pc = "diff" => Len(c.taken) = 2 /\ c.into = None
    /\ c.pc = "done" => c.into = None
    /\ c.pc = "tag" => c.left \in LeftOver
    /\ c.into # None => Len(c.refs) < 2 /\ c.taken = <<c.into>>

TypeInv ==
    /\ tip \in [Refs -> Shas]
    /\ rows \in [Dbs -> SUBSET Export]
    /\ meta \in [Dbs -> Metas]
    /\ call \in [Procs -> Calls]
    /\ \A p \in Procs : Formed(call[p])
    /\ calls \in Nat /\ moves \in Nat /\ indexed \in Nat
    /\ taint \in [Dbs -> SUBSET Marks]
    /\ past \in [Refs -> SUBSET Shas]
    /\ back \in BOOLEAN

-----------------------------------------------------------------------------
(* The inductive invariant.                                                *)

Sides(p) == 1..Side(p)

\* the sides a call has brought up to date
Settled(p) == IF call[p].pc \in Working THEN 1..Side(p) - 1 ELSE 1..Side(p)

Want(p, i) == [from |-> call[p].shas[i], backend |-> call[p].backend]

\* a call that has emptied d
Filling(p, d) == call[p].pc \in {"insert", "tag"} /\ Db(p) = d

Overlapped(d) == "overlap" \in taint[d]

\* only one call at a time has a database nobody marked
OneHolder ==
    \A d \in Dbs : ~Overlapped(d) => \A p, q \in Holders(d) : p = q

\* a commit of a call or a tag is where its ref is or was
Known(r, s) == s = tip[r] \/ s \in past[r]

Resolved ==
    \A p \in Procs :
        /\ \A i \in 1..Len(call[p].refs) : Known(call[p].refs[i], call[p].shas[i])
        /\ \A i, j \in 1..Len(call[p].refs) :
              call[p].refs[i] = call[p].refs[j] => call[p].shas[i] = call[p].shas[j]

\* The tag of a database is written in an order, and names a commit of its ref.
TagsKnown ==
    \A d \in Dbs :
        /\ meta[d].by = None => meta[d].ref = None
        /\ meta[d].ref = None => meta[d].sha = None
        /\ /\ ~Overlapped(d) /\ "override" \notin taint[d]
           /\ meta[d].ref # None /\ meta[d].sha # None
           /\ (\A p \in Procs : Filling(p, d) => call[p].into = None)
           => Known(meta[d].ref, meta[d].sha)

\* While a call tags a database it has to itself, the keys it has written are
\* its own.
Writing ==
    \A p \in Procs : At(p, "tag") =>
        LET d == Db(p)
            l == call[p].left
        IN  /\ (l \in {<<"ref", "sha">>, <<"sha">>}) => (meta[d].by = "branch-diff")
            /\ l = <<"sha">> => meta[d].ref # None
            /\ (l = <<"sha">> /\ ~Overlapped(d)) => (meta[d].ref = call[p].refs[Side(p)])
            /\ (l # TagKeys /\ ~Overlapped(d) /\ "user" \notin taint[d]) =>
                  meta[d].backend = call[p].backend

\* A call that rebuilds a database by the decision table replaces a snapshot
\* its ref had left, or goes back itself.
Leaving ==
    \A p \in Procs : call[p].pc \in Working /\ call[p].into = None =>
        LET d == Db(p)
            r == call[p].refs[Side(p)]
        IN  /\ ~Overlapped(d) /\ meta[d].ref # None => meta[d].ref = r
            /\ ~Overlapped(d) /\ "override" \notin taint[d] /\ meta[d].sha # None
               => back \/ meta[d].sha \in past[r]

\* what is in a database while it is filled
Filled ==
    \A p \in Procs : \A d \in Dbs :
        (Filling(p, d) /\ taint[d] \cap {"user", "overlap"} = {}) =>
            rows[d] = IF At(p, "insert") THEN {} ELSE {Want(p, Side(p))}

\* and between two calls
Stored ==
    \A d \in Dbs :
        /\ taint[d] \subseteq {"crash"}
        /\ meta[d].ref # None /\ meta[d].sha # None
        /\ (\A p \in Procs : ~Filling(p, d))
        => \/ rows[d] = {[from |-> meta[d].sha, backend |-> Recorded(meta[d])]}
           \/ "crash" \in taint[d] /\ (back \/ meta[d].sha \in past[meta[d].ref])

\* a side that is up to date stays so, and keeps its tag
Sided ==
    \A p \in Procs : \A i \in Settled(p) :
        LET d == call[p].taken[i]
        IN  /\ ~Overlapped(d) => /\ meta[d].by = "branch-diff"
                                 /\ meta[d].ref = call[p].refs[i]
                                 /\ meta[d].sha = call[p].shas[i]
            /\ Undisturbed(d) => rows[d] = {Want(p, i)}
            /\ call[p].pc \in Working /\ Db(p) = d => Overlapped(d)

\* A database a call is about to empty by the decision table has nothing of
\* the user's, or came by it meanwhile.
Claimed ==
    \A p \in Procs :
        /\ call[p].pc \in {"export", "clear"} /\ call[p].into = None
        /\ meta[Db(p)].by = None
        /\ \E e \in rows[Db(p)] : e.from = WorkTree
        => "raced" \in taint[Db(p)]

Inv ==
    /\ TypeInv /\ OneHolder /\ Resolved /\ TagsKnown /\ Writing /\ Leaving
    /\ Filled /\ Stored /\ Sided /\ Claimed

-----------------------------------------------------------------------------
(* The steps of a call, by what they do to the databases.                  *)

\* c is the call of p, elsewhere in its text
Same(p, c) ==
    /\ c.refs = call[p].refs /\ c.shas = call[p].shas /\ c.backend = call[p].backend
    /\ c.into = call[p].into /\ c.taken = call[p].taken

Moves(p, c) == c \in Calls /\ Formed(c) /\ call' = [call EXCEPT ![p] = c]

StartTo(p, c) ==
    /\ At(p, "idle") /\ UNCHANGED <<rows, meta, back>>
    /\ \A i \in 1..Len(c.refs) : c.shas[i] = tip[c.refs[i]]
    /\ \/ c.pc = "candidate" /\ c.taken = <<>> /\ c.into = None /\ UNCHANGED taint
       \/ \E d \in Dbs : /\ c.pc = "export" /\ c.taken = <<d>> /\ c.into = d
                         /\ taint' = [taint EXCEPT ![d] = @ \cup Overlap(p, d)]

\* database d is taken for the next side
TakeTo(p, c, d) ==
    LET n == Side(p) + 1
        v == Verdict(d, call[p].refs[n], call[p].shas[n], call[p].backend)
    IN  /\ call[p].pc \in {"candidate", "fallback"} /\ UNCHANGED <<rows, meta>>
        /\ d \in Dbs /\ v # "occupied"
        /\ c.refs = call[p].refs /\ c.shas = call[p].shas /\ c.backend = call[p].backend
        /\ c.into = call[p].into /\ c.taken = Append(call[p].taken, d)
        /\ v = "reused" => c.pc \in {"candidate", "diff", "done"}
        /\ v # "reused" => c.pc = "export"
        /\ taint' = [taint EXCEPT ![d] = @ \cup Overlap(p, d)]
        /\ back' = (back \/ call[p].shas[n] \in past[call[p].refs[n]])

\* database d is occupied: the other name, or nothing
OccupiedTo(p, c) ==
    /\ call[p].pc \in {"candidate", "fallback"} /\ UNCHANGED <<rows, meta, taint>>
    /\ back' = (back \/ call[p].shas[Side(p) + 1] \in past[call[p].refs[Side(p) + 1]])
    /\ (Same(p, c) /\ c.pc = "fallback") \/ c = NoCall

\* steps that leave the databases alone
QuietTo(p, c) ==
    /\ UNCHANGED <<rows, meta, taint, back>>
    /\ \/ At(p, "export") /\ Same(p, c) /\ c.pc = "clear"
       \/ (At(p, "export") \/ At(p, "diff") \/ At(p, "done")) /\ c = NoCall

ClearTo(p, c) ==
    /\ At(p, "clear") /\ UNCHANGED <<meta, back>>
    /\ rows' = [rows EXCEPT ![Db(p)] = {}]
    /\ taint' = [taint EXCEPT ![Db(p)] =
                   IF Overlap(p, Db(p)) = {} THEN @ \cap {"overlap", "override"} ELSE @]
    /\ Same(p, c) /\ c.pc = "insert"

InsertTo(p, c) ==
    /\ At(p, "insert") /\ UNCHANGED <<meta, taint, back>>
    /\ rows' = [rows EXCEPT ![Db(p)] = @ \cup {Want(p, Side(p))}]
    /\ Same(p, c) /\ c.pc = "tag" /\ c.left = TagKeys

\* the last key is the commit
TagTo(p, c) ==
    /\ At(p, "tag") /\ UNCHANGED <<rows, taint, back>>
    /\ \A d \in Dbs \ {Db(p)} : meta'[d] = meta[d]
    /\ LET l == call[p].left
           m == meta[Db(p)]
           new == meta'[Db(p)]
       IN  \/ /\ l = TagKeys /\ new = [m EXCEPT !.backend = call[p].backend]
              /\ Same(p, c) /\ c.pc = "tag" /\ c.left = <<"by", "ref", "sha">>
           \/ /\ l = <<"by", "ref", "sha">> /\ new = [m EXCEPT !.by = "branch-diff"]
              /\ Same(p, c) /\ c.pc = "tag" /\ c.left = <<"ref", "sha">>
           \/ /\ l = <<"ref", "sha">> /\ new = [m EXCEPT !.ref = call[p].refs[Side(p)]]
              /\ Same(p, c) /\ c.pc = "tag" /\ c.left = <<"sha">>
           \/ /\ l = <<"sha">> /\ new = [m EXCEPT !.sha = call[p].shas[Side(p)]]
              /\ (Same(p, c) /\ c.pc \in {"candidate", "diff"}) \/ c = NoCall

CrashTo(p, c) ==
    /\ call[p].pc \in {"insert", "tag"} /\ UNCHANGED <<rows, meta, back>> /\ c = NoCall
    /\ taint' = [taint EXCEPT ![Db(p)] =
                    @ \cup {IF call[p].into = None THEN "crash" ELSE "override"}]

StepTo(p, c) ==
    /\ Moves(p, c) /\ UNCHANGED <<tip, past>>
    /\ \/ StartTo(p, c) \/ OccupiedTo(p, c) \/ QuietTo(p, c) \/ ClearTo(p, c)
       \/ InsertTo(p, c) \/ TagTo(p, c) \/ CrashTo(p, c)
       \/ \E d \in Dbs : TakeTo(p, c, d)

-----------------------------------------------------------------------------

\* No call is a call of the right form.
LEMMA NoCallFormed == NoCall \in Calls /\ Formed(NoCall)
BY ProvisionAssumption DEF NoCall, Calls, Formed, Labels, Working

\* A call that ends leaves its place free.
LEMMA EndMoves == ASSUME NEW p \in Procs, End(p) PROVE Moves(p, NoCall)
BY NoCallFormed DEF End, Moves

\* c is the call of p at label l, of an equal form
LEMMA GotoMoves ==
    ASSUME TypeInv, NEW p \in Procs, NEW l, Goto(p, l),
           call[p].pc \in {"candidate", "export", "clear"},
           l = (IF call[p].pc = "candidate" THEN "fallback"
                ELSE IF call[p].pc = "export" THEN "clear" ELSE "insert")
    PROVE  \E c \in Calls : Moves(p, c) /\ Same(p, c) /\ c.pc = l
<1> DEFINE c == [call[p] EXCEPT !.pc = l]
<1>1. call[p] \in Calls /\ Formed(call[p]) /\ l \in Labels
  BY DEF TypeInv, Labels
<1>2. call' = [call EXCEPT ![p] = c]
  BY DEF Goto, TypeInv
<1>3. c \in Calls /\ c.pc = l /\ c.left = call[p].left /\ Same(p, c)
  BY <1>1 DEF Calls, Same
<1> HIDE DEF c
<1>4. Formed(c)
  BY <1>1, <1>3 DEF Formed, Same, Working
<1> QED
  BY <1>2, <1>3, <1>4 DEF Moves

\* branch-diff and `index --at-ref` begin with a call whose refs are resolved.
LEMMA StartSteps ==
    ASSUME TypeInv, NEW p \in Procs, BeginDiff(p) \/ BeginAtRef(p)
    PROVE  \E c \in Calls : Moves(p, c) /\ StartTo(p, c) /\ UNCHANGED <<tip, past>>
<1>1. ASSUME NEW refs \in Seq(Refs), Len(refs) \in 1..2, NEW k \in Backends,
             NEW l \in {"candidate", "export"}, NEW into \in Dbs \cup {None},
             Start(p, l, refs, k, into),
             (l = "candidate" /\ into = None /\ UNCHANGED taint)
             \/ (/\ l = "export" /\ into \in Dbs /\ Len(refs) = 1
                 /\ taint' = [taint EXCEPT ![into] = @ \cup Overlap(p, into)])
      PROVE  \E c \in Calls : Moves(p, c) /\ StartTo(p, c) /\ UNCHANGED <<tip, past>>
  <2> DEFINE shas == [i \in 1..Len(refs) |-> tip[refs[i]]]
             taken == IF into = None THEN <<>> ELSE <<into>>
             c == [pc |-> l, refs |-> refs, shas |-> shas, backend |-> k, into |-> into,
                   taken |-> taken, left |-> <<>>]
  <2>1. shas \in Seq(Shas) /\ Len(shas) = Len(refs) /\ \A i \in 1..Len(refs) : shas[i] = tip[refs[i]]
    BY <1>1 DEF TypeInv
  <2>2. taken \in Seq(Dbs) /\ (into # None => taken = <<into>> /\ Len(taken) = 1)
        /\ (into = None => taken = <<>> /\ Len(taken) = 0)
    BY <1>1
  <2>3. /\ At(p, "idle") /\ call' = [call EXCEPT ![p] = c]
        /\ UNCHANGED <<rows, meta, back, tip, past>>
    BY <1>1 DEF Start, dbVars, envVars
  <2>4. c \in Calls
    BY <1>1, <2>1, <2>2 DEF Calls, Labels
  <2>5. /\ c.pc = l /\ c.refs = refs /\ c.shas = shas /\ c.into = into /\ c.taken = taken
        /\ Len(refs) \in Nat
    BY <1>1
  <2> HIDE DEF shas, taken, c
  <2>6. Formed(c)
    <3>1. CASE l = "candidate"
      BY <1>1, <2>1, <2>2, <2>5, <3>1 DEF Formed, Working
    <3>2. CASE l = "export"
      <4>1. into \in Dbs /\ into # None /\ Len(refs) = 1
        BY <1>1, <3>2, ProvisionAssumption
      <4>2. Len(taken) = 1 /\ taken = <<into>>
        BY <2>2, <4>1
      <4> QED
        BY <2>1, <2>5, <3>2, <4>1, <4>2 DEF Formed, Working
    <3> QED
      BY <1>1, <3>1, <3>2
  <2>7. StartTo(p, c)
    BY <1>1, <2>1, <2>2, <2>3, <2>5, ProvisionAssumption DEF StartTo
  <2> QED
    BY <2>3, <2>4, <2>6, <2>7 DEF Moves
<1>2. CASE BeginDiff(p)
  <2> PICK a \in Refs, b \in Refs, k \in Backends : Start(p, "candidate", <<a, b>>, k, None)
    BY <1>2 DEF BeginDiff
  <2>1. <<a, b>> \in Seq(Refs) /\ Len(<<a, b>>) \in 1..2 /\ UNCHANGED taint
    BY <1>2 DEF BeginDiff
  <2> QED
    BY <1>1, <2>1
<1>3. CASE BeginAtRef(p)
  <2> PICK r \in Refs : \/ Start(p, "candidate", <<r>>, "codeindex", None) /\ UNCHANGED taint
                        \/ \E d \in Into :
                              /\ Start(p, "export", <<r>>, "codeindex", d)
                              /\ taint' = [taint EXCEPT ![d] = @ \cup Overlap(p, d)]
    BY <1>3 DEF BeginAtRef
  <2>1. <<r>> \in Seq(Refs) /\ Len(<<r>>) = 1 /\ Len(<<r>>) \in 1..2
    OBVIOUS
  <2>2. Into \subseteq Dbs /\ "codeindex" \in Backends
    BY ProvisionAssumption
  <2>3. CASE Start(p, "candidate", <<r>>, "codeindex", None) /\ UNCHANGED taint
    BY <1>1, <2>1, <2>2, <2>3
  <2>4. ASSUME NEW d \in Into, Start(p, "export", <<r>>, "codeindex", d),
               taint' = [taint EXCEPT ![d] = @ \cup Overlap(p, d)]
        PROVE  \E c \in Calls : Moves(p, c) /\ StartTo(p, c) /\ UNCHANGED <<tip, past>>
    <3>1. d \in Dbs
      BY <2>2
    <3> QED
      BY <1>1, <2>1, <2>2, <2>4, <3>1
  <2> QED
    BY <2>3, <2>4
<1> QED
  BY <1>2, <1>3

\* the labels that follow a side
LEMMA AfterLabels ==
    ASSUME NEW p \in Procs, Formed(call[p]), NEW n \in Nat, n \in 1..Len(call[p].refs)
    PROVE  /\ After(p, n) \in {"candidate", "diff", "done"}
           /\ After(p, n) = "candidate" => n < Len(call[p].refs)
           /\ After(p, n) = "diff" => n = 2 /\ Len(call[p].refs) = 2
           /\ After(p, n) = "done" => Len(call[p].refs) # 2
<1> DEFINE m == Len(call[p].refs)
<1>1. m \in {0, 1, 2}
  BY DEF Formed
<1>2. After(p, n) = IF n < m THEN "candidate" ELSE IF m = 2 THEN "diff" ELSE "done"
  BY DEF After
<1> HIDE DEF m
<1>3. n \in 1..m
  BY DEF m
<1>4. CASE n < m
  BY <1>2, <1>4 DEF m
<1>5. CASE ~(n < m)
  <2>1. n = m
    BY <1>1, <1>3, <1>5
  <2> QED
    BY <1>2, <1>5, <2>1 DEF m
<1> QED
  BY <1>4, <1>5

\* A database that is not occupied is taken.
LEMMA TakeSteps ==
    ASSUME TypeInv, NEW p \in Procs, NEW d \in Dbs,
           call[p].pc \in {"candidate", "fallback"},
           Decide(p, d, Goto(p, "fallback")) \/ Decide(p, d, End(p)),
           Verdict(d, call[p].refs[Side(p) + 1], call[p].shas[Side(p) + 1], call[p].backend)
             # "occupied"
    PROVE  \E c \in Calls : Moves(p, c) /\ TakeTo(p, c, d) /\ UNCHANGED <<tip, past>>
<1> DEFINE n == Side(p) + 1
           v == Verdict(d, call[p].refs[n], call[p].shas[n], call[p].backend)
           next == IF v = "reused" THEN After(p, n) ELSE "export"
           c == [call[p] EXCEPT !.taken = Append(@, d), !.pc = next]
<1>1. call[p] \in Calls /\ Formed(call[p])
  BY DEF TypeInv
<1>2. n \in Nat /\ n \in 1..Len(call[p].refs) /\ Len(call[p].taken) \in Nat
      /\ call[p].into = None /\ call[p].taken \in Seq(Dbs)
  BY <1>1 DEF Formed, Side, Calls
<1>3. next \in {"candidate", "diff", "done", "export"} /\ next \in Labels
  BY <1>1, <1>2, AfterLabels DEF Labels
<1>4. Append(call[p].taken, d) \in Seq(Dbs) /\ Len(Append(call[p].taken, d)) = n
  BY <1>2 DEF Side
<1>5. /\ call' = [call EXCEPT ![p] = c]
      /\ taint' = [taint EXCEPT ![d] = @ \cup Overlap(p, d)]
      /\ back' = (back \/ call[p].shas[n] \in past[call[p].refs[n]])
      /\ UNCHANGED <<rows, meta, tip, past>>
  BY DEF Decide, TypeInv, dbVars, envVars
<1>6. next = "candidate" => n < Len(call[p].refs)
  BY <1>1, <1>2, AfterLabels
<1>7. next = "diff" => n = 2 /\ Len(call[p].refs) = 2
  BY <1>1, <1>2, AfterLabels
<1>8. (v = "reused" => next \in {"candidate", "diff", "done"}) /\ (v # "reused" => next = "export")
  BY <1>1, <1>2, AfterLabels
<1> HIDE DEF next
<1>9. /\ c \in Calls /\ c.pc = next /\ c.taken = Append(call[p].taken, d)
      /\ c.refs = call[p].refs /\ c.shas = call[p].shas /\ c.backend = call[p].backend
      /\ c.into = call[p].into
  BY <1>1, <1>3, <1>4 DEF Calls
<1> HIDE DEF c
<1>10. Formed(c)
  BY <1>1, <1>2, <1>3, <1>4, <1>6, <1>7, <1>9 DEF Formed, Working
<1>11. TakeTo(p, c, d)
  BY <1>5, <1>8, <1>9 DEF TakeTo
<1> QED
  BY <1>5, <1>9, <1>10, <1>11 DEF Moves

\* Both decisions are steps of this kind.
LEMMA DecideSteps ==
    ASSUME TypeInv, NEW p \in Procs, DecideCandidate(p) \/ DecideFallback(p)
    PROVE  \E c : StepTo(p, c)
<1> DEFINE n == Side(p) + 1
           r == call[p].refs[n]
           s == call[p].shas[n]
<1>1. call[p].pc \in {"candidate", "fallback"}
  BY DEF DecideCandidate, DecideFallback, At
<1>2. r \in Refs /\ s \in Shas
  <2>1. call[p] \in Calls /\ Formed(call[p])
    BY DEF TypeInv
  <2>2. n \in 1..Len(call[p].refs) /\ Len(call[p].shas) = Len(call[p].refs)
    BY <1>1, <2>1 DEF Formed, Side, Calls
  <2> QED
    BY <2>1, <2>2 DEF Calls
<1>3. DbOf[r] \in Dbs /\ FallbackDb[r][s] \in Dbs
  BY <1>2, ProvisionAssumption
<1>4. CASE DecideCandidate(p)
  <2>1. Decide(p, DbOf[r], Goto(p, "fallback")) /\ call[p].pc = "candidate"
    BY <1>4 DEF DecideCandidate, At
  <2>2. CASE Verdict(DbOf[r], r, s, call[p].backend) = "occupied"
    <3>1. Goto(p, "fallback") /\ UNCHANGED <<rows, meta, taint, tip, past>> /\ back' = (back \/ s \in past[r])
      BY <2>1, <2>2 DEF Decide, dbVars, envVars
    <3>2. \E c \in Calls : Moves(p, c) /\ Same(p, c) /\ c.pc = "fallback"
      BY <2>1, <3>1, GotoMoves
    <3> QED
      BY <1>1, <3>1, <3>2 DEF StepTo, OccupiedTo
  <2>3. CASE Verdict(DbOf[r], r, s, call[p].backend) # "occupied"
    <3>1. \E c \in Calls : Moves(p, c) /\ TakeTo(p, c, DbOf[r]) /\ UNCHANGED <<tip, past>>
      BY <1>1, <1>3, <2>1, <2>3, TakeSteps
    <3> QED
      BY <1>3, <3>1 DEF StepTo
  <2> QED
    BY <2>2, <2>3
<1>5. CASE DecideFallback(p)
  <2>1. Decide(p, FallbackDb[r][s], End(p))
    BY <1>5 DEF DecideFallback
  <2>2. CASE Verdict(FallbackDb[r][s], r, s, call[p].backend) = "occupied"
    <3>1. End(p) /\ UNCHANGED <<rows, meta, taint, tip, past>> /\ back' = (back \/ s \in past[r])
      BY <2>1, <2>2 DEF Decide, dbVars, envVars
    <3> QED
      BY <1>1, <3>1, EndMoves DEF StepTo, OccupiedTo
  <2>3. CASE Verdict(FallbackDb[r][s], r, s, call[p].backend) # "occupied"
    <3> DEFINE d == FallbackDb[r][s]
    <3>1. \E c \in Calls : Moves(p, c) /\ TakeTo(p, c, d) /\ UNCHANGED <<tip, past>>
      BY <1>1, <1>3, <2>1, <2>3, TakeSteps
    <3>2. d \in Dbs
      BY <1>3
    <3> HIDE DEF d
    <3> QED
      BY <3>1, <3>2 DEF StepTo
  <2> QED
    BY <2>2, <2>3
<1> QED
  BY <1>4, <1>5

\* the side a call works on
LEMMA WorkingSide ==
    ASSUME TypeInv, NEW p \in Procs, call[p].pc \in Working \cup {"diff", "done"}
    PROVE  /\ Side(p) \in Nat /\ Side(p) \in 1..Len(call[p].refs)
           /\ Len(call[p].refs) \in 1..2
           /\ Db(p) \in Dbs
           /\ call[p].refs[Side(p)] \in Refs /\ call[p].shas[Side(p)] \in Shas
           /\ call[p].backend \in Backends
<1>1. call[p] \in Calls /\ Formed(call[p])
  BY DEF TypeInv
<1>2. Len(call[p].taken) \in Nat /\ Len(call[p].taken) > 0
      /\ Len(call[p].taken) <= Len(call[p].refs)
  BY <1>1 DEF Formed, Calls
<1>3. Len(call[p].refs) \in 0..2 /\ Len(call[p].shas) = Len(call[p].refs)
  BY <1>1 DEF Formed
<1>4. Side(p) \in Nat /\ Side(p) \in 1..Len(call[p].refs) /\ Side(p) \in 1..Len(call[p].taken)
  BY <1>2, <1>3 DEF Side
<1> QED
  BY <1>1, <1>2, <1>3, <1>4 DEF Calls, Db

\* The export and the end of a call leave the databases alone.
LEMMA QuietSteps ==
    ASSUME TypeInv, NEW p \in Procs, ExportRef(p) \/ Finish(p)
    PROVE  \E c : StepTo(p, c)
<1>1. CASE ExportRef(p) /\ Goto(p, "clear")
  <2>1. \E c \in Calls : Moves(p, c) /\ Same(p, c) /\ c.pc = "clear"
    BY <1>1, GotoMoves DEF ExportRef, At
  <2> QED
    BY <1>1, <2>1 DEF StepTo, QuietTo, ExportRef, dbVars, envVars, histVars
<1>2. CASE ExportRef(p) /\ End(p)
  <2>1. Moves(p, NoCall)
    BY <1>2, EndMoves
  <2> QED
    BY <1>2, <2>1 DEF StepTo, QuietTo, ExportRef, dbVars, envVars, histVars
<1>3. CASE Finish(p)
  <2>1. Moves(p, NoCall)
    BY <1>3, EndMoves DEF Finish
  <2> QED
    BY <1>3, <2>1 DEF StepTo, QuietTo, Finish, dbVars, envVars, histVars
<1> QED
  BY <1>1, <1>2, <1>3 DEF ExportRef

\* Clearing changes one database, and no call but the one that clears.
LEMMA ClearSteps ==
    ASSUME TypeInv, NEW p \in Procs, Clear(p)
    PROVE  \E c : StepTo(p, c)
<1>1. \E c \in Calls : Moves(p, c) /\ Same(p, c) /\ c.pc = "insert"
  BY GotoMoves DEF Clear, At
<1>2. /\ At(p, "clear") /\ UNCHANGED <<meta, back, tip, past>>
      /\ rows' = [rows EXCEPT ![Db(p)] = {}]
      /\ taint' = [taint EXCEPT ![Db(p)] =
                     IF Overlap(p, Db(p)) = {} THEN @ \cap {"overlap", "override"} ELSE @]
  BY DEF Clear, envVars
<1> QED
  BY <1>1, <1>2 DEF StepTo, ClearTo

\* So does the insertion.
LEMMA InsertSteps ==
    ASSUME TypeInv, NEW p \in Procs, Insert(p)
    PROVE  \E c : StepTo(p, c)
<1> DEFINE c == [call[p] EXCEPT !.pc = "tag", !.left = TagKeys]
<1>1. call[p] \in Calls /\ Formed(call[p]) /\ TagKeys \in Seq({"backend", "by", "ref", "sha"})
  BY DEF TypeInv, TagKeys
<1>2. /\ call' = [call EXCEPT ![p] = c] /\ UNCHANGED <<meta, taint, back, tip, past>>
      /\ rows' = [rows EXCEPT ![Db(p)] = @ \cup {Want(p, Side(p))}]
      /\ call[p].pc = "insert"
  BY DEF Insert, TypeInv, envVars, histVars, At, Want, Source
<1>3. c \in Calls /\ c.pc = "tag" /\ c.left = TagKeys /\ Same(p, c)
  BY <1>1 DEF Calls, Same, Labels
<1> HIDE DEF c
<1>4. Formed(c)
  BY <1>1, <1>2, <1>3 DEF Formed, Same, Working, LeftOver
<1> QED
  BY <1>2, <1>3, <1>4 DEF StepTo, InsertTo, Moves, At

\* A call that dies changes marks only, and those of its own database.
LEMMA CrashSteps ==
    ASSUME TypeInv, NEW p \in Procs, Crash(p)
    PROVE  \E c : StepTo(p, c)
<1>1. Moves(p, NoCall)
  BY EndMoves DEF Crash
<1>2. CrashTo(p, NoCall) /\ UNCHANGED <<tip, past>>
  BY DEF Crash, CrashTo, At, dbVars, envVars
<1> QED
  BY <1>1, <1>2 DEF StepTo

\* the keys that remain of a tag
LEMMA Leftovers ==
    ASSUME NEW l \in LeftOver
    PROVE  /\ l = TagKeys => /\ Head(l) = "backend" /\ Tail(l) = <<"by", "ref", "sha">>
                             /\ Len(l) = 4
           /\ l = <<"by", "ref", "sha">> => /\ Head(l) = "by" /\ Tail(l) = <<"ref", "sha">>
                                           /\ Len(l) = 3
           /\ l = <<"ref", "sha">> => Head(l) = "ref" /\ Tail(l) = <<"sha">> /\ Len(l) = 2
           /\ l = <<"sha">> => Head(l) = "sha" /\ Len(l) = 1
<1>1. CASE l = TagKeys
  BY <1>1 DEF TagKeys
<1>2. CASE l = <<"by", "ref", "sha">>
  BY <1>2 DEF TagKeys
<1>3. CASE l = <<"ref", "sha">>
  BY <1>3 DEF TagKeys
<1>4. CASE l = <<"sha">>
  BY <1>4 DEF TagKeys
<1> QED
  BY <1>1, <1>2, <1>3, <1>4 DEF LeftOver

\* Each key of the tag is written in its turn, and to one database.
LEMMA TagWrites ==
    ASSUME TypeInv, NEW p \in Procs, Tag(p)
    PROVE  LET l == call[p].left
               m == meta[Db(p)]
               new == meta'[Db(p)]
           IN  /\ \A d \in Dbs \ {Db(p)} : meta'[d] = meta[d]
               /\ l = TagKeys => new = [m EXCEPT !.backend = call[p].backend]
               /\ l = <<"by", "ref", "sha">> => new = [m EXCEPT !.by = "branch-diff"]
               /\ l = <<"ref", "sha">> => new = [m EXCEPT !.ref = call[p].refs[Side(p)]]
               /\ l = <<"sha">> => new = [m EXCEPT !.sha = call[p].shas[Side(p)]]
<1> DEFINE l == call[p].left
           m == meta[Db(p)]
<1>1. call[p] \in Calls /\ Formed(call[p]) /\ call[p].pc = "tag"
  BY DEF TypeInv, Tag, At
<1>2. l \in LeftOver /\ Db(p) \in Dbs /\ m \in Metas
  BY <1>1, WorkingSide DEF Formed, Working, TypeInv
<1>3. meta \in [Dbs -> Metas]
  BY DEF TypeInv
<1>4. meta' = [meta EXCEPT ![Db(p)] = [m EXCEPT ![Head(l)] = TagValue(p, Head(l))]]
  BY DEF Tag
<1>5. meta'[Db(p)] = [m EXCEPT ![Head(l)] = TagValue(p, Head(l))]
  BY <1>2, <1>3, <1>4
<1>6. \A d \in Dbs \ {Db(p)} : meta'[d] = meta[d]
  BY <1>2, <1>3, <1>4
<1>7. /\ TagValue(p, "backend") = call[p].backend /\ TagValue(p, "by") = "branch-diff"
      /\ TagValue(p, "ref") = call[p].refs[Side(p)] /\ TagValue(p, "sha") = call[p].shas[Side(p)]
  BY Zenon DEF TagValue
<1>8. /\ l = TagKeys => Head(l) = "backend"
      /\ l = <<"by", "ref", "sha">> => Head(l) = "by"
      /\ l = <<"ref", "sha">> => Head(l) = "ref"
      /\ l = <<"sha">> => Head(l) = "sha"
  BY <1>2, Leftovers
<1> HIDE DEF l, m
<1>9. /\ Head(l) = "backend" => meta'[Db(p)] = [m EXCEPT !.backend = call[p].backend]
      /\ Head(l) = "by" => meta'[Db(p)] = [m EXCEPT !.by = "branch-diff"]
      /\ Head(l) = "ref" => meta'[Db(p)] = [m EXCEPT !.ref = call[p].refs[Side(p)]]
      /\ Head(l) = "sha" => meta'[Db(p)] = [m EXCEPT !.sha = call[p].shas[Side(p)]]
  BY <1>5, <1>7
<1> QED
  BY <1>6, <1>8, <1>9 DEF l, m

\* what is left of a tag once its next key is written
LEMMA TailLeft ==
    ASSUME NEW l \in LeftOver, Len(l) > 1
    PROVE  /\ Tail(l) \in LeftOver /\ Tail(l) \in Seq({"backend", "by", "ref", "sha"})
           /\ l \in {TagKeys, <<"by", "ref", "sha">>, <<"ref", "sha">>}
<1>1. CASE l = TagKeys
  <2>1. Tail(l) = <<"by", "ref", "sha">>
    BY <1>1, Leftovers
  <2>2. <<"by", "ref", "sha">> \in Seq({"backend", "by", "ref", "sha"})
    OBVIOUS
  <2> QED
    BY <1>1, <2>1, <2>2 DEF LeftOver
<1>2. CASE l = <<"by", "ref", "sha">>
  <2>1. Tail(l) = <<"ref", "sha">>
    BY <1>2, Leftovers
  <2> QED
    BY <1>2, <2>1 DEF LeftOver
<1>3. CASE l = <<"ref", "sha">>
  <2>1. Tail(l) = <<"sha">>
    BY <1>3, Leftovers
  <2> QED
    BY <1>3, <2>1 DEF LeftOver
<1>4. CASE l = <<"sha">>
  <2>1. Len(l) = 1
    BY <1>4, Leftovers
  <2> QED
    BY <2>1
<1> QED
  BY <1>1, <1>2, <1>3, <1>4 DEF LeftOver

\* Each of the four writes of the provenance tags is such a step too.
LEMMA TagSteps ==
    ASSUME TypeInv, NEW p \in Procs, Tag(p)
    PROVE  \E c : StepTo(p, c)
<1> DEFINE l == call[p].left
           next == After(p, Side(p))
<1>1. call[p] \in Calls /\ Formed(call[p]) /\ call[p].pc = "tag"
      /\ UNCHANGED <<rows, taint, back, tip, past>>
  BY DEF TypeInv, Tag, At, envVars, histVars
<1>2. l \in LeftOver
  BY <1>1 DEF Formed
<1>3. \/ Len(l) > 1 /\ call' = [call EXCEPT ![p].left = Tail(@)]
      \/ /\ Len(l) = 1 /\ next # "done"
         /\ call' = [call EXCEPT ![p].left = <<>>, ![p].pc = next]
      \/ Len(l) = 1 /\ next = "done" /\ End(p)
  BY DEF Tag
<1>4. Len(l) = 1 => l = <<"sha">>
  BY <1>2, Leftovers DEF LeftOver
<1>5. /\ next \in {"candidate", "diff", "done"}
      /\ next = "candidate" => Side(p) < Len(call[p].refs)
      /\ next = "diff" => Side(p) = 2 /\ Len(call[p].refs) = 2
  BY <1>1, WorkingSide, AfterLabels DEF Working
<1>6. CASE Len(l) > 1 /\ call' = [call EXCEPT ![p].left = Tail(@)]
  <2> DEFINE c == [call[p] EXCEPT !.left = Tail(@)]
  <2>1. Tail(l) \in LeftOver /\ Tail(l) \in Seq({"backend", "by", "ref", "sha"})
        /\ l \in {TagKeys, <<"by", "ref", "sha">>, <<"ref", "sha">>}
    BY <1>2, <1>6, TailLeft
  <2>2. call' = [call EXCEPT ![p] = c]
    BY <1>6
  <2>3. c \in Calls /\ c.left = Tail(l) /\ c.pc = "tag" /\ Same(p, c)
    BY <1>1, <2>1 DEF Calls, Same
  <2> HIDE DEF c
  <2>4. Formed(c)
    BY <1>1, <2>1, <2>3 DEF Formed, Same, Working
  <2>5. TagTo(p, c)
    BY <1>1, <1>2, <2>1, <2>3, TagWrites, Leftovers DEF TagTo, At
  <2> QED
    BY <1>1, <2>2, <2>3, <2>4, <2>5 DEF StepTo, Moves
<1>7. CASE /\ Len(l) = 1 /\ next # "done"
           /\ call' = [call EXCEPT ![p].left = <<>>, ![p].pc = next]
  <2> DEFINE c == [call[p] EXCEPT !.left = <<>>, !.pc = next]
  <2>1. call' = [call EXCEPT ![p] = c]
    BY <1>7
  <2>2. next \in Labels /\ <<>> \in Seq({"backend", "by", "ref", "sha"})
    BY <1>5 DEF Labels
  <2> HIDE DEF next
  <2>3. c \in Calls /\ c.pc = next /\ Same(p, c)
    BY <1>1, <2>2 DEF Calls, Same
  <2> HIDE DEF c
  <2>4. Len(call[p].taken) = Side(p) /\ Side(p) \in Nat /\ Side(p) > 0
    BY <1>1, WorkingSide DEF Side, Working
  <2>5. call[p].into = None \/ Len(call[p].refs) < 2
    BY <1>1 DEF Formed
  <2>6. Formed(c)
    <3>1. CASE next = "candidate"
      <4>1. Len(call[p].refs) = 2
        <5> DEFINE m == Len(call[p].refs)
                   n == Side(p)
        <5>1. m \in {0, 1, 2} /\ n < m /\ n \in Nat /\ n > 0
          BY <1>1, <1>5, <2>4, <3>1 DEF Formed
        <5> HIDE DEF m, n
        <5>2. m = 2
          BY <5>1
        <5> QED
          BY <5>2 DEF m
      <4> QED
        BY <1>1, <1>5, <2>3, <2>4, <2>5, <3>1, <4>1 DEF Formed, Same, Working
    <3>2. CASE next = "diff"
      BY <1>1, <1>5, <2>3, <2>4, <2>5, <3>2 DEF Formed, Same, Working
    <3> QED
      BY <1>5, <1>7, <3>1, <3>2
  <2>7. TagTo(p, c)
    BY <1>1, <1>4, <1>5, <1>7, <2>3, TagWrites DEF TagTo, At
  <2> QED
    BY <1>1, <2>1, <2>3, <2>6, <2>7 DEF StepTo, Moves
<1>8. CASE Len(l) = 1 /\ next = "done" /\ End(p)
  <2>1. Moves(p, NoCall)
    BY <1>8, EndMoves
  <2>2. TagTo(p, NoCall)
    BY <1>1, <1>4, <1>8, TagWrites DEF TagTo, At
  <2> QED
    BY <1>1, <2>1, <2>2 DEF StepTo
<1> QED
  BY <1>3, <1>6, <1>7, <1>8

\* Every step of a call is of one of these kinds.
LEMMA Steps ==
    ASSUME TypeInv, NEW p \in Procs, Step(p)
    PROVE  \E c : StepTo(p, c)
<1>1. CASE BeginDiff(p) \/ BeginAtRef(p)
  BY <1>1, StartSteps DEF StepTo
<1>2. CASE DecideCandidate(p) \/ DecideFallback(p)
  BY <1>2, DecideSteps
<1> QED
  BY <1>1, <1>2, QuietSteps, ClearSteps, InsertSteps, TagSteps, CrashSteps DEF Step

-----------------------------------------------------------------------------
(* What every step of a call leaves alone.                                 *)

\* After a step of p, the others' calls are what they were.
LEMMA CallsAfter ==
    ASSUME TypeInv, NEW p \in Procs, NEW c, Moves(p, c)
    PROVE  /\ call' \in [Procs -> Calls] /\ call'[p] = c
           /\ \A q \in Procs : q # p => call'[q] = call[q]
           /\ \A q \in Procs : Formed(call'[q])
BY DEF Moves, TypeInv

\* a call works on the database it took last, and holds it
LEMMA WorkerHolds ==
    ASSUME TypeInv, NEW p \in Procs, call[p].pc \in Working
    PROVE  p \in Holders(Db(p))
<1>1. Side(p) \in Nat /\ Side(p) \in 1..Len(call[p].refs)
  BY WorkingSide
<1>2. Side(p) \in 1..Side(p)
  BY <1>1
<1> QED
  BY <1>2 DEF Holders, Db

\* Only the database a call has emptied, or is about to empty, changes; marks
\* are lost only by a rebuild nobody else holds, and two of them never.
LEMMA Frame ==
    ASSUME TypeInv, NEW p \in Procs, NEW c, StepTo(p, c), NEW d \in Dbs
    PROVE  /\ ~(call[p].pc \in {"clear", "insert", "tag"} /\ Db(p) = d) =>
                 rows'[d] = rows[d] /\ meta'[d] = meta[d] /\ taint[d] \subseteq taint'[d]
           /\ ~(call[p].pc = "tag") => meta'[d] = meta[d]
           /\ ~(call[p].pc \in {"clear", "insert"}) => rows'[d] = rows[d]
           /\ ~(call[p].pc = "clear") => taint[d] \subseteq taint'[d]
           /\ Holders(d) \ {p} # {} => taint[d] \subseteq taint'[d]
           /\ \A m \in {"overlap", "override"} : m \in taint[d] => m \in taint'[d]
           /\ back => back'
           /\ UNCHANGED <<tip, past>>
<1>1. rows \in [Dbs -> SUBSET Export] /\ meta \in [Dbs -> Metas] /\ taint \in [Dbs -> SUBSET Marks]
      /\ UNCHANGED <<tip, past>>
  BY DEF TypeInv, StepTo
<1>2. CASE StartTo(p, c)
  BY <1>1, <1>2 DEF StartTo, At
<1>3. CASE OccupiedTo(p, c)
  BY <1>1, <1>3 DEF OccupiedTo
<1>4. CASE QuietTo(p, c)
  BY <1>1, <1>4 DEF QuietTo, At
<1>5. CASE ClearTo(p, c)
  BY <1>1, <1>5, WorkingSide DEF ClearTo, At, Working, Overlap
<1>6. CASE InsertTo(p, c)
  BY <1>1, <1>6, WorkingSide DEF InsertTo, At, Working
<1>7. CASE TagTo(p, c)
  BY <1>1, <1>7 DEF TagTo, At
<1>8. CASE CrashTo(p, c)
  BY <1>1, <1>8, WorkingSide DEF CrashTo, At, Working
<1>9. ASSUME NEW b \in Dbs, TakeTo(p, c, b)
      PROVE  /\ rows' = rows /\ meta' = meta /\ taint[d] \subseteq taint'[d]
             /\ call[p].pc \in {"candidate", "fallback"} /\ (back => back')
  BY <1>1, <1>9 DEF TakeTo
<1>10. CASE \E b \in Dbs : TakeTo(p, c, b)
  BY <1>1, <1>9, <1>10
<1> QED
  BY <1>2, <1>3, <1>4, <1>5, <1>6, <1>7, <1>8, <1>10 DEF StepTo

-----------------------------------------------------------------------------
(* Types.                                                                  *)

\* The tags keep their types under each of their four writes.
LEMMA MetasAfter ==
    ASSUME TypeInv, NEW p \in Procs, Tag(p)
    PROVE  meta' \in [Dbs -> Metas]
<1> DEFINE l == call[p].left
           m == meta[Db(p)]
<1>1. call[p].pc = "tag" /\ call[p].left \in LeftOver /\ meta \in [Dbs -> Metas] /\ Db(p) \in Dbs
  BY WorkingSide DEF TypeInv, Formed, Tag, At, Working
<1>2. m \in Metas /\ call[p].backend \in Backends
      /\ call[p].refs[Side(p)] \in Refs /\ call[p].shas[Side(p)] \in Shas
  BY <1>1, WorkingSide DEF Working
<1>3. /\ l = TagKeys => meta'[Db(p)] = [m EXCEPT !.backend = call[p].backend]
      /\ l = <<"by", "ref", "sha">> => meta'[Db(p)] = [m EXCEPT !.by = "branch-diff"]
      /\ l = <<"ref", "sha">> => meta'[Db(p)] = [m EXCEPT !.ref = call[p].refs[Side(p)]]
      /\ l = <<"sha">> => meta'[Db(p)] = [m EXCEPT !.sha = call[p].shas[Side(p)]]
  BY TagWrites
<1> HIDE DEF m, l
<1>4. /\ [m EXCEPT !.backend = call[p].backend] \in Metas
      /\ [m EXCEPT !.by = "branch-diff"] \in Metas
      /\ [m EXCEPT !.ref = call[p].refs[Side(p)]] \in Metas
      /\ [m EXCEPT !.sha = call[p].shas[Side(p)]] \in Metas
  BY <1>2 DEF Metas
<1>5. meta'[Db(p)] \in Metas
  BY <1>1, <1>3, <1>4 DEF LeftOver, l
<1>6. meta' = [meta EXCEPT ![Db(p)] = meta'[Db(p)]]
  <2>1. meta' = [meta EXCEPT ![Db(p)] = [m EXCEPT ![Head(l)] = TagValue(p, Head(l))]]
    BY DEF Tag, m, l
  <2> QED
    BY <1>1, <2>1
<1> QED
  BY <1>1, <1>5, <1>6

\* Every step of a call preserves the types.
LEMMA TypeStep ==
    ASSUME TypeInv, NEW p \in Procs, Step(p)
    PROVE  TypeInv'
<1> PICK c : StepTo(p, c)
  BY Steps
<1>1. /\ rows \in [Dbs -> SUBSET Export] /\ meta \in [Dbs -> Metas]
      /\ taint \in [Dbs -> SUBSET Marks] /\ back \in BOOLEAN
      /\ tip \in [Refs -> Shas] /\ past \in [Refs -> SUBSET Shas]
      /\ calls \in Nat /\ moves \in Nat /\ indexed \in Nat
  BY DEF TypeInv
<1>2. call' \in [Procs -> Calls] /\ \A q \in Procs : Formed(call'[q])
  BY CallsAfter DEF StepTo
<1>3. calls' \in Nat /\ moves' \in Nat /\ indexed' \in Nat /\ tip' = tip /\ past' = past
  <2>1. CASE BeginDiff(p) \/ BeginAtRef(p)
    <3>1. \A l, refs, k, into :
             Start(p, l, refs, k, into) => calls' = calls + 1 /\ UNCHANGED envVars
      BY DEF Start
    <3>2. calls' = calls + 1 /\ UNCHANGED envVars
      BY <2>1, <3>1 DEF BeginDiff, BeginAtRef
    <3> QED
      BY <1>1, <3>2 DEF envVars
  <2>2. CASE DecideCandidate(p) \/ DecideFallback(p)
    BY <1>1, <2>2 DEF DecideCandidate, DecideFallback, Decide, envVars
  <2>3. CASE ExportRef(p) \/ Clear(p) \/ Insert(p) \/ Tag(p) \/ Finish(p) \/ Crash(p)
    BY <1>1, <2>3 DEF ExportRef, Clear, Insert, Tag, Finish, Crash, envVars
  <2> QED
    BY <2>1, <2>2, <2>3 DEF Step
<1>4. meta' \in [Dbs -> Metas]
  BY <1>1, MetasAfter DEF Step, BeginDiff, BeginAtRef, Start, DecideCandidate, DecideFallback,
          Decide, ExportRef, Clear, Insert, Finish, Crash, dbVars
<1>5. rows' \in [Dbs -> SUBSET Export] /\ taint' \in [Dbs -> SUBSET Marks] /\ back' \in BOOLEAN
  <2>1. \A d : Overlap(p, d) \subseteq Marks
    BY DEF Overlap, Marks
  <2>2. call[p].pc \in Working => Want(p, Side(p)) \in Export
    BY WorkingSide DEF Want, Export
  <2>3. CASE StartTo(p, c)
    BY <1>1, <2>1, <2>3 DEF StartTo
  <2>4. CASE OccupiedTo(p, c)
    <3>1. back' \in BOOLEAN
      BY <1>1, <2>4 DEF OccupiedTo
    <3> QED
      BY <1>1, <2>4, <3>1 DEF OccupiedTo
  <2>5. CASE QuietTo(p, c)
    BY <1>1, <2>5 DEF QuietTo
  <2>6. CASE ClearTo(p, c)
    BY <1>1, <2>6 DEF ClearTo
  <2>7. CASE InsertTo(p, c)
    BY <1>1, <2>2, <2>7 DEF InsertTo, At, Working
  <2>8. CASE TagTo(p, c)
    BY <1>1, <2>8 DEF TagTo
  <2>9. CASE CrashTo(p, c)
    BY <1>1, <2>9 DEF CrashTo, Marks
  <2>10. CASE \E b \in Dbs : TakeTo(p, c, b)
    BY <1>1, <2>1, <2>10 DEF TakeTo
  <2> QED
    BY <2>3, <2>4, <2>5, <2>6, <2>7, <2>8, <2>9, <2>10 DEF StepTo
<1> QED
  BY <1>1, <1>2, <1>3, <1>4, <1>5 DEF TypeInv

\* What the user and the repository change: a ref keeps its old commits in
\* its past, and an indexed database is marked and keeps its tag.
LEMMA EnvFrame ==
    ASSUME TypeInv, Move \/ UserIndex
    PROVE  /\ TypeInv' /\ UNCHANGED <<call, back>>
           /\ \A r \in Refs : past[r] \subseteq past'[r] /\ (tip'[r] = tip[r] \/ tip[r] \in past'[r])
           /\ \A d \in Dbs :
                 \/ rows'[d] = rows[d] /\ meta'[d] = meta[d] /\ taint'[d] = taint[d]
                 \/ /\ "user" \in taint'[d] /\ taint[d] \subseteq taint'[d]
                    /\ taint'[d] \subseteq taint[d] \cup {"user", "raced"}
                    /\ Holders(d) # {} => "raced" \in taint'[d]
                    /\ meta'[d].by = meta[d].by /\ meta'[d].ref = meta[d].ref
                    /\ meta'[d].sha = meta[d].sha
<1>1. /\ rows \in [Dbs -> SUBSET Export] /\ meta \in [Dbs -> Metas]
      /\ taint \in [Dbs -> SUBSET Marks] /\ tip \in [Refs -> Shas]
      /\ past \in [Refs -> SUBSET Shas] /\ moves \in Nat /\ indexed \in Nat
  BY DEF TypeInv
<1>2. CASE Move
  <2>1. /\ UNCHANGED <<rows, meta, indexed, call, calls, taint, back>> /\ moves' \in Nat
        /\ tip' \in [Refs -> Shas] /\ past' \in [Refs -> SUBSET Shas]
    BY <1>1, <1>2 DEF Move, dbVars, histVars
  <2>2. \A r \in Refs : past[r] \subseteq past'[r] /\ (tip'[r] = tip[r] \/ tip[r] \in past'[r])
    BY <1>1, <1>2 DEF Move
  <2>3. TypeInv'
    BY <2>1 DEF TypeInv
  <2> QED
    BY <2>1, <2>2, <2>3
<1>3. CASE UserIndex
  <2> PICK r \in Refs, k \in Backends :
        LET d == DbOf[r]
            new == {[from |-> WorkTree, backend |-> k]}
        IN  /\ \/ /\ meta' = [meta EXCEPT ![d].backend = k]
                  /\ rows' = [rows EXCEPT ![d] = new] \/ rows' = [rows EXCEPT ![d] = @ \cup new]
               \/ /\ k = Recorded(meta[d])
                  /\ rows' = [rows EXCEPT ![d] = @ \cup new]
                  /\ UNCHANGED meta
            /\ taint' = [taint EXCEPT ![d] =
                            @ \cup {"user"} \cup IF Holders(d) # {} THEN {"raced"} ELSE {}]
    BY <1>3 DEF UserIndex
  <2> DEFINE b == DbOf[r]
             m == [meta[b] EXCEPT !.backend = k]
             new == {[from |-> WorkTree, backend |-> k]}
             marks == taint[b] \cup {"user"} \cup IF Holders(b) # {} THEN {"raced"} ELSE {}
  <2>1. b \in Dbs /\ new \subseteq Export /\ meta[b] \in Metas
    BY <1>1, ProvisionAssumption DEF Export
  <2>2. m \in Metas /\ m.by = meta[b].by /\ m.ref = meta[b].ref /\ m.sha = meta[b].sha
    BY <2>1 DEF Metas
  <2>3. meta' = [meta EXCEPT ![b] = m] \/ meta' = meta
    OBVIOUS
  <2>4. rows' = [rows EXCEPT ![b] = new] \/ rows' = [rows EXCEPT ![b] = @ \cup new]
    OBVIOUS
  <2>5. taint' = [taint EXCEPT ![b] = marks]
    OBVIOUS
  <2>6. marks \in SUBSET Marks /\ "user" \in marks /\ taint[b] \subseteq marks
        /\ marks \subseteq taint[b] \cup {"user", "raced"} /\ (Holders(b) # {} => "raced" \in marks)
    BY <1>1, <2>1 DEF Marks
  <2>7. UNCHANGED <<tip, past, moves, call, calls, back>> /\ indexed' \in Nat
    BY <1>1, <1>3 DEF UserIndex
  <2> HIDE DEF b, m, new, marks
  <2>8. /\ meta' \in [Dbs -> Metas] /\ rows' \in [Dbs -> SUBSET Export]
        /\ taint' \in [Dbs -> SUBSET Marks]
    <3>1. meta' \in [Dbs -> Metas]
      BY <1>1, <2>1, <2>2, <2>3
    <3>2. rows' \in [Dbs -> SUBSET Export]
      BY <1>1, <2>1, <2>4
    <3>3. taint' \in [Dbs -> SUBSET Marks]
      BY <1>1, <2>1, <2>5, <2>6
    <3> QED
      BY <3>1, <3>2, <3>3
  <2>9. TypeInv'
    BY <2>7, <2>8 DEF TypeInv
  <2>10. ASSUME NEW d \in Dbs
         PROVE  \/ rows'[d] = rows[d] /\ meta'[d] = meta[d] /\ taint'[d] = taint[d]
                \/ /\ "user" \in taint'[d] /\ taint[d] \subseteq taint'[d]
                   /\ taint'[d] \subseteq taint[d] \cup {"user", "raced"}
                   /\ Holders(d) # {} => "raced" \in taint'[d]
                   /\ meta'[d].by = meta[d].by /\ meta'[d].ref = meta[d].ref
                   /\ meta'[d].sha = meta[d].sha
    <3>1. CASE d = b
      BY <1>1, <2>1, <2>2, <2>3, <2>5, <2>6, <3>1
    <3>2. CASE d # b
      BY <1>1, <2>3, <2>4, <2>5, <3>2
    <3> QED
      BY <3>1, <3>2
  <2> QED
    BY <2>7, <2>9, <2>10
<1> QED
  BY <1>2, <1>3

-----------------------------------------------------------------------------
(* The invariant in the first states.                                      *)

\* The databases and tags that earlier calls can have left satisfy the invariant.
LEMMA InitInv == Init => Inv
<1> SUFFICES ASSUME Init PROVE Inv
  OBVIOUS
<1> PICK was \in [Dbs -> UNION {Earlier(d) : d \in Dbs}] :
      /\ \A d \in Dbs : was[d] \in Earlier(d)
      /\ rows = [d \in Dbs |-> was[d].rows]
      /\ meta = [d \in Dbs |-> was[d].meta]
      /\ past = [r \in Refs |-> {was[d].meta.sha : d \in {b \in Dbs : was[b].meta.ref = r}} \ {tip[r]}]
  BY DEF Init
<1>1. ASSUME NEW d \in Dbs
      PROVE  \/ rows[d] \in SUBSET Export /\ meta[d] \in Metas /\ meta[d].by = None
                /\ meta[d].ref = None /\ meta[d].sha = None
             \/ \E r \in Refs, s \in Shas, k \in Backends :
                   /\ rows[d] = {[from |-> s, backend |-> k]}
                   /\ meta[d] = [by |-> "branch-diff", ref |-> r, sha |-> s, backend |-> k]
  <2>1. rows[d] = was[d].rows /\ meta[d] = was[d].meta /\ was[d] \in Earlier(d)
    OBVIOUS
  <2>2. CASE was[d] = Fresh
    BY <2>1, <2>2 DEF Fresh, Untagged, Metas
  <2>3. CASE was[d] = Owned
    BY <2>1, <2>3, ProvisionAssumption DEF Owned, Untagged, Metas, Export
  <2>4. CASE \E r \in Refs, s \in Shas, k \in Backends : was[d] = Taken(r, s, k)
    BY <2>1, <2>4 DEF Taken
  <2>5. was[d] = Fresh \/ was[d] = Owned \/ \E r \in Refs, s \in Shas, k \in Backends : was[d] = Taken(r, s, k)
    BY <2>1 DEF Earlier
  <2> QED
    BY <2>2, <2>3, <2>4, <2>5
<1>2. /\ tip \in [Refs -> Shas] /\ call = [p \in Procs |-> NoCall] /\ calls = 0 /\ moves = 0
      /\ indexed = 0 /\ taint = [d \in Dbs |-> {}] /\ back = FALSE
  BY DEF Init
<1>3. ASSUME NEW d \in Dbs
      PROVE  /\ rows[d] \in SUBSET Export /\ meta[d] \in Metas
             /\ meta[d].by = None => meta[d].ref = None
             /\ meta[d].ref = None => meta[d].sha = None
             /\ meta[d].ref # None =>
                  /\ meta[d].sha \in Shas /\ meta[d].by = "branch-diff"
                  /\ rows[d] = {[from |-> meta[d].sha, backend |-> Recorded(meta[d])]}
  <2>1. CASE /\ rows[d] \in SUBSET Export /\ meta[d] \in Metas /\ meta[d].by = None
             /\ meta[d].ref = None /\ meta[d].sha = None
    BY <2>1
  <2>2. ASSUME NEW r \in Refs, NEW s \in Shas, NEW k \in Backends,
               rows[d] = {[from |-> s, backend |-> k]},
               meta[d] = [by |-> "branch-diff", ref |-> r, sha |-> s, backend |-> k]
        PROVE  /\ rows[d] \in SUBSET Export /\ meta[d] \in Metas /\ meta[d].ref # None
               /\ meta[d].by = "branch-diff" /\ meta[d].by # None /\ meta[d].sha \in Shas
               /\ rows[d] = {[from |-> meta[d].sha, backend |-> Recorded(meta[d])]}
    <3>1. [from |-> s, backend |-> k] \in Export /\ meta[d] \in Metas
      BY <2>2 DEF Export, Metas
    <3>2. /\ meta[d].ref = r /\ meta[d].sha = s /\ meta[d].by = "branch-diff" /\ meta[d].backend = k
          /\ r # None /\ k # None
      BY <2>2, ProvisionAssumption
    <3>3. meta[d].by # None
      BY <3>2, ProvisionAssumption
    <3> QED
      BY <2>2, <3>1, <3>2, <3>3 DEF Recorded
  <2>3. CASE \E r \in Refs, s \in Shas, k \in Backends :
               /\ rows[d] = {[from |-> s, backend |-> k]}
               /\ meta[d] = [by |-> "branch-diff", ref |-> r, sha |-> s, backend |-> k]
    <3> PICK r \in Refs, s \in Shas, k \in Backends :
               /\ rows[d] = {[from |-> s, backend |-> k]}
               /\ meta[d] = [by |-> "branch-diff", ref |-> r, sha |-> s, backend |-> k]
      BY <2>3
    <3>1. /\ rows[d] \in SUBSET Export /\ meta[d] \in Metas /\ meta[d].ref # None
          /\ meta[d].by = "branch-diff" /\ meta[d].by # None /\ meta[d].sha \in Shas
          /\ rows[d] = {[from |-> meta[d].sha, backend |-> Recorded(meta[d])]}
      BY <2>2
    <3> QED
      BY <3>1
  <2> QED
    BY <1>1, <2>1, <2>3
<1>4. \A d \in Dbs : meta[d].ref # None => meta[d].sha \in Shas /\ meta[d].by = "branch-diff"
                                         /\ rows[d] = {[from |-> meta[d].sha, backend |-> Recorded(meta[d])]}
  BY <1>3
<1>5. past \in [Refs -> SUBSET Shas]
  <2>1. \A d \in Dbs : was[d].meta = meta[d]
    OBVIOUS
  <2>2. \A r \in Refs : \A d \in Dbs : was[d].meta.ref = r => was[d].meta.sha \in Shas
    BY <1>4, <2>1, ProvisionAssumption
  <2> QED
    BY <2>2
<1>6. \A d \in Dbs : meta[d].ref \in Refs => Known(meta[d].ref, meta[d].sha)
  <2>1. \A d \in Dbs : was[d].meta = meta[d]
    OBVIOUS
  <2> QED
    BY <2>1 DEF Known
<1>7. \A p \in Procs : call[p] = NoCall
  BY <1>2
<1>8. NoCall \in Calls /\ Formed(NoCall) /\ NoCall.pc = "idle" /\ Len(NoCall.refs) = 0
      /\ NoCall.taken = <<>> /\ Len(NoCall.taken) = 0
  BY NoCallFormed DEF NoCall
<1>9. TypeInv
  <2>1. rows \in [Dbs -> SUBSET Export] /\ meta \in [Dbs -> Metas]
    BY <1>3
  <2> QED
    BY <1>2, <1>5, <1>7, <1>8, <2>1 DEF TypeInv
<1>10. \A d \in Dbs : Holders(d) = {}
  BY <1>7, <1>8 DEF Holders, Side
<1>11. OneHolder
  BY <1>10 DEF OneHolder
<1>12. Resolved
  BY <1>7, <1>8 DEF Resolved
<1>13. TagsKnown
  <2>1. \A d \in Dbs : /\ meta[d].by = None => meta[d].ref = None
                       /\ meta[d].ref = None => meta[d].sha = None
    BY <1>3
  <2> QED
    BY <1>3, <1>6, <2>1 DEF TagsKnown, Metas
<1>14. Writing /\ Leaving /\ Filled /\ Claimed
  BY <1>7, <1>8 DEF Writing, Leaving, Filled, Claimed, Filling, At, Working
<1>15. Stored
  BY <1>4 DEF Stored
<1>16. Sided
  BY <1>7, <1>8 DEF Sided, Settled, Side, Working
<1> QED
  BY <1>9, <1>11, <1>12, <1>13, <1>14, <1>15, <1>16 DEF Inv

-----------------------------------------------------------------------------
(* The invariant when the user or the repository takes a step.             *)

\* Moving refs and indexing by the user preserve the invariant.
LEMMA EnvKeeps ==
    ASSUME Inv, Move \/ UserIndex
    PROVE  Inv'
<1>1. TypeInv /\ OneHolder /\ Resolved /\ TagsKnown /\ Writing /\ Leaving /\ Filled /\ Stored
      /\ Sided /\ Claimed
  BY DEF Inv
<1>2. /\ TypeInv' /\ call' = call /\ back' = back
      /\ \A r \in Refs : past[r] \subseteq past'[r] /\ (tip'[r] = tip[r] \/ tip[r] \in past'[r])
  BY <1>1, EnvFrame
<1>3. \A d \in Dbs :
        \/ rows'[d] = rows[d] /\ meta'[d] = meta[d] /\ taint'[d] = taint[d]
        \/ /\ "user" \in taint'[d] /\ taint[d] \subseteq taint'[d]
           /\ taint'[d] \subseteq taint[d] \cup {"user", "raced"}
           /\ Holders(d) # {} => "raced" \in taint'[d]
           /\ meta'[d].by = meta[d].by /\ meta'[d].ref = meta[d].ref
           /\ meta'[d].sha = meta[d].sha
  BY <1>1, EnvFrame
<1>4. /\ \A d : Holders(d)' = Holders(d)
      /\ \A p \in Procs : /\ Side(p)' = Side(p) /\ Db(p)' = Db(p) /\ Settled(p)' = Settled(p)
                         /\ \A d : Filling(p, d)' = Filling(p, d)
                         /\ \A i : Want(p, i)' = Want(p, i)
                         /\ \A l : At(p, l)' = At(p, l)
  BY <1>2 DEF Holders, Side, Db, Settled, Filling, Want, At
<1>5. \A d \in Dbs : /\ Overlapped(d)' = Overlapped(d)
                     /\ "override" \in taint'[d] <=> "override" \in taint[d]
                     /\ meta'[d].by = meta[d].by /\ meta'[d].ref = meta[d].ref
                     /\ meta'[d].sha = meta[d].sha
  BY <1>3 DEF Overlapped
<1>6. \A p \in Procs : call[p].pc \in Working => /\ Db(p) \in Dbs
                                                /\ call[p].refs[Side(p)] \in Refs
                                                /\ Holders(Db(p)) # {}
  BY <1>1, WorkingSide, WorkerHolds
<1>7. \A r \in Refs : \A s : Known(r, s) => Known(r, s)'
  BY <1>2 DEF Known
<1>8. OneHolder'
  BY <1>1, <1>4, <1>5 DEF OneHolder
<1>9. Resolved'
  <2>1. \A p \in Procs : \A i \in 1..Len(call[p].refs) : call[p].refs[i] \in Refs
    BY <1>1 DEF TypeInv, Calls
  <2> QED
    BY <1>1, <1>2, <1>7, <2>1 DEF Resolved
<1>10. TagsKnown'
  <2>1. \A d \in Dbs : meta[d].ref # None => meta[d].ref \in Refs
    BY <1>1 DEF TypeInv, Metas
  <2> QED
    BY <1>1, <1>2, <1>4, <1>5, <1>7, <2>1 DEF TagsKnown
<1>11. Writing'
  <2>1. \A d \in Dbs : "user" \notin taint'[d] => meta'[d] = meta[d] /\ "user" \notin taint[d]
    BY <1>3
  <2> QED
    BY <1>1, <1>2, <1>4, <1>5, <1>6, <2>1 DEF Writing, At, Working
<1>12. Leaving'
  BY <1>1, <1>2, <1>4, <1>5, <1>6 DEF Leaving
<1>13. Filled'
  <2>1. \A d \in Dbs : taint'[d] \cap {"user", "overlap"} = {} =>
                         rows'[d] = rows[d] /\ taint[d] \cap {"user", "overlap"} = {}
    BY <1>3
  <2> QED
    BY <1>1, <1>4, <2>1 DEF Filled
<1>14. Stored'
  <2>1. \A d \in Dbs : taint'[d] \subseteq {"crash"} =>
                         rows'[d] = rows[d] /\ meta'[d] = meta[d] /\ taint'[d] = taint[d]
    BY <1>3
  <2>2. \A d \in Dbs : meta[d].ref # None => meta[d].ref \in Refs
    BY <1>1 DEF TypeInv, Metas
  <2> QED
    BY <1>1, <1>2, <1>4, <2>1, <2>2 DEF Stored
<1>15. Sided'
  <2>1. \A d \in Dbs : Undisturbed(d)' => rows'[d] = rows[d] /\ Undisturbed(d)
    BY <1>2, <1>3 DEF Undisturbed
  <2>2. \A p \in Procs : \A i \in Settled(p) : call[p].taken[i] \in Dbs
    <3> TAKE p \in Procs
    <3>1. call[p].taken \in Seq(Dbs) /\ Side(p) \in Nat
      BY <1>1 DEF TypeInv, Calls, Side
    <3> QED
      BY <3>1 DEF Settled, Side
  <2> QED
    BY <1>1, <1>2, <1>4, <1>5, <2>1, <2>2 DEF Sided
<1>16. Claimed'
  <2>1. \A d \in Dbs : \/ rows'[d] = rows[d] /\ taint'[d] = taint[d]
                       \/ taint[d] \subseteq taint'[d] /\ (Holders(d) # {} => "raced" \in taint'[d])
    BY <1>3
  <2> QED
    BY <1>1, <1>2, <1>4, <1>5, <1>6, <2>1 DEF Claimed, Working
<1> QED
  BY <1>2, <1>8, <1>9, <1>10, <1>11, <1>12, <1>13, <1>14, <1>15, <1>16 DEF Inv

-----------------------------------------------------------------------------
(* The invariant when a call takes a step, part by part.                   *)

\* Who holds a database afterwards: nobody new but p, which marks what
\* another call holds.
LEMMA HoldersAfter ==
    ASSUME TypeInv, NEW p \in Procs, NEW c, StepTo(p, c), NEW d \in Dbs
    PROVE  /\ \A q \in Procs \ {p} : q \in Holders(d)' <=> q \in Holders(d)
           /\ Holders(d)' \subseteq Procs
           /\ \/ p \notin Holders(d)' \/ p \in Holders(d)
              \/ taint'[d] = taint[d] \cup Overlap(p, d)
<1>1. /\ call' \in [Procs -> Calls] /\ call'[p] = c
      /\ \A q \in Procs : q # p => call'[q] = call[q]
  BY CallsAfter DEF StepTo
<1>2. \A q \in Procs \ {p} : q \in Holders(d)' <=> q \in Holders(d)
  BY <1>1 DEF Holders, Side
<1>3. Holders(d)' \subseteq Procs
  BY DEF Holders
<1>4. p \in Holders(d)' => \E i \in 1..Len(c.taken) : c.taken[i] = d
  BY <1>1 DEF Holders, Side
<1>5. c.taken = call[p].taken /\ p \in Holders(d)' => p \in Holders(d)
  BY <1>4 DEF Holders, Side
<1>6. c = NoCall => p \notin Holders(d)'
  <2>1. Len(NoCall.taken) = 0
    BY DEF NoCall
  <2> QED
    BY <1>4, <2>1
<1>7. CASE StartTo(p, c)
  <2>1. CASE c.taken = <<>>
    BY <1>2, <1>3, <1>4, <2>1
  <2>2. ASSUME NEW b \in Dbs, c.taken = <<b>>, taint' = [taint EXCEPT ![b] = @ \cup Overlap(p, b)]
        PROVE  p \notin Holders(d)' \/ taint'[d] = taint[d] \cup Overlap(p, d)
    <3>1. p \in Holders(d)' => b = d
      BY <1>4, <2>2
    <3>2. taint \in [Dbs -> SUBSET Marks]
      BY DEF TypeInv
    <3> QED
      BY <2>2, <3>1, <3>2
  <2> QED
    BY <1>2, <1>3, <1>7, <2>1, <2>2 DEF StartTo
<1>8. CASE OccupiedTo(p, c) \/ QuietTo(p, c) \/ ClearTo(p, c) \/ InsertTo(p, c)
           \/ TagTo(p, c) \/ CrashTo(p, c)
  <2>1. c.taken = call[p].taken \/ c = NoCall
    BY <1>8 DEF OccupiedTo, QuietTo, ClearTo, InsertTo, TagTo, CrashTo, Same
  <2> QED
    BY <1>2, <1>3, <1>5, <1>6, <2>1
<1>9. ASSUME NEW b \in Dbs, TakeTo(p, c, b)
      PROVE  \/ p \notin Holders(d)' \/ p \in Holders(d)
             \/ taint'[d] = taint[d] \cup Overlap(p, d)
  <2>1. call[p].taken \in Seq(Dbs) /\ c.taken = Append(call[p].taken, b)
    BY <1>9 DEF TakeTo, TypeInv, Calls
  <2>2. ASSUME NEW i \in 1..Len(c.taken), c.taken[i] = d
        PROVE  d = b \/ p \in Holders(d)
    BY <2>1, <2>2 DEF Holders, Side
  <2>3. taint \in [Dbs -> SUBSET Marks] /\ taint' = [taint EXCEPT ![b] = @ \cup Overlap(p, b)]
    BY <1>9 DEF TakeTo, TypeInv
  <2> QED
    BY <1>4, <2>2, <2>3
<1> QED
  BY <1>2, <1>3, <1>7, <1>8, <1>9 DEF StepTo

\* A step that brings a second call to a database marks it.
LEMMA OneHolderStep ==
    ASSUME Inv, NEW p \in Procs, NEW c, StepTo(p, c)
    PROVE  OneHolder'
<1>1. TypeInv /\ OneHolder
  BY DEF Inv
<1> SUFFICES ASSUME NEW d \in Dbs, ~Overlapped(d)',
                    NEW a \in Holders(d)', NEW b \in Holders(d)'
             PROVE  a = b
  BY DEF OneHolder
<1>2. ~Overlapped(d)
  BY <1>1, Frame DEF Overlapped
<1>3. \A q, r \in Holders(d) : q = r
  BY <1>1, <1>2 DEF OneHolder
<1>4. /\ \A q \in Procs \ {p} : q \in Holders(d)' <=> q \in Holders(d)
      /\ Holders(d)' \subseteq Procs
      /\ \/ p \notin Holders(d)' \/ p \in Holders(d)
         \/ taint'[d] = taint[d] \cup Overlap(p, d)
  BY <1>1, HoldersAfter
<1>5. taint'[d] = taint[d] \cup Overlap(p, d) => Holders(d) \ {p} = {}
  BY DEF Overlapped, Overlap
<1> QED
  BY <1>3, <1>4, <1>5

\* A call's commits, and those of the tags, have been its ref's.
LEMMA ResolvedStep ==
    ASSUME Inv, NEW p \in Procs, NEW c, StepTo(p, c)
    PROVE  Resolved'
<1>1. TypeInv /\ Resolved
  BY DEF Inv
<1>2. /\ call' \in [Procs -> Calls] /\ call'[p] = c
      /\ \A q \in Procs : q # p => call'[q] = call[q]
      /\ tip' = tip /\ past' = past
  BY <1>1, CallsAfter DEF StepTo
<1>3. \/ c.refs = call[p].refs /\ c.shas = call[p].shas
      \/ Len(c.refs) = 0
      \/ \A i \in 1..Len(c.refs) : c.shas[i] = tip[c.refs[i]]
  <2>1. Len(NoCall.refs) = 0
    BY DEF NoCall
  <2> QED
    BY <2>1 DEF StepTo, StartTo, OccupiedTo, QuietTo, ClearTo, InsertTo, TagTo, CrashTo, TakeTo, Same
<1>4. /\ \A i \in 1..Len(c.refs) : Known(c.refs[i], c.shas[i])
      /\ \A i, j \in 1..Len(c.refs) : c.refs[i] = c.refs[j] => c.shas[i] = c.shas[j]
  <2>1. CASE c.refs = call[p].refs /\ c.shas = call[p].shas
    BY <1>1, <2>1 DEF Resolved
  <2>2. CASE Len(c.refs) = 0
    BY <2>2
  <2>3. CASE \A i \in 1..Len(c.refs) : c.shas[i] = tip[c.refs[i]]
    BY <2>3 DEF Known
  <2> QED
    BY <1>3, <2>1, <2>2, <2>3
<1>5. \A r, s : Known(r, s)' <=> Known(r, s)
  BY <1>2 DEF Known
<1>6. ASSUME NEW q \in Procs
      PROVE  /\ \A i \in 1..Len(call'[q].refs) : Known(call'[q].refs[i], call'[q].shas[i])
             /\ \A i, j \in 1..Len(call'[q].refs) :
                   call'[q].refs[i] = call'[q].refs[j] => call'[q].shas[i] = call'[q].shas[j]
  <2>1. CASE q = p
    BY <1>2, <1>4, <2>1
  <2>2. CASE q # p
    BY <1>1, <1>2, <2>2 DEF Resolved
  <2> QED
    BY <2>1, <2>2
<1> QED
  BY <1>5, <1>6 DEF Resolved

\* What another call holds keeps its rows, its tag and its marks, unless the
\* two overlap on it.
LEMMA Foreign ==
    ASSUME Inv, NEW p \in Procs, NEW c, StepTo(p, c),
           NEW q \in Procs \ {p}, NEW d \in Dbs, q \in Holders(d)
    PROVE  /\ taint[d] \subseteq taint'[d] /\ call'[q] = call[q]
           /\ ~Overlapped(d) => rows'[d] = rows[d] /\ meta'[d] = meta[d]
<1>1. TypeInv /\ OneHolder
  BY DEF Inv
<1>2. taint[d] \subseteq taint'[d] /\ call'[q] = call[q]
  BY <1>1, Frame, CallsAfter DEF StepTo
<1>3. call[p].pc \in {"clear", "insert", "tag"} /\ Db(p) = d => Overlapped(d)
  <2>1. call[p].pc \in {"clear", "insert", "tag"} /\ Db(p) = d => p \in Holders(d)
    BY <1>1, WorkerHolds DEF Working
  <2> QED
    BY <1>1, <2>1 DEF OneHolder
<1> QED
  BY <1>1, <1>2, <1>3, Frame

\* where a call that writes a database came from
LEMMA Writers ==
    ASSUME TypeInv, NEW p \in Procs, NEW c, StepTo(p, c), c.pc \in {"insert", "tag"}
    PROVE  /\ Same(p, c) /\ Db(p)' = Db(p) /\ Side(p)' = Side(p) /\ Db(p) \in Dbs
           /\ call[p].pc \in {"clear", "insert", "tag"}
           /\ call[p].pc = "clear" => ClearTo(p, c) /\ c.pc = "insert"
           /\ call[p].pc = "insert" => InsertTo(p, c) /\ c.pc = "tag" /\ c.left = TagKeys
           /\ call[p].pc = "tag" => TagTo(p, c) /\ c.pc = "tag"
<1>1. call'[p] = c
  BY CallsAfter DEF StepTo
<1>2. NoCall.pc = "idle"
  BY DEF NoCall
<1>3. \/ ClearTo(p, c) /\ c.pc = "insert" /\ call[p].pc = "clear"
      \/ InsertTo(p, c) /\ c.pc = "tag" /\ call[p].pc = "insert" /\ c.left = TagKeys
      \/ TagTo(p, c) /\ c.pc = "tag" /\ call[p].pc = "tag"
  BY <1>2 DEF StepTo, StartTo, OccupiedTo, QuietTo, ClearTo, InsertTo, TagTo, CrashTo, TakeTo, At
<1>4. Same(p, c)
  BY <1>2, <1>3 DEF ClearTo, InsertTo, TagTo
<1>5. Db(p)' = Db(p) /\ Side(p)' = Side(p)
  BY <1>1, <1>4 DEF Db, Side, Same
<1> QED
  BY <1>3, <1>4, <1>5, WorkingSide DEF Working

\* Keys are written in an order, each once those before it are there.
LEMMA KeyOrder ==
    ASSUME Inv, NEW p \in Procs, NEW c, StepTo(p, c), NEW d \in Dbs
    PROVE  /\ meta'[d].by = None => meta[d].by = None /\ meta'[d].ref = None
           /\ meta'[d].ref = None => meta[d].ref = None /\ meta'[d].sha = None
<1>1. TypeInv /\ TagsKnown /\ Writing
  BY DEF Inv
<1>2. /\ meta[d].by = None => meta[d].ref = None
      /\ meta[d].ref = None => meta[d].sha = None
  BY <1>1 DEF TagsKnown
<1>3. CASE meta'[d] = meta[d]
  BY <1>2, <1>3
<1>4. CASE call[p].pc = "tag" /\ Db(p) = d /\ meta'[d] # meta[d]
  <2> DEFINE l == call[p].left
             m == meta[d]
             r == call[p].refs[Side(p)]
             s == call[p].shas[Side(p)]
  <2>1. TagTo(p, c)
    BY <1>4 DEF StepTo, StartTo, OccupiedTo, QuietTo, ClearTo, InsertTo, CrashTo, TakeTo, At
  <2>2. m \in Metas /\ r \in Refs /\ r # None /\ "branch-diff" # None
    BY <1>1, <1>4, WorkingSide, ProvisionAssumption DEF TypeInv, Working
  <2>3. /\ (l \in {<<"ref", "sha">>, <<"sha">>}) => m.by = "branch-diff"
        /\ l = <<"sha">> => m.ref # None
    BY <1>1, <1>4 DEF Writing, At
  <2>4. \/ meta'[d] = [m EXCEPT !.backend = call[p].backend]
        \/ meta'[d] = [m EXCEPT !.by = "branch-diff"]
        \/ l = <<"ref", "sha">> /\ meta'[d] = [m EXCEPT !.ref = r]
        \/ l = <<"sha">> /\ meta'[d] = [m EXCEPT !.sha = s]
    BY <1>4, <2>1 DEF TagTo
  <2> HIDE DEF l, m, r, s
  <2>5. CASE meta'[d] = [m EXCEPT !.backend = call[p].backend]
    BY <1>2, <2>2, <2>5 DEF Metas, m
  <2>6. CASE meta'[d] = [m EXCEPT !.by = "branch-diff"]
    BY <1>2, <2>2, <2>6 DEF Metas, m
  <2>7. CASE l = <<"ref", "sha">> /\ meta'[d] = [m EXCEPT !.ref = r]
    BY <1>2, <2>2, <2>3, <2>7 DEF Metas, m
  <2>8. CASE l = <<"sha">> /\ meta'[d] = [m EXCEPT !.sha = s]
    BY <1>2, <2>2, <2>3, <2>8 DEF Metas, m
  <2> QED
    BY <2>4, <2>5, <2>6, <2>7, <2>8
<1> QED
  BY <1>1, <1>3, <1>4, Frame

\* a call that is still filling d afterwards, or has just left it
LEMMA FillersAfter ==
    ASSUME TypeInv, NEW p \in Procs, NEW c, StepTo(p, c), NEW d \in Dbs
    PROVE  /\ \A q \in Procs \ {p} : Filling(q, d)' <=> Filling(q, d)
           /\ Filling(p, d) => \/ Filling(p, d)' /\ Same(p, c)
                               \/ CrashTo(p, c)
                               \/ TagTo(p, c) /\ call[p].left = <<"sha">>
           /\ call'[p] = c
<1>1. call'[p] = c /\ \A q \in Procs : q # p => call'[q] = call[q]
  BY CallsAfter DEF StepTo
<1>2. \A q \in Procs \ {p} : Filling(q, d)' <=> Filling(q, d)
  BY <1>1 DEF Filling, Db, Side
<1>3. c.pc \in {"insert", "tag"} /\ Same(p, c) /\ Filling(p, d) => Filling(p, d)'
  BY <1>1 DEF Filling, Same, Db, Side
<1>4. Filling(p, d) => InsertTo(p, c) \/ TagTo(p, c) \/ CrashTo(p, c)
  BY DEF StepTo, StartTo, OccupiedTo, QuietTo, ClearTo, TakeTo, At, Filling
<1>5. InsertTo(p, c) => Same(p, c) /\ c.pc = "tag"
  BY DEF InsertTo
<1>6. TagTo(p, c) => call[p].left = <<"sha">> \/ (Same(p, c) /\ c.pc = "tag")
  BY DEF TagTo
<1> QED
  BY <1>1, <1>2, <1>3, <1>4, <1>5, <1>6

\* The tags of a database name a ref that has that database as its first or
\* second choice.
LEMMA TagsKnownStep ==
    ASSUME Inv, NEW p \in Procs, NEW c, StepTo(p, c)
    PROVE  TagsKnown'
<1>1. TypeInv /\ TagsKnown /\ Writing /\ Leaving /\ Resolved
  BY DEF Inv
<1>2. ASSUME NEW d \in Dbs
      PROVE  /\ meta'[d].by = None => meta'[d].ref = None
             /\ meta'[d].ref = None => meta'[d].sha = None
  BY KeyOrder
<1>3. ASSUME NEW d \in Dbs, ~Overlapped(d)', "override" \notin taint'[d],
             meta'[d].ref # None, meta'[d].sha # None,
             \A q \in Procs : Filling(q, d)' => call'[q].into = None
      PROVE  Known(meta'[d].ref, meta'[d].sha)
  <2>1. ~Overlapped(d) /\ "override" \notin taint[d]
    BY <1>1, <1>3, Frame DEF Overlapped
  <2>2. /\ \A q \in Procs \ {p} : Filling(q, d)' <=> Filling(q, d)
        /\ Filling(p, d) => \/ Filling(p, d)' /\ Same(p, c)
                            \/ CrashTo(p, c)
                            \/ TagTo(p, c) /\ call[p].left = <<"sha">>
        /\ call'[p] = c /\ \A q \in Procs : q # p => call'[q] = call[q]
    BY <1>1, FillersAfter, CallsAfter DEF StepTo
  <2>3. CASE TagTo(p, c) /\ call[p].left = <<"sha">> /\ Db(p) = d
    <3>1. call[p].pc = "tag" /\ meta'[d] = [meta[d] EXCEPT !.sha = call[p].shas[Side(p)]]
      BY <2>3 DEF TagTo, TagKeys, At
    <3>2. meta[d].ref = call[p].refs[Side(p)] /\ meta[d] \in Metas
      BY <1>1, <2>1, <2>3, <3>1 DEF Writing, At, TypeInv
    <3>3. meta'[d].ref = call[p].refs[Side(p)] /\ meta'[d].sha = call[p].shas[Side(p)]
      BY <3>1, <3>2 DEF Metas
    <3>4. Side(p) \in 1..Len(call[p].refs)
      BY <1>1, <3>1, WorkingSide DEF Working
    <3> QED
      BY <1>1, <3>3, <3>4 DEF Resolved
  <2>4. CASE ~(TagTo(p, c) /\ call[p].left = <<"sha">> /\ Db(p) = d)
    <3>1. \A q \in Procs : Filling(q, d) => call[q].into = None
      <4>1. ASSUME CrashTo(p, c), Filling(p, d) PROVE call[p].into = None
        <5>1. Db(p) = d /\ taint \in [Dbs -> SUBSET Marks]
          BY <1>1, <4>1 DEF Filling, TypeInv
        <5> QED
          BY <1>3, <4>1, <5>1 DEF CrashTo
      <4>2. ASSUME Filling(p, d), Filling(p, d)', Same(p, c) PROVE call[p].into = None
        BY <1>3, <2>2, <4>2 DEF Same
      <4>3. Filling(p, d) => call[p].into = None
        BY <2>2, <2>4, <4>1, <4>2 DEF Filling
      <4> QED
        BY <1>3, <2>2, <4>3
    <3>2. meta'[d].ref = meta[d].ref /\ meta'[d].sha = meta[d].sha
      <4>1. CASE meta'[d] = meta[d]
        BY <4>1
      <4>2. CASE meta'[d] # meta[d]
        <5>1. TagTo(p, c) /\ Db(p) = d /\ call[p].pc = "tag" /\ Filling(p, d)
          <6>1. call[p].pc = "tag" /\ Db(p) = d
            BY <1>1, <4>2, Frame
          <6> QED
            BY <4>2, <6>1 DEF StepTo, StartTo, OccupiedTo, QuietTo, ClearTo, InsertTo, CrashTo, TakeTo,
                              At, Filling
        <5>2. meta[d] \in Metas /\ call[p].into = None
          BY <1>1, <3>1, <5>1 DEF TypeInv
        <5>3. \/ meta'[d] = [meta[d] EXCEPT !.backend = call[p].backend]
              \/ meta'[d] = [meta[d] EXCEPT !.by = "branch-diff"]
              \/ meta'[d] = [meta[d] EXCEPT !.ref = call[p].refs[Side(p)]]
          BY <2>4, <5>1 DEF TagTo
        <5>4. CASE meta'[d] = [meta[d] EXCEPT !.ref = call[p].refs[Side(p)]]
          <6>1. meta'[d].sha = meta[d].sha /\ meta'[d].ref = call[p].refs[Side(p)]
            BY <5>2, <5>4 DEF Metas
          <6>2. meta[d].ref # None
            BY <1>1, <1>3, <6>1 DEF TagsKnown
          <6>3. meta[d].ref = call[p].refs[Side(p)]
            BY <1>1, <2>1, <5>1, <5>2, <6>2 DEF Leaving, Working
          <6> QED
            BY <6>1, <6>3
        <5> QED
          BY <5>2, <5>3, <5>4 DEF Metas
      <4> QED
        BY <4>1, <4>2
    <3> QED
      BY <1>1, <1>3, <2>1, <3>1, <3>2 DEF TagsKnown
  <2> QED
    BY <2>3, <2>4
<1>4. \A r, s : Known(r, s)' <=> Known(r, s)
  BY DEF Known, StepTo
<1> QED
  BY <1>2, <1>3, <1>4 DEF TagsKnown

\* the four states of a tag differ
LEMMA KeysDiffer ==
    /\ TagKeys # <<"by", "ref", "sha">> /\ TagKeys # <<"ref", "sha">> /\ TagKeys # <<"sha">>
    /\ <<"by", "ref", "sha">> # <<"ref", "sha">> /\ <<"by", "ref", "sha">> # <<"sha">>
    /\ <<"ref", "sha">> # <<"sha">>
BY DEF TagKeys

\* A call writes the tags of its own refs, in their order.
LEMMA WritingStep ==
    ASSUME Inv, TypeInv', NEW p \in Procs, NEW c, StepTo(p, c)
    PROVE  Writing'
<1>1. TypeInv /\ Writing
  BY DEF Inv
<1>2. /\ call' \in [Procs -> Calls] /\ call'[p] = c
      /\ \A q \in Procs : q # p => call'[q] = call[q]
  BY <1>1, CallsAfter DEF StepTo
<1> DEFINE Holds(l, m, k, r, t) ==
             /\ (l \in {<<"ref", "sha">>, <<"sha">>}) => m.by = "branch-diff"
             /\ l = <<"sha">> => m.ref # None
             /\ (l = <<"sha">> /\ "overlap" \notin t) => m.ref = r
             /\ (l # TagKeys /\ "overlap" \notin t /\ "user" \notin t) => m.backend = k
<1>3. ASSUME NEW q \in Procs \ {p}, call[q].pc = "tag"
      PROVE  Holds(call[q].left, meta'[Db(q)], call[q].backend, call[q].refs[Side(q)], taint'[Db(q)])
  <2> DEFINE d == Db(q)
  <2>1. d \in Dbs /\ q \in Holders(d)
    BY <1>1, <1>3, WorkingSide, WorkerHolds DEF Working
  <2>2. /\ taint[d] \subseteq taint'[d]
        /\ ~Overlapped(d) => rows'[d] = rows[d] /\ meta'[d] = meta[d]
    BY <2>1, Foreign
  <2>3. /\ meta'[d].by = None => meta[d].by = None
        /\ meta'[d].ref = None => meta[d].ref = None
        /\ meta[d].by = "branch-diff" => meta'[d].by = "branch-diff"
    <3>1. /\ meta'[d].by = None => meta[d].by = None
          /\ meta'[d].ref = None => meta[d].ref = None
      BY <2>1, KeyOrder
    <3>2. meta'[d].by \in {None, "branch-diff"}
      BY <2>1 DEF TypeInv, Metas
    <3> QED
      BY <3>1, <3>2, ProvisionAssumption
  <2>4. /\ (call[q].left \in {<<"ref", "sha">>, <<"sha">>}) => (meta[d].by = "branch-diff")
        /\ call[q].left = <<"sha">> => meta[d].ref # None
        /\ (call[q].left = <<"sha">> /\ ~Overlapped(d)) => (meta[d].ref = call[q].refs[Side(q)])
        /\ (call[q].left # TagKeys /\ ~Overlapped(d) /\ "user" \notin taint[d]) =>
              meta[d].backend = call[q].backend
    BY <1>1, <1>3 DEF Writing, At
  <2>5. "overlap" \notin taint'[d] => ~Overlapped(d)
    BY <2>2 DEF Overlapped
  <2> HIDE DEF d
  <2>6. Holds(call[q].left, meta'[d], call[q].backend, call[q].refs[Side(q)], taint'[d])
    BY <2>2, <2>3, <2>4, <2>5
  <2> QED
    BY <2>6 DEF d
<1>4. ASSUME c.pc = "tag"
      PROVE  Holds(c.left, meta'[Db(p)], c.backend, c.refs[Side(p)], taint'[Db(p)])
  <2> DEFINE d == Db(p)
             m == meta[d]
  <2>1. /\ Same(p, c) /\ d \in Dbs
        /\ \/ InsertTo(p, c) /\ c.left = TagKeys
           \/ TagTo(p, c) /\ call[p].pc = "tag"
    BY <1>1, <1>4, Writers
  <2>2. m \in Metas /\ taint \in [Dbs -> SUBSET Marks]
    BY <1>1, <2>1 DEF TypeInv
  <2>3. CASE c.left = TagKeys
    BY <2>3, KeysDiffer
  <2>4. CASE TagTo(p, c) /\ call[p].pc = "tag"
    <3> DEFINE l == call[p].left
    <3>1. /\ call[p].refs[Side(p)] \in Refs /\ call[p].backend \in Backends
          /\ call[p].refs[Side(p)] # None
      BY <1>1, <2>4, WorkingSide, ProvisionAssumption DEF Working
    <3>2. \/ /\ c.left = <<"by", "ref", "sha">> /\ meta'[d] = [m EXCEPT !.backend = call[p].backend]
          \/ /\ l = <<"by", "ref", "sha">> /\ c.left = <<"ref", "sha">>
             /\ meta'[d] = [m EXCEPT !.by = "branch-diff"]
          \/ /\ l = <<"ref", "sha">> /\ c.left = <<"sha">>
             /\ meta'[d] = [m EXCEPT !.ref = call[p].refs[Side(p)]]
      <4>1. c # NoCall
        BY <1>4 DEF NoCall
      <4>2. c.pc \notin {"candidate", "diff"}
        BY <1>4
      <4> QED
        BY <2>4, <4>1, <4>2 DEF TagTo
    <3>3. /\ (l \in {<<"ref", "sha">>, <<"sha">>}) => (m.by = "branch-diff")
          /\ (l # TagKeys /\ ~Overlapped(d) /\ "user" \notin taint[d]) => m.backend = call[p].backend
      BY <1>1, <2>4 DEF Writing, At
    <3>4. c.backend = call[p].backend /\ c.refs = call[p].refs /\ taint' = taint
          /\ ("overlap" \in taint'[d] <=> Overlapped(d))
      BY <2>1, <2>4 DEF Same, TagTo, Overlapped
    <3>5. CASE c.left = <<"by", "ref", "sha">> /\ meta'[d] = [m EXCEPT !.backend = call[p].backend]
      <4>1. meta'[d].backend = call[p].backend
        BY <2>2, <3>5 DEF Metas
      <4> QED
        BY <3>4, <3>5, <4>1, KeysDiffer
    <3>6. CASE /\ l = <<"by", "ref", "sha">> /\ c.left = <<"ref", "sha">>
               /\ meta'[d] = [m EXCEPT !.by = "branch-diff"]
      <4>1. meta'[d].backend = m.backend /\ meta'[d].by = "branch-diff"
        BY <2>2, <3>6 DEF Metas
      <4> QED
        BY <3>3, <3>4, <3>6, <4>1, KeysDiffer
    <3>7. CASE /\ l = <<"ref", "sha">> /\ c.left = <<"sha">>
               /\ meta'[d] = [m EXCEPT !.ref = call[p].refs[Side(p)]]
      <4>1. meta'[d].backend = m.backend /\ meta'[d].by = m.by
            /\ meta'[d].ref = call[p].refs[Side(p)]
        BY <2>2, <3>7 DEF Metas
      <4> QED
        BY <3>1, <3>3, <3>4, <3>7, <4>1, KeysDiffer
    <3> QED
      BY <3>2, <3>5, <3>6, <3>7
  <2> QED
    BY <2>1, <2>3, <2>4
<1>5. ASSUME NEW q \in Procs, At(q, "tag")'
      PROVE  Holds(call'[q].left, meta'[Db(q)'], call'[q].backend, call'[q].refs[Side(q)'], taint'[Db(q)'])
  <2>1. CASE q = p
    <3>1. c.pc = "tag" /\ Db(p)' = Db(p) /\ Side(p)' = Side(p)
      BY <1>1, <1>2, <1>5, <2>1, Writers DEF At
    <3> QED
      BY <1>2, <1>4, <2>1, <3>1
  <2>2. CASE q # p
    <3>1. call'[q] = call[q] /\ Db(q)' = Db(q) /\ Side(q)' = Side(q) /\ call[q].pc = "tag"
      BY <1>2, <1>5, <2>2 DEF At, Db, Side
    <3> QED
      BY <1>3, <2>2, <3>1
  <2> QED
    BY <2>1, <2>2
<1> QED
  BY <1>5 DEF Writing, Overlapped

\* a call at work on a database has just taken it, or goes on with it
LEMMA Workers ==
    ASSUME TypeInv, NEW p \in Procs, NEW c, StepTo(p, c), c.pc \in Working, c.into = None
    PROVE  \/ /\ Same(p, c) /\ Db(p)' = Db(p) /\ Side(p)' = Side(p) /\ call[p].pc \in Working
              /\ QuietTo(p, c) \/ ClearTo(p, c) \/ InsertTo(p, c) \/ TagTo(p, c)
           \/ \E d \in Dbs :
                 /\ TakeTo(p, c, d) /\ c.pc = "export" /\ Db(p)' = d /\ Side(p)' = Side(p) + 1
                 /\ Side(p) + 1 \in 1..Len(call[p].refs)
<1>1. call'[p] = c /\ call[p] \in Calls /\ Formed(call[p])
  BY CallsAfter DEF StepTo, TypeInv
<1>2. NoCall.pc \notin Working /\ c # NoCall
  BY DEF NoCall, Working
<1>3. ~StartTo(p, c)
  BY ProvisionAssumption DEF StartTo, Working
<1>4. ~CrashTo(p, c) /\ ~OccupiedTo(p, c)
  BY <1>2 DEF CrashTo, OccupiedTo, Working
<1>5. QuietTo(p, c) \/ ClearTo(p, c) \/ InsertTo(p, c) \/ TagTo(p, c) =>
        Same(p, c) /\ call[p].pc \in Working
  BY <1>2 DEF QuietTo, ClearTo, InsertTo, TagTo, At, Working
<1>6. Same(p, c) => Db(p)' = Db(p) /\ Side(p)' = Side(p)
  BY <1>1 DEF Same, Db, Side
<1>7. ASSUME NEW d \in Dbs, TakeTo(p, c, d)
      PROVE  /\ c.pc = "export" /\ Db(p)' = d /\ Side(p)' = Side(p) + 1
             /\ Side(p) + 1 \in 1..Len(call[p].refs)
  <2>1. call[p].taken \in Seq(Dbs) /\ c.taken = Append(call[p].taken, d)
        /\ call[p].pc \in {"candidate", "fallback"}
    BY <1>1, <1>7 DEF TakeTo, Calls
  <2>2. Side(p) \in Nat /\ Side(p) < Len(call[p].refs) /\ Len(call[p].refs) \in Nat
    BY <1>1, <2>1 DEF Formed, Side
  <2>3. Side(p)' = Side(p) + 1 /\ Db(p)' = d
    BY <1>1, <2>1 DEF Side, Db
  <2>4. c.pc = "export"
    BY <1>7 DEF TakeTo, Working
  <2> QED
    BY <2>2, <2>3, <2>4
<1> QED
  BY <1>3, <1>4, <1>5, <1>6, <1>7 DEF StepTo

\* what the tag of a call's own database may become while it writes
LEMMA TagKeeps ==
    ASSUME TypeInv, NEW p \in Procs, NEW c, TagTo(p, c), c.pc = "tag"
    PROVE  LET m == meta[Db(p)]
               new == meta'[Db(p)]
           IN  /\ new.sha = m.sha
               /\ new.ref = m.ref \/ new.ref = call[p].refs[Side(p)]
<1> DEFINE m == meta[Db(p)]
           new == meta'[Db(p)]
<1>1. m \in Metas
  BY WorkingSide DEF TagTo, At, Working, TypeInv
<1>2. \/ new = [m EXCEPT !.backend = call[p].backend]
      \/ new = [m EXCEPT !.by = "branch-diff"]
      \/ new = [m EXCEPT !.ref = call[p].refs[Side(p)]]
  <2>1. c # NoCall
    BY DEF NoCall
  <2> QED
    BY <2>1 DEF TagTo
<1> HIDE DEF m, new
<1>3. new.sha = m.sha /\ (new.ref = m.ref \/ new.ref = call[p].refs[Side(p)])
  BY <1>1, <1>2 DEF Metas
<1> QED
  BY <1>3 DEF m, new

\* A call that dies within the tags leaves them behind its rows, or marked.
LEMMA LeavingStep ==
    ASSUME Inv, NEW p \in Procs, NEW c, StepTo(p, c)
    PROVE  Leaving'
<1>1. TypeInv /\ Leaving /\ TagsKnown /\ Resolved
  BY DEF Inv
<1>2. /\ call' \in [Procs -> Calls] /\ call'[p] = c
      /\ \A q \in Procs : q # p => call'[q] = call[q]
      /\ tip' = tip /\ past' = past
  BY <1>1, CallsAfter DEF StepTo
<1> DEFINE Left(d, r) ==
             /\ (~("overlap" \in taint'[d]) /\ meta'[d].ref # None) => meta'[d].ref = r
             /\ (~("overlap" \in taint'[d]) /\ "override" \notin taint'[d] /\ meta'[d].sha # None)
                => back' \/ meta'[d].sha \in past[r]
<1>3. \A d \in Dbs : /\ "overlap" \notin taint'[d] => ~Overlapped(d)
                     /\ "override" \notin taint'[d] => "override" \notin taint[d]
                     /\ back => back'
  BY <1>1, Frame DEF Overlapped
<1>4. ASSUME NEW q \in Procs \ {p}, call[q].pc \in Working, call[q].into = None
      PROVE  Left(Db(q), call[q].refs[Side(q)])
  <2> DEFINE d == Db(q)
  <2>1. d \in Dbs /\ q \in Holders(d)
    BY <1>1, <1>4, WorkingSide, WorkerHolds
  <2>2. ~Overlapped(d) => meta'[d] = meta[d]
    BY <2>1, Foreign
  <2>3. /\ ~Overlapped(d) /\ meta[d].ref # None => meta[d].ref = call[q].refs[Side(q)]
        /\ ~Overlapped(d) /\ "override" \notin taint[d] /\ meta[d].sha # None
           => back \/ meta[d].sha \in past[call[q].refs[Side(q)]]
    BY <1>1, <1>4 DEF Leaving
  <2> QED
    BY <1>3, <2>1, <2>2, <2>3
<1>5. ASSUME Same(p, c), call[p].pc \in Working, c.pc \in Working, c.into = None,
             QuietTo(p, c) \/ ClearTo(p, c) \/ InsertTo(p, c) \/ TagTo(p, c)
      PROVE  Left(Db(p), call[p].refs[Side(p)])
  <2> DEFINE d == Db(p)
             r == call[p].refs[Side(p)]
  <2>1. d \in Dbs /\ call[p].into = None
    BY <1>1, <1>5, WorkingSide DEF Same
  <2>2. /\ ~Overlapped(d) /\ meta[d].ref # None => meta[d].ref = r
        /\ ~Overlapped(d) /\ "override" \notin taint[d] /\ meta[d].sha # None
           => back \/ meta[d].sha \in past[r]
    BY <1>1, <1>5, <2>1 DEF Leaving
  <2>3. meta'[d].sha = meta[d].sha /\ (meta'[d].ref = meta[d].ref \/ meta'[d].ref = r)
    <3>1. CASE TagTo(p, c)
      <4>1. c.pc = "tag"
        BY <1>5, <3>1 DEF TagTo, NoCall, Working
      <4> QED
        BY <1>1, <3>1, <4>1, TagKeeps
    <3>2. CASE ~TagTo(p, c)
      BY <1>5, <3>2 DEF QuietTo, ClearTo, InsertTo
    <3> QED
      BY <3>1, <3>2
  <2> QED
    BY <1>3, <2>1, <2>2, <2>3
<1>6. ASSUME NEW d \in Dbs, TakeTo(p, c, d), c.pc = "export", Side(p) + 1 \in 1..Len(call[p].refs)
      PROVE  Left(d, call[p].refs[Side(p) + 1])
  <2> DEFINE r == call[p].refs[Side(p) + 1]
             s == call[p].shas[Side(p) + 1]
             k == call[p].backend
  <2>1. Verdict(d, r, s, k) \notin {"occupied", "reused"} /\ meta' = meta
    BY <1>6 DEF TakeTo
  <2>2. \/ meta[d].by = "branch-diff" /\ meta[d].ref = r /\ meta[d].sha # s
        \/ meta[d].by # "branch-diff"
    BY <2>1, Zenon DEF Verdict
  <2>3. CASE meta[d].by # "branch-diff"
    <3>1. meta[d].by = None
      BY <1>1, <2>3 DEF TypeInv, Metas
    <3>2. meta[d].ref = None /\ meta[d].sha = None
      BY <1>1, <3>1 DEF TagsKnown
    <3> QED
      BY <2>1, <3>2
  <2>4. CASE meta[d].by = "branch-diff" /\ meta[d].ref = r /\ meta[d].sha # s
    <3>1. r \in Refs /\ r # None
      BY <1>1, <1>6, ProvisionAssumption DEF TypeInv, Calls
    <3>2. ASSUME "overlap" \notin taint'[d], "override" \notin taint'[d], meta[d].sha # None, ~back'
          PROVE  meta[d].sha \in past[r]
      <4>1. taint'[d] = taint[d] \cup Overlap(p, d) /\ call[p].pc \in {"candidate", "fallback"}
        BY <1>1, <1>6 DEF TakeTo, TypeInv
      <4>2. Holders(d) \ {p} = {}
        BY <3>2, <4>1 DEF Overlap
      <4>3. \A q \in Procs : ~Filling(q, d)
        <5> TAKE q \in Procs
        <5>1. CASE q = p
          BY <4>1, <5>1 DEF Filling
        <5>2. CASE q # p
          <6>1. Filling(q, d) => q \in Holders(d)
            BY <1>1, WorkerHolds DEF Filling, Working
          <6> QED
            BY <4>2, <5>2, <6>1
        <5> QED
          BY <5>1, <5>2
      <4>4. Known(r, meta[d].sha)
        BY <1>1, <1>3, <2>4, <3>1, <3>2, <4>3 DEF TagsKnown
      <4>5. s \notin past[r]
        BY <1>6, <3>2 DEF TakeTo
      <4>6. Known(r, s)
        BY <1>1, <1>6 DEF Resolved
      <4> QED
        BY <2>4, <4>4, <4>5, <4>6 DEF Known
    <3> QED
      BY <2>1, <2>4, <3>2
  <2> QED
    BY <2>2, <2>3, <2>4
<1>7. ASSUME NEW q \in Procs, call'[q].pc \in Working, call'[q].into = None
      PROVE  Left(Db(q)', call'[q].refs[Side(q)'])
  <2>1. CASE q # p
    <3>1. call'[q] = call[q] /\ Db(q)' = Db(q) /\ Side(q)' = Side(q)
      BY <1>2, <2>1 DEF Db, Side
    <3> QED
      BY <1>4, <1>7, <2>1, <3>1
  <2>2. CASE q = p
    <3>1. CASE /\ Same(p, c) /\ Db(p)' = Db(p) /\ Side(p)' = Side(p) /\ call[p].pc \in Working
               /\ QuietTo(p, c) \/ ClearTo(p, c) \/ InsertTo(p, c) \/ TagTo(p, c)
      <4>1. c.refs = call[p].refs
        BY <3>1 DEF Same
      <4> QED
        BY <1>2, <1>5, <1>7, <2>2, <3>1, <4>1
    <3>2. ASSUME NEW d \in Dbs, TakeTo(p, c, d), c.pc = "export", Db(p)' = d,
                 Side(p)' = Side(p) + 1, Side(p) + 1 \in 1..Len(call[p].refs)
          PROVE  Left(Db(q)', call'[q].refs[Side(q)'])
      <4>1. c.refs = call[p].refs
        BY <3>2 DEF TakeTo
      <4> QED
        BY <1>2, <1>6, <2>2, <3>2, <4>1
    <3> QED
      BY <1>1, <1>2, <1>7, <2>2, <3>1, <3>2, Workers
  <2> QED
    BY <2>1, <2>2
<1> QED
  BY <1>2, <1>7 DEF Leaving, Overlapped

\* Between clearing and insertion a database is empty, and then whole.
LEMMA FilledStep ==
    ASSUME Inv, NEW p \in Procs, NEW c, StepTo(p, c)
    PROVE  Filled'
<1>1. TypeInv /\ Filled
  BY DEF Inv
<1>2. /\ call' \in [Procs -> Calls] /\ call'[p] = c
      /\ \A q \in Procs : q # p => call'[q] = call[q]
      /\ rows \in [Dbs -> SUBSET Export] /\ taint \in [Dbs -> SUBSET Marks]
  BY <1>1, CallsAfter DEF StepTo, TypeInv
<1> SUFFICES ASSUME NEW q \in Procs, NEW d \in Dbs, Filling(q, d)',
                    taint'[d] \cap {"user", "overlap"} = {}
             PROVE  rows'[d] = IF At(q, "insert")' THEN {} ELSE {Want(q, Side(q))'}
  BY DEF Filled
<1>3. CASE q # p
  <2>1. /\ Filling(q, d) /\ call'[q] = call[q] /\ Side(q)' = Side(q)
        /\ Want(q, Side(q))' = Want(q, Side(q)) /\ (At(q, "insert")' <=> At(q, "insert"))
    BY <1>2, <1>3 DEF Filling, Db, Side, Want, At
  <2>2. q \in Holders(d)
    BY <1>1, <2>1, WorkerHolds DEF Filling, Working
  <2>3. taint[d] \cap {"user", "overlap"} = {} /\ rows'[d] = rows[d]
    BY <1>3, <2>2, Foreign DEF Overlapped
  <2> QED
    BY <1>1, <2>1, <2>3 DEF Filled
<1>4. CASE q = p
  <2>1. c.pc \in {"insert", "tag"}
    BY <1>2, <1>4 DEF Filling
  <2>2. /\ Same(p, c) /\ Db(p) = d /\ Side(p)' = Side(p)
        /\ Want(p, Side(p))' = Want(p, Side(p)) /\ (At(p, "insert")' <=> c.pc = "insert")
    <3>1. Same(p, c) /\ Db(p)' = Db(p) /\ Side(p)' = Side(p)
      BY <1>1, <2>1, Writers
    <3> QED
      BY <1>2, <1>4, <3>1 DEF Filling, Want, At, Same
  <2>3. CASE call[p].pc = "clear"
    <3>1. ClearTo(p, c) /\ c.pc = "insert"
      BY <1>1, <2>1, <2>3, Writers
    <3> QED
      BY <1>2, <1>4, <2>2, <3>1 DEF ClearTo
  <2>4. CASE call[p].pc = "insert"
    <3>1. InsertTo(p, c) /\ c.pc = "tag"
      BY <1>1, <2>1, <2>4, Writers
    <3>2. taint' = taint /\ Filling(p, d) /\ At(p, "insert")
      BY <2>2, <3>1 DEF InsertTo, Filling, At
    <3>3. rows[d] = {}
      BY <1>1, <3>2 DEF Filled
    <3> QED
      BY <1>2, <1>4, <2>2, <3>1, <3>3 DEF InsertTo
  <2>5. CASE call[p].pc = "tag"
    <3>1. TagTo(p, c) /\ c.pc = "tag"
      BY <1>1, <2>1, <2>5, Writers
    <3>2. taint' = taint /\ rows' = rows /\ Filling(p, d) /\ ~At(p, "insert")
      BY <2>2, <2>5, <3>1 DEF TagTo, Filling, At
    <3> QED
      BY <1>1, <1>4, <2>2, <3>1, <3>2 DEF Filled
  <2> QED
    BY <1>1, <2>1, <2>3, <2>4, <2>5, Writers
<1> QED
  BY <1>3, <1>4

\* The last key of a tag: what the database then shows is what the tag says.
LEMMA LastKey ==
    ASSUME Inv, NEW p \in Procs, NEW c, TagTo(p, c), call[p].left = <<"sha">>
    PROVE  LET d == Db(p)
           IN  /\ d \in Dbs /\ meta'[d].sha = call[p].shas[Side(p)] /\ meta'[d].by = "branch-diff"
               /\ ~Overlapped(d) => meta'[d].ref = call[p].refs[Side(p)]
               /\ (taint[d] \cap {"user", "overlap"} = {}) =>
                     rows'[d] = {Want(p, Side(p))} /\ Recorded(meta'[d]) = call[p].backend
<1> DEFINE d == Db(p)
           m == meta[d]
<1>1. TypeInv /\ Writing /\ Filled /\ call[p].pc = "tag"
  BY DEF Inv, TagTo, At
<1>2. d \in Dbs /\ m \in Metas /\ call[p].shas[Side(p)] \in Shas /\ call[p].backend \in Backends
  BY <1>1, WorkingSide DEF Working, TypeInv
<1>3. meta'[d] = [m EXCEPT !.sha = call[p].shas[Side(p)]] /\ rows' = rows
  BY KeysDiffer DEF TagTo
<1>4. /\ m.by = "branch-diff"
      /\ ~Overlapped(d) => m.ref = call[p].refs[Side(p)]
      /\ ~Overlapped(d) /\ "user" \notin taint[d] => m.backend = call[p].backend
  BY <1>1, KeysDiffer DEF Writing, At
<1>5. taint[d] \cap {"user", "overlap"} = {} => rows[d] = {Want(p, Side(p))}
  BY <1>1, <1>2 DEF Filled, Filling, At
<1>6. taint[d] \cap {"user", "overlap"} = {} => ~Overlapped(d) /\ "user" \notin taint[d]
  BY DEF Overlapped
<1> HIDE DEF m
<1>7. meta'[d].sha = call[p].shas[Side(p)] /\ meta'[d].by = m.by /\ meta'[d].ref = m.ref
      /\ meta'[d].backend = m.backend
  BY <1>2, <1>3 DEF Metas
<1>8. m.backend = call[p].backend => Recorded(meta'[d]) = call[p].backend
  BY <1>2, <1>7, ProvisionAssumption DEF Recorded
<1> QED
  BY <1>2, <1>3, <1>4, <1>5, <1>6, <1>7, <1>8 DEF m

\* Complete tags are those of the rows.
LEMMA StoredStep ==
    ASSUME Inv, NEW p \in Procs, NEW c, StepTo(p, c)
    PROVE  Stored'
<1>1. TypeInv /\ Stored /\ Leaving /\ TagsKnown
  BY DEF Inv
<1>2. call'[p] = c /\ tip' = tip /\ past' = past /\ taint \in [Dbs -> SUBSET Marks]
      /\ \A d \in Dbs : back => back'
  BY <1>1, CallsAfter, Frame DEF StepTo, TypeInv
<1> SUFFICES ASSUME NEW d \in Dbs, taint'[d] \subseteq {"crash"}, meta'[d].ref # None,
                    meta'[d].sha # None, \A q \in Procs : ~Filling(q, d)'
             PROVE  \/ rows'[d] = {[from |-> meta'[d].sha, backend |-> Recorded(meta'[d])]}
                    \/ "crash" \in taint'[d] /\ (back' \/ meta'[d].sha \in past[meta'[d].ref])
  BY <1>2 DEF Stored, Recorded
<1>3. \A q \in Procs \ {p} : ~Filling(q, d)
  BY <1>1, FillersAfter
<1>4. ~Overlapped(d) /\ "override" \notin taint[d]
  <2>1. "overlap" \notin taint'[d] /\ "override" \notin taint'[d]
    OBVIOUS
  <2> QED
    BY <1>1, <2>1, Frame DEF Overlapped
<1>5. CASE ~Filling(p, d)
  <2>1. ~(call[p].pc \in {"clear", "insert", "tag"} /\ Db(p) = d)
    <3>1. call[p].pc = "clear" /\ Db(p) = d => Filling(p, d)'
      <4>1. call[p].pc = "clear" => ClearTo(p, c)
        BY DEF StepTo, StartTo, OccupiedTo, QuietTo, InsertTo, TagTo, CrashTo, TakeTo, At
      <4> QED
        BY <1>2, <4>1 DEF ClearTo, Same, Filling, Db, Side
    <3> QED
      BY <1>5, <3>1 DEF Filling
  <2>2. rows'[d] = rows[d] /\ meta'[d] = meta[d] /\ taint[d] \subseteq taint'[d]
    BY <1>1, <2>1, Frame
  <2>3. \/ rows[d] = {[from |-> meta[d].sha, backend |-> Recorded(meta[d])]}
        \/ "crash" \in taint[d] /\ (back \/ meta[d].sha \in past[meta[d].ref])
    BY <1>1, <1>3, <1>5, <2>2 DEF Stored
  <2> QED
    BY <1>2, <2>2, <2>3
<1>6. CASE Filling(p, d) /\ CrashTo(p, c)
  <2>1. Db(p) = d /\ call[p].pc \in Working /\ meta' = meta /\ back' = back
    BY <1>6 DEF Filling, Working, CrashTo
  <2>2. taint'[d] = taint[d] \cup {IF call[p].into = None THEN "crash" ELSE "override"}
    BY <1>2, <1>6, <2>1 DEF CrashTo
  <2>3. call[p].into = None /\ "crash" \in taint'[d]
    BY <2>2
  <2>4. meta[d].ref = call[p].refs[Side(p)] /\ (back \/ meta[d].sha \in past[call[p].refs[Side(p)]])
    BY <1>1, <1>4, <2>1, <2>3 DEF Leaving
  <2> QED
    BY <2>1, <2>3, <2>4
<1>7. CASE Filling(p, d) /\ TagTo(p, c) /\ call[p].left = <<"sha">>
  <2>1. Db(p) = d /\ taint' = taint
    BY <1>7 DEF Filling, TagTo
  <2>2. taint[d] \cap {"user", "overlap"} = {}
    BY <2>1
  <2>3. /\ meta'[d].sha = call[p].shas[Side(p)] /\ rows'[d] = {Want(p, Side(p))}
        /\ Recorded(meta'[d]) = call[p].backend
    BY <1>7, <2>1, <2>2, LastKey
  <2> QED
    BY <2>3 DEF Want
<1> QED
  BY <1>1, <1>5, <1>6, <1>7, FillersAfter

\* A rebuild clears what is tagged, or what was empty when it looked.
LEMMA ClaimedStep ==
    ASSUME Inv, NEW p \in Procs, NEW c, StepTo(p, c)
    PROVE  Claimed'
<1>1. TypeInv /\ Claimed
  BY DEF Inv
<1>2. /\ call' \in [Procs -> Calls] /\ call'[p] = c
      /\ \A q \in Procs : q # p => call'[q] = call[q]
  BY <1>1, CallsAfter DEF StepTo
<1> SUFFICES ASSUME NEW q \in Procs, call'[q].pc \in {"export", "clear"}, call'[q].into = None,
                    meta'[Db(q)'].by = None, \E e \in rows'[Db(q)'] : e.from = WorkTree
             PROVE  "raced" \in taint'[Db(q)']
  BY DEF Claimed
<1>3. CASE q # p
  <2>1. call'[q] = call[q] /\ Db(q)' = Db(q)
    BY <1>2, <1>3 DEF Db, Side
  <2> DEFINE d == Db(q)
  <2>2. d \in Dbs /\ q \in Holders(d)
    BY <1>1, <2>1, WorkingSide, WorkerHolds DEF Working
  <2>3. taint[d] \subseteq taint'[d] /\ meta[d].by = None
    BY <1>3, <2>1, <2>2, Foreign, KeyOrder
  <2>4. \E e \in rows[d] : e.from = WorkTree
    <3>1. CASE rows'[d] = rows[d]
      BY <2>1, <3>1
    <3>2. CASE rows'[d] # rows[d]
      <4>1. call[p].pc \in {"clear", "insert"} /\ Db(p) = d /\ rows \in [Dbs -> SUBSET Export]
        BY <1>1, <2>2, <3>2, Frame DEF TypeInv
      <4>2. ClearTo(p, c) \/ InsertTo(p, c) \/ CrashTo(p, c)
        BY <4>1 DEF StepTo, StartTo, OccupiedTo, QuietTo, TagTo, TakeTo, At
      <4>3. InsertTo(p, c)
        BY <2>1, <2>2, <3>2, <4>1, <4>2 DEF ClearTo, CrashTo
      <4>4. rows'[d] = rows[d] \cup {Want(p, Side(p))}
        BY <2>2, <4>1, <4>3 DEF InsertTo
      <4>5. Want(p, Side(p)).from # WorkTree
        <5>1. call[p].shas[Side(p)] \in Shas
          BY <1>1, <4>1, WorkingSide DEF Working
        <5> QED
          BY <5>1, ProvisionAssumption DEF Want
      <4> QED
        BY <2>1, <4>4, <4>5
    <3> QED
      BY <3>1, <3>2
  <2> QED
    BY <1>1, <2>1, <2>3, <2>4 DEF Claimed
<1>4. CASE q = p
  <2>1. c.pc \in {"export", "clear"} /\ c.into = None
    BY <1>2, <1>4
  <2>2. CASE Same(p, c) /\ Db(p)' = Db(p) /\ QuietTo(p, c)
    BY <1>1, <1>2, <1>4, <2>1, <2>2 DEF QuietTo, Claimed, NoCall, Same, At
  <2>3. ASSUME NEW d \in Dbs, TakeTo(p, c, d), c.pc = "export", Db(p)' = d
        PROVE  "raced" \in taint'[Db(q)']
    <3> DEFINE r == call[p].refs[Side(p) + 1]
               s == call[p].shas[Side(p) + 1]
               k == call[p].backend
    <3>1. Verdict(d, r, s, k) \notin {"occupied", "reused"} /\ meta' = meta /\ rows' = rows
      BY <2>3 DEF TakeTo
    <3>2. meta[d].by = "branch-diff" \/ rows[d] = {}
      BY <3>1, Zenon DEF Verdict
    <3>3. "branch-diff" # None
      BY ProvisionAssumption
    <3> QED
      BY <1>4, <2>3, <3>1, <3>2, <3>3
  <2> QED
    <3>1. ~ClearTo(p, c) /\ ~InsertTo(p, c) /\ ~TagTo(p, c)
      BY <2>1 DEF ClearTo, InsertTo, TagTo, NoCall
    <3> QED
      BY <1>1, <2>1, <2>2, <2>3, <3>1, Workers DEF Working
<1> QED
  BY <1>3, <1>4

\* a side of a call, before and after a step of the call itself
OnSide(d, r, s, k) ==
    /\ ~Overlapped(d) => meta[d].by = "branch-diff" /\ meta[d].ref = r /\ meta[d].sha = s
    /\ Undisturbed(d) => rows[d] = {[from |-> s, backend |-> k]}

\* a settled side whose database the call is not working on stays settled
LEMMA SideKept ==
    ASSUME TypeInv, NEW p \in Procs, NEW c, StepTo(p, c), NEW d \in Dbs, NEW r, NEW s, NEW k,
           OnSide(d, r, s, k),
           call[p].pc \in {"clear", "insert", "tag"} /\ Db(p) = d => Overlapped(d)
    PROVE  OnSide(d, r, s, k)'
<1>1. CASE Overlapped(d)
  <2>1. "overlap" \in taint'[d]
    BY <1>1, Frame DEF Overlapped
  <2> QED
    BY <2>1 DEF OnSide, Overlapped, Undisturbed
<1>2. CASE ~Overlapped(d)
  <2>1. rows'[d] = rows[d] /\ meta'[d] = meta[d] /\ taint[d] \subseteq taint'[d] /\ (back => back')
    BY <1>2, Frame
  <2>2. Undisturbed(d)' => Undisturbed(d)
    BY <2>1 DEF Undisturbed
  <2> QED
    BY <1>2, <2>1, <2>2 DEF OnSide
<1> QED
  BY <1>1, <1>2

\* a reused database shows the export the call asks for
LEMMA ReusedSide ==
    ASSUME Inv, NEW p \in Procs, NEW c, NEW d \in Dbs, TakeTo(p, c, d),
           Side(p) + 1 \in 1..Len(call[p].refs),
           NEW r, r = call[p].refs[Side(p) + 1], NEW s, s = call[p].shas[Side(p) + 1],
           NEW k, k = call[p].backend, Verdict(d, r, s, k) = "reused"
    PROVE  OnSide(d, r, s, k)'
<1>1. TypeInv /\ Stored
  BY DEF Inv
<1>2. meta[d].by = "branch-diff" /\ meta[d].ref = r /\ meta[d].sha = s /\ Recorded(meta[d]) = k
  BY Zenon DEF Verdict
<1>3. /\ rows' = rows /\ meta' = meta /\ taint'[d] = taint[d] \cup Overlap(p, d)
      /\ back' = (back \/ s \in past[r]) /\ call[p].pc \in {"candidate", "fallback"}
  BY <1>1 DEF TakeTo, TypeInv
<1>4. r \in Refs /\ s \in Shas
  <2>1. call[p] \in Calls /\ Formed(call[p])
    BY <1>1 DEF TypeInv
  <2> QED
    BY <2>1 DEF Calls, Formed
<1>5. ASSUME Undisturbed(d)' PROVE rows[d] = {[from |-> s, backend |-> k]}
  <2>1. taint'[d] = {} \/ (taint'[d] = {"crash"} /\ ~back')
    BY <1>5 DEF Undisturbed
  <2>2. Holders(d) \ {p} = {}
    <3>1. "overlap" \notin taint'[d]
      BY <2>1
    <3>2. "overlap" \notin Overlap(p, d)
      BY <1>3, <3>1
    <3> QED
      BY <3>2 DEF Overlap
  <2>3. \A q \in Procs : ~Filling(q, d)
    <3> TAKE q \in Procs
    <3>1. CASE q = p
      BY <1>3, <3>1 DEF Filling
    <3>2. CASE q # p
      <4>1. Filling(q, d) => q \in Holders(d)
        BY <1>1, WorkerHolds DEF Filling, Working
      <4> QED
        BY <2>2, <3>2, <4>1
    <3> QED
      BY <3>1, <3>2
  <2>4. \/ rows[d] = {[from |-> meta[d].sha, backend |-> Recorded(meta[d])]}
        \/ "crash" \in taint[d] /\ (back \/ meta[d].sha \in past[meta[d].ref])
    <3>1. taint[d] \subseteq {"crash"} /\ meta[d].ref # None /\ meta[d].sha # None
      BY <1>2, <1>3, <1>4, <2>1, ProvisionAssumption
    <3> QED
      BY <1>1, <2>3, <3>1 DEF Stored
  <2>5. "crash" \in taint[d] => ~back /\ s \notin past[r]
    BY <1>3, <2>1
  <2> QED
    BY <1>2, <2>4, <2>5
<1> QED
  BY <1>2, <1>3, <1>5 DEF OnSide

\* A call never chooses its own finished side again to fill it.
LEMMA NotTwice ==
    ASSUME Inv, NEW p \in Procs, NEW d \in Dbs, call[p].pc \in {"candidate", "fallback"},
           NEW i \in 1..Side(p), call[p].taken[i] = d,
           Verdict(d, call[p].refs[Side(p) + 1], call[p].shas[Side(p) + 1], call[p].backend)
             \notin {"occupied", "reused"}
    PROVE  Overlapped(d)
<1> DEFINE n == Side(p) + 1
           r == call[p].refs[n]
           s == call[p].shas[n]
<1>1. TypeInv /\ Sided /\ Resolved
  BY DEF Inv
<1>2. call[p] \in Calls /\ Formed(call[p])
  BY <1>1 DEF TypeInv
<1>3. Side(p) \in Nat /\ Side(p) < Len(call[p].refs) /\ Len(call[p].refs) \in Nat
  BY <1>2 DEF Formed, Side, Calls
<1>4. n \in 1..Len(call[p].refs) /\ i \in 1..Len(call[p].refs)
  BY <1>3
<1>5. SUFFICES ASSUME ~Overlapped(d) PROVE FALSE
  OBVIOUS
<1>6. meta[d].by = "branch-diff" /\ meta[d].ref = call[p].refs[i] /\ meta[d].sha = call[p].shas[i]
  BY <1>1, <1>5 DEF Sided, Settled, Working
<1> DEFINE v == Verdict(d, r, s, call[p].backend)
<1>7. meta[d].ref = r /\ meta[d].sha # s
  <2>1. v = "rebuilt" \/ v = "created" \/ v = "reused" \/ v = "occupied"
    BY Zenon DEF Verdict
  <2>2. v = "created" => meta[d].by # "branch-diff"
    BY Zenon DEF Verdict
  <2>3. v = "rebuilt" => meta[d].ref = r /\ meta[d].sha # s
    BY Zenon DEF Verdict
  <2> QED
    BY <1>6, <2>1, <2>2, <2>3
<1>8. call[p].refs[i] = r => call[p].shas[i] = s
  BY <1>1, <1>4 DEF Resolved
<1> QED
  BY <1>6, <1>7, <1>8

\* What a call has taken remains what it took.
LEMMA SidedStep ==
    ASSUME Inv, NEW p \in Procs, NEW c, StepTo(p, c)
    PROVE  Sided'
<1>1. TypeInv /\ Sided /\ OneHolder
  BY DEF Inv
<1>2. /\ call' \in [Procs -> Calls] /\ call'[p] = c
      /\ \A q \in Procs : q # p => call'[q] = call[q]
      /\ \A q \in Procs : Formed(call'[q])
  BY <1>1, CallsAfter DEF StepTo
<1>3. ASSUME NEW q \in Procs, NEW i \in Settled(q)
      PROVE  /\ call[q].taken[i] \in Dbs /\ q \in Holders(call[q].taken[i])
             /\ i \in 1..Side(q) /\ Side(q) \in Nat
             /\ OnSide(call[q].taken[i], call[q].refs[i], call[q].shas[i], call[q].backend)
             /\ call[q].pc \in Working /\ Db(q) = call[q].taken[i] => Overlapped(call[q].taken[i])
  <2>1. call[q].taken \in Seq(Dbs) /\ Side(q) \in Nat
    BY <1>1 DEF TypeInv, Calls, Side
  <2>2. i \in 1..Side(q)
    BY <2>1 DEF Settled
  <2>3. call[q].taken[i] \in Dbs /\ q \in Holders(call[q].taken[i])
    BY <2>1, <2>2 DEF Holders, Side
  <2>4. OnSide(call[q].taken[i], call[q].refs[i], call[q].shas[i], call[q].backend)
    BY <1>1 DEF Sided, OnSide, Want
  <2>5. call[q].pc \in Working /\ Db(q) = call[q].taken[i] => Overlapped(call[q].taken[i])
    BY <1>1 DEF Sided
  <2> QED
    BY <2>1, <2>2, <2>3, <2>4, <2>5
<1> DEFINE Fine(q, i, d, r, s, k) ==
             OnSide(d, r, s, k)' /\ (call'[q].pc \in Working /\ Db(q)' = d => Overlapped(d)')
<1>4. ASSUME NEW q \in Procs \ {p}, NEW i \in Settled(q), NEW d, d = call[q].taken[i],
             NEW r, r = call[q].refs[i], NEW s, s = call[q].shas[i], NEW k, k = call[q].backend
      PROVE  Fine(q, i, d, r, s, k)
  <2>1. /\ d \in Dbs /\ q \in Holders(d) /\ OnSide(d, r, s, k)
        /\ call[q].pc \in Working /\ Db(q) = d => Overlapped(d)
    BY <1>3, <1>4
  <2>2. call[p].pc \in {"clear", "insert", "tag"} /\ Db(p) = d => Overlapped(d)
    <3>1. call[p].pc \in {"clear", "insert", "tag"} /\ Db(p) = d => p \in Holders(d)
      BY <1>1, WorkerHolds DEF Working
    <3> QED
      BY <1>1, <2>1, <3>1 DEF OneHolder
  <2>3. OnSide(d, r, s, k)'
    BY <1>1, <2>1, <2>2, SideKept
  <2>4. Overlapped(d) => Overlapped(d)'
    BY <1>1, <2>1, Frame DEF Overlapped
  <2>5. call'[q] = call[q] /\ Db(q)' = Db(q)
    BY <1>2 DEF Db, Side
  <2> QED
    BY <2>1, <2>3, <2>4, <2>5
\* a side that was settled before
<1>5. ASSUME NEW i \in Settled(p), NEW d, d = call[p].taken[i],
             NEW r, r = call[p].refs[i], NEW s, s = call[p].shas[i], NEW k, k = call[p].backend
      PROVE  OnSide(d, r, s, k)' /\ (Overlapped(d) => Overlapped(d)')
  <2>1. /\ d \in Dbs /\ OnSide(d, r, s, k)
        /\ call[p].pc \in Working /\ Db(p) = d => Overlapped(d)
    BY <1>3, <1>5
  <2>2. OnSide(d, r, s, k)'
    BY <1>1, <2>1, SideKept DEF Working
  <2>3. Overlapped(d) => Overlapped(d)'
    BY <1>1, <2>1, Frame DEF Overlapped
  <2> QED
    BY <2>2, <2>3
<1>6. ASSUME NEW i \in Settled(p)', NEW d, d = c.taken[i], NEW r, r = c.refs[i],
             NEW s, s = c.shas[i], NEW k, k = c.backend
      PROVE  Fine(p, i, d, r, s, k)
  <2>1. i \in IF c.pc \in Working THEN 1..Len(c.taken) - 1 ELSE 1..Len(c.taken)
    BY <1>2 DEF Settled, Side
  <2>2. c # NoCall
    BY <2>1 DEF NoCall, Working
  <2>3. ~StartTo(p, c)
    <3>1. CASE c.taken = <<>> /\ c.pc = "candidate"
      BY <2>1, <3>1 DEF Working
    <3>2. ASSUME NEW b \in Dbs, c.taken = <<b>>, c.pc = "export" PROVE FALSE
      BY <2>1, <3>2 DEF Working
    <3> QED
      BY <3>1, <3>2 DEF StartTo
  <2>4. CASE Same(p, c) /\ (OccupiedTo(p, c) \/ QuietTo(p, c) \/ ClearTo(p, c) \/ InsertTo(p, c)
                            \/ (TagTo(p, c) /\ c.pc = "tag"))
    <3>1. c.pc \in Working <=> call[p].pc \in Working
      BY <2>2, <2>4 DEF OccupiedTo, QuietTo, ClearTo, InsertTo, TagTo, At, Working
    <3>2. i \in Settled(p) /\ d = call[p].taken[i] /\ r = call[p].refs[i] /\ s = call[p].shas[i]
          /\ k = call[p].backend
      BY <1>6, <2>1, <2>4, <3>1 DEF Settled, Same, Side
    <3>3. Db(p)' = Db(p)
      BY <1>2, <2>4 DEF Db, Side, Same
    <3>4. call[p].pc \in Working /\ Db(p) = d => Overlapped(d)
      BY <1>3, <3>2
    <3> QED
      BY <1>2, <1>5, <3>1, <3>2, <3>3, <3>4
  <2>5. CASE TagTo(p, c) /\ c.pc # "tag"
    <3>1. /\ Same(p, c) /\ c.pc \in {"candidate", "diff"} /\ call[p].left = <<"sha">>
          /\ call[p].pc = "tag" /\ taint' = taint /\ back' = back
      BY <2>2, <2>5 DEF TagTo, At
    <3>2. i \in 1..Side(p) /\ Side(p) \in Nat
      BY <1>1, <2>1, <3>1, WorkingSide DEF Same, Side, Working
    <3>3. CASE i \in Settled(p)
      BY <1>2, <1>5, <1>6, <3>1, <3>3 DEF Same, Working
    <3>4. CASE i \notin Settled(p)
      <4>1. i = Side(p) /\ d = Db(p)
        BY <1>6, <3>1, <3>2, <3>4 DEF Settled, Working, Db, Same
      <4>2. /\ d \in Dbs /\ meta'[d].sha = s /\ meta'[d].by = "branch-diff"
            /\ ~Overlapped(d) => meta'[d].ref = r
            /\ (taint[d] \cap {"user", "overlap"} = {}) => rows'[d] = {Want(p, i)}
        BY <1>6, <2>5, <3>1, <4>1, LastKey DEF Same
      <4>3. Undisturbed(d)' => taint[d] \cap {"user", "overlap"} = {}
        BY <3>1 DEF Undisturbed
      <4>4. Want(p, i) = [from |-> s, backend |-> k]
        BY <1>6, <3>1 DEF Want, Same
      <4>5. OnSide(d, r, s, k)'
        BY <3>1, <4>2, <4>3, <4>4 DEF OnSide, Overlapped
      <4> QED
        BY <1>2, <3>1, <4>5 DEF Working
    <3> QED
      BY <3>3, <3>4
  <2>6. ASSUME NEW b \in Dbs, TakeTo(p, c, b)
        PROVE  Fine(p, i, d, r, s, k)
    <3> DEFINE n == Side(p) + 1
    <3>1. /\ call[p] \in Calls /\ Formed(call[p]) /\ call[p].pc \in {"candidate", "fallback"}
          /\ c.taken = Append(call[p].taken, b) /\ c.refs = call[p].refs /\ c.shas = call[p].shas
          /\ c.backend = call[p].backend
      BY <1>1, <2>6 DEF TakeTo, TypeInv
    <3>2. Side(p) \in Nat /\ n \in 1..Len(call[p].refs) /\ Len(c.taken) = n
      BY <3>1 DEF Formed, Side, Calls
    <3>3. CASE i \in 1..Side(p)
      <4>1. i \in Settled(p) /\ d = call[p].taken[i]
        BY <1>6, <3>1, <3>2, <3>3 DEF Settled, Working, Side, Calls
      <4>2. OnSide(d, r, s, k)' /\ (Overlapped(d) => Overlapped(d)')
        BY <1>5, <1>6, <3>1, <4>1
      <4>3. c.pc \in Working /\ Db(p)' = d => Overlapped(d)
        <5>1. Db(p)' = b
          BY <1>2, <3>1, <3>2 DEF Db, Side, Calls
        <5>2. c.pc \in Working => Verdict(b, call[p].refs[n], call[p].shas[n], call[p].backend)
                                    \notin {"occupied", "reused"}
          BY <2>6 DEF TakeTo, Working
        <5> QED
          BY <3>1, <3>3, <4>1, <5>1, <5>2, NotTwice
      <4> QED
        BY <1>2, <4>2, <4>3
    <3>4. CASE i \notin 1..Side(p)
      <4>1. c.pc \notin Working /\ i = n
        BY <2>1, <3>2, <3>4
      <4>2. d = b
        BY <1>6, <3>1, <3>2, <4>1 DEF Side, Calls
      <4>3. Verdict(b, r, s, k) = "reused" /\ r = call[p].refs[n] /\ s = call[p].shas[n]
            /\ k = call[p].backend
        BY <1>6, <2>6, <3>1, <4>1 DEF TakeTo, Working
      <4>4. OnSide(b, r, s, k)'
        BY <2>6, <3>2, <4>3, ReusedSide
      <4> QED
        BY <1>2, <4>1, <4>2, <4>4
    <3> QED
      BY <3>3, <3>4
  <2>7. ~CrashTo(p, c)
    BY <2>2 DEF CrashTo
  <2>8. OccupiedTo(p, c) \/ QuietTo(p, c) \/ ClearTo(p, c) \/ InsertTo(p, c) \/ TagTo(p, c) => Same(p, c)
    BY <2>2 DEF OccupiedTo, QuietTo, ClearTo, InsertTo, TagTo
  <2> QED
    BY <2>3, <2>4, <2>5, <2>6, <2>7, <2>8 DEF StepTo
<1>7. ASSUME NEW q \in Procs, NEW i \in Settled(q)', NEW d, d = call'[q].taken[i],
             NEW r, r = call'[q].refs[i], NEW s, s = call'[q].shas[i], NEW k, k = call'[q].backend
      PROVE  Fine(q, i, d, r, s, k)
  <2>1. CASE q = p
    BY <1>2, <1>6, <1>7, <2>1
  <2>2. CASE q # p
    <3>1. call'[q] = call[q] /\ Settled(q)' = Settled(q)
      BY <1>2, <2>2 DEF Settled, Side
    <3> QED
      BY <1>4, <1>7, <2>2, <3>1
  <2> QED
    BY <2>1, <2>2
<1>8. ASSUME NEW q \in Procs, NEW i \in Settled(q)'
      PROVE  /\ ~Overlapped(call[q].taken[i])' => /\ meta'[call'[q].taken[i]].by = "branch-diff"
                                                 /\ meta'[call'[q].taken[i]].ref = call'[q].refs[i]
                                                 /\ meta'[call'[q].taken[i]].sha = call'[q].shas[i]
             /\ Undisturbed(call[q].taken[i])' => rows'[call'[q].taken[i]] = {Want(q, i)'}
             /\ call'[q].pc \in Working /\ Db(q)' = call'[q].taken[i] => Overlapped(call[q].taken[i])'
  BY <1>7, <1>8 DEF OnSide, Want, Overlapped, Undisturbed
<1> QED
  BY <1>8 DEF Sided

-----------------------------------------------------------------------------
(* The invariant holds, and what follows from it.                          *)

\* Together: every step preserves the invariant.
LEMMA InvNext == Inv /\ [Next]_vars => Inv'
<1> SUFFICES ASSUME Inv, [Next]_vars PROVE Inv'
  OBVIOUS
<1>1. TypeInv
  BY DEF Inv
<1>2. ASSUME NEW p \in Procs, Step(p) PROVE Inv'
  <2> PICK c : StepTo(p, c)
    BY <1>1, <1>2, Steps
  <2>1. TypeInv'
    BY <1>1, <1>2, TypeStep
  <2> QED
    BY <2>1, OneHolderStep, ResolvedStep, TagsKnownStep, WritingStep, LeavingStep, FilledStep,
       StoredStep, SidedStep, ClaimedStep DEF Inv
<1>3. CASE Move \/ UserIndex
  BY <1>3, EnvKeeps
<1>4. CASE UNCHANGED vars
  <2>1. UNCHANGED <<tip, rows, meta, call, calls, moves, indexed, taint, past, back>>
    BY <1>4 DEF vars, dbVars, envVars, histVars
  <2>2. TypeInv'
    BY <1>1, <2>1 DEF TypeInv
  <2>3. OneHolder' /\ Resolved' /\ TagsKnown'
    BY <2>1 DEF Inv, OneHolder, Resolved, TagsKnown, Known, Overlapped, Holders, Side, Filling, Db
  <2>4. Writing' /\ Leaving'
    BY <2>1 DEF Inv, Writing, Leaving, Overlapped, Side, Db, At
  <2>5. Filled' /\ Stored'
    BY <2>1 DEF Inv, Filled, Stored, Filling, Side, Db, At, Want
  <2>6. Sided' /\ Claimed'
    BY <2>1 DEF Inv, Sided, Claimed, Settled, Undisturbed, Overlapped, Side, Db, Want
  <2> QED
    BY <2>2, <2>3, <2>4, <2>5, <2>6 DEF Inv
<1> QED
  BY <1>2, <1>3, <1>4 DEF Next

\* The invariant holds in every reachable state.
THEOREM Invariance == Spec => []Inv
<1>1. Init => Inv
  BY InitInv
<1>2. Inv /\ [Next]_vars => Inv'
  BY InvNext
<1> QED
  BY <1>1, <1>2, PTL DEF Spec

\* Databases, tags and calls always have their types: provenance keys are
\* refs, commits and backends, and a call never holds more than two databases.
THEOREM Types == Spec => []TypeOK
<1>1. Inv => TypeOK
  <2> SUFFICES ASSUME Inv PROVE TypeOK
    OBVIOUS
  <2>1. TypeInv
    BY DEF Inv
  <2>2. \A p \in Procs : CallOK(call[p])
    <3> TAKE p \in Procs
    <3>1. call[p] \in Calls /\ Formed(call[p])
      BY <2>1 DEF TypeInv
    <3>2. Len(call[p].refs) <= 2
      <4> DEFINE m == Len(call[p].refs)
      <4>1. m \in 0..2
        BY <3>1 DEF Formed
      <4> HIDE DEF m
      <4>2. m <= 2
        BY <4>1
      <4> QED
        BY <4>2 DEF m
    <3> QED
      BY <3>1, <3>2 DEF CallOK, Calls, Formed
  <2> QED
    BY <2>1, <2>2 DEF TypeOK, TypeInv, Metas, Marks
<1> QED
  BY <1>1, Invariance, PTL

\* what a comparison finds on its two sides
LEMMA Compared ==
    ASSUME Inv, NEW p \in Procs, At(p, "diff")
    PROVE  \A i \in 1..2 :
             /\ ~Overlapped(call[p].taken[i]) => meta[call[p].taken[i]].ref = call[p].refs[i]
             /\ Undisturbed(call[p].taken[i]) => rows[call[p].taken[i]] = {Want(p, i)}
<1>1. Formed(call[p]) /\ Sided
  BY DEF Inv, TypeInv
<1>2. Settled(p) = 1..2
  BY <1>1 DEF At, Formed, Settled, Side, Working
<1> QED
  BY <1>1, <1>2 DEF Sided

\* "Stale diffs are never returned": whatever other calls, the user, moving
\* refs and calls that died have done before, a comparison of databases that
\* nothing else has touched reads the two exports it was asked for.
THEOREM DiffsAreFresh == Spec => []DiffsItsRefs
<1>1. Inv => DiffsItsRefs
  BY Compared DEF DiffsItsRefs, Want
<1> QED
  BY <1>1, Invariance, PTL

\* Two different refs of one comparison never end up in one database, unless
\* another call, the user or `-w` interfered.
THEOREM RefsApart == Spec => []SidesApart
<1>1. Inv => SidesApart
  <2> SUFFICES ASSUME Inv, NEW p \in Procs, At(p, "diff"), call[p].taken[1] = call[p].taken[2],
                      taint[call[p].taken[1]] = {}
               PROVE  call[p].refs[1] = call[p].refs[2]
    BY DEF SidesApart
  <2>1. ~Overlapped(call[p].taken[1]) /\ ~Overlapped(call[p].taken[2])
    BY DEF Overlapped
  <2>2. meta[call[p].taken[1]].ref = call[p].refs[1] /\ meta[call[p].taken[2]].ref = call[p].refs[2]
    BY <2>1, Compared
  <2> QED
    BY <2>2
<1> QED
  BY <1>1, Invariance, PTL

\* The decision table never empties a database that holds the user's own
\* index: a rebuild takes a database for its own, or one that was empty when
\* it looked.
THEOREM UserIndexIsKept == Spec => UserIndexKept
<1> DEFINE Kept == \A d \in Dbs :
          /\ meta[d].by = None
          /\ \E e \in rows[d] : e.from = WorkTree
          /\ \A e \in rows'[d] : e.from # WorkTree
          => \/ "raced" \in taint[d]
             \/ \E p \in Procs : At(p, "clear") /\ Db(p) = d /\ call[p].into = d
<1>1. Inv /\ [Next]_vars => Kept
  <2> SUFFICES ASSUME Inv, [Next]_vars, NEW d \in Dbs, meta[d].by = None,
                      \E e \in rows[d] : e.from = WorkTree, \A e \in rows'[d] : e.from # WorkTree
               PROVE  \/ "raced" \in taint[d]
                      \/ \E p \in Procs : At(p, "clear") /\ Db(p) = d /\ call[p].into = d
    BY DEF Kept
  <2>1. TypeInv /\ Claimed
    BY DEF Inv
  <2>2. rows'[d] # rows[d] /\ ~(rows[d] \subseteq rows'[d])
    OBVIOUS
  <2>3. ASSUME NEW p \in Procs, Step(p)
        PROVE  \/ "raced" \in taint[d]
               \/ At(p, "clear") /\ Db(p) = d /\ call[p].into = d
    <3> PICK c : StepTo(p, c)
      BY <2>1, <2>3, Steps
    <3>1. call[p].pc \in {"clear", "insert"} /\ Db(p) = d
      BY <2>1, <2>2, Frame
    <3>2. ~InsertTo(p, c)
      BY <2>1, <2>2, <3>1 DEF InsertTo, TypeInv
    <3>3. call[p].pc = "clear"
      BY <2>2, <3>1, <3>2 DEF StepTo, StartTo, OccupiedTo, QuietTo, ClearTo, TagTo, CrashTo, TakeTo, At
    <3>4. CASE call[p].into = None
      BY <2>1, <3>1, <3>3, <3>4 DEF Claimed
    <3>5. CASE call[p].into # None
      <4>1. call[p].taken = <<call[p].into>>
        BY <2>1, <3>5 DEF TypeInv, Formed
      <4>2. Db(p) = call[p].into
        BY <4>1 DEF Db, Side
      <4> QED
        BY <3>1, <3>3, <4>2 DEF At
    <3> QED
      BY <3>4, <3>5
  <2>4. ~Move
    BY <2>2 DEF Move, dbVars
  <2>5. ~UserIndex
    <3> SUFFICES ASSUME UserIndex PROVE FALSE
      OBVIOUS
    <3>1. PICK r \in Refs, k \in Backends :
            LET new == {[from |-> WorkTree, backend |-> k]}
            IN  rows' = [rows EXCEPT ![DbOf[r]] = new] \/ rows' = [rows EXCEPT ![DbOf[r]] = @ \cup new]
      BY DEF UserIndex
    <3>2. rows \in [Dbs -> SUBSET Export]
      BY <2>1 DEF TypeInv
    <3>3. d = DbOf[r] /\ [from |-> WorkTree, backend |-> k] \in rows'[d]
      BY <2>2, <3>1, <3>2
    <3>4. [from |-> WorkTree, backend |-> k].from = WorkTree
      OBVIOUS
    <3> QED
      BY <3>3, <3>4
  <2>6. ~UNCHANGED vars
    BY <2>2 DEF vars, dbVars
  <2> QED
    BY <2>3, <2>4, <2>5, <2>6 DEF Next
<1>2. Spec => [][Kept]_vars
  <2>1. Inv /\ [Next]_vars => [Kept]_vars
    BY <1>1
  <2> QED
    BY <2>1, Invariance, PTL DEF Spec
<1> QED
  BY <1>2 DEF UserIndexKept

-----------------------------------------------------------------------------
(* The databases as a cache of exports.                                    *)

\* A database shows an export or nothing,
LEMMA ShownTypes ==
    ASSUME TypeInv
    PROVE  Shows \in [Dbs -> Export \cup {None}]
<1>1. \A d \in Dbs : Shown(d) \in Export \cup {None}
  <2> TAKE d \in Dbs
  <2>1. rows[d] \subseteq Export
    BY DEF TypeInv
  <2> QED
    BY <2>1 DEF Shown
<1> QED
  BY <1>1 DEF Shows

\* and still does after a step.
LEMMA ShownTypesAfter ==
    ASSUME TypeInv'
    PROVE  Shows' \in [Dbs -> Export \cup {None}]
<1>1. \A d \in Dbs : Shown(d)' \in Export \cup {None}
  <2> TAKE d \in Dbs
  <2>1. rows'[d] \subseteq Export
    BY DEF TypeInv
  <2> QED
    BY <2>1 DEF Shown
<1> QED
  BY <1>1 DEF Shows

\* what a call asks for and what it is served
LEMMA Requests ==
    ASSUME TypeInv, NEW p \in Procs
    PROVE  /\ Asked[p] = Wanted(call[p])
           /\ DOMAIN Asked[p] = 1..Len(call[p].refs)
           /\ \A i \in 1..Len(call[p].refs) : Asked[p][i] = Want(p, i) /\ Want(p, i) \in Export
           /\ Len(call[p].refs) = 0 <=> Asked[p] = <<>>
           /\ Len(call[p].refs) = 2 => Len(Asked[p]) = 2
           /\ Len(call[p].refs) # 0 => Asked[p] \in Cache!Requests
<1>1. call[p] \in Calls /\ Formed(call[p])
  BY DEF TypeInv
<1> DEFINE m == Len(call[p].refs)
           a == Asked[p]
<1>2. m \in {0, 1, 2} /\ Len(call[p].shas) = m
  BY <1>1 DEF Formed
<1>3. a = [i \in 1..m |-> [from |-> call[p].shas[i], backend |-> call[p].backend]]
  BY <1>2 DEF Asked, Wanted
<1>4. \A i \in 1..m : call[p].shas[i] \in Shas
  BY <1>1, <1>2 DEF Calls
<1>5. \A i \in 1..m : Want(p, i) \in Export
  BY <1>1, <1>4 DEF Want, Export, Calls
<1>6. a = [i \in 1..m |-> Want(p, i)] /\ a = Wanted(call[p])
  BY <1>3 DEF Want, Asked
<1> HIDE DEF m, a
<1>7. DOMAIN a = 1..m /\ \A i \in 1..m : a[i] = Want(p, i)
  BY <1>6
<1>8. CASE m = 0
  <2>1. a = <<>>
    BY <1>6, <1>8
  <2> QED
    BY <1>5, <1>6, <1>7, <1>8, <2>1 DEF m, a
<1>9. CASE m = 1
  <2>1. a \in [1..1 -> Export] /\ a # <<>>
    BY <1>5, <1>6, <1>7, <1>9
  <2> QED
    BY <1>5, <1>6, <1>7, <1>9, <2>1 DEF m, a, Cache!Requests
<1>10. CASE m = 2
  <2>1. a \in [1..2 -> Export] /\ a # <<>> /\ Len(a) = 2
    BY <1>5, <1>6, <1>7, <1>10
  <2> QED
    BY <1>5, <1>6, <1>7, <1>10, <2>1 DEF m, a, Cache!Requests
<1> QED
  BY <1>2, <1>8, <1>9, <1>10

\* Whatever databases are there at first, the cache can begin with them.
LEMMA CacheBegins == Init => Cache!CacheInit
<1> SUFFICES ASSUME Init PROVE Cache!CacheInit
  OBVIOUS
<1>1. TypeInv
  BY InitInv DEF Inv
<1>2. Shows \in [Dbs -> Export \cup {None}]
  BY <1>1, ShownTypes
<1>3. Spoiled = {}
  BY DEF Spoiled, Undisturbed, Init
<1>4. \A p \in Procs : call[p] = NoCall
  BY DEF Init
<1>5. NoCall.pc = "idle" /\ Len(NoCall.refs) = 0
  BY DEF NoCall
<1>6. Asked = [p \in Procs |-> <<>>]
  <2>1. \A p \in Procs : Asked[p] = <<>>
    BY <1>1, <1>4, <1>5, Requests
  <2> QED
    BY <2>1 DEF Asked
<1>7. Served = [p \in Procs |-> <<>>]
  BY <1>4, <1>5 DEF Served
<1> QED
  BY <1>2, <1>3, <1>6, <1>7 DEF Cache!CacheInit

\* a slot that shows something else than before has been written
LEMMA ShownKept ==
    ASSUME \A d \in Dbs : rows'[d] = rows[d]
    PROVE  Shows' = Shows
BY DEF Shows, Shown

\* a step of p leaves what other calls ask for and are served
LEMMA OthersKept ==
    ASSUME TypeInv, NEW p \in Procs, NEW c, Moves(p, c)
    PROVE  /\ Asked' = [Asked EXCEPT ![p] = Wanted(c)]
           /\ Served' = [Served EXCEPT ![p] = IF c.pc = "diff" THEN c.taken ELSE <<>>]
<1>1. /\ call'[p] = c
      /\ \A q \in Procs : q # p => call'[q] = call[q]
  BY CallsAfter
<1> QED
  BY <1>1 DEF Asked, Served, Wanted

\* and a call that only moves on keeps what it asked for
LEMMA AskedKept ==
    ASSUME TypeInv, NEW p \in Procs, NEW c, Moves(p, c),
           c.refs = call[p].refs, c.shas = call[p].shas, c.backend = call[p].backend
    PROVE  Asked' = Asked
<1>1. Wanted(c) = Wanted(call[p])
  BY DEF Wanted
<1>2. Asked[p] = Wanted(c) /\ Asked = [q \in Procs |-> Asked[q]]
  BY <1>1 DEF Asked
<1>3. Asked' = [Asked EXCEPT ![p] = Wanted(c)]
  BY OthersKept
<1> QED
  BY <1>2, <1>3

\* what is spoiled stays so, but for a database that is being emptied
LEMMA Spoils ==
    ASSUME TypeInv, NEW p \in Procs, NEW c, StepTo(p, c), call[p].pc # "clear"
    PROVE  Spoiled \subseteq Spoiled'
<1> SUFFICES ASSUME NEW d \in Dbs, ~Undisturbed(d) PROVE ~Undisturbed(d)'
  BY DEF Spoiled
<1>1. taint[d] \subseteq taint'[d] /\ (back => back')
  BY Frame
<1> QED
  BY <1>1 DEF Undisturbed

\* the end of a call
LEMMA LeaveStep ==
    ASSUME TypeInv, NEW p \in Procs, StepTo(p, NoCall), call[p].pc # "clear",
           \A d \in Dbs : rows'[d] = rows[d]
    PROVE  Cache!CacheNext
<1>1. NoCall.pc = "idle" /\ Wanted(NoCall) = <<>>
  BY DEF NoCall, Wanted
<1>2. Asked' = [Asked EXCEPT ![p] = <<>>] /\ Served' = [Served EXCEPT ![p] = <<>>]
  BY <1>1, OthersKept DEF StepTo
<1>3. Spoiled \subseteq Spoiled' /\ Shows' = Shows
  BY Spoils, ShownKept
<1> QED
  BY <1>2, <1>3 DEF Cache!CacheNext, Cache!Leave, Cache!Interfere

\* a step that only moves on, or writes what is spoiled
LEMMA MeddleStep ==
    ASSUME TypeInv, TypeInv', NEW p \in Procs, NEW c, StepTo(p, c), call[p].pc \notin {"clear", "diff"},
           c.refs = call[p].refs, c.shas = call[p].shas, c.backend = call[p].backend, c.pc # "diff",
           \A d \in Dbs : rows'[d] # rows[d] => ~Undisturbed(d)'
    PROVE  Cache!CacheNext
<1>1. Asked' = Asked
  BY AskedKept DEF StepTo
<1>2. Served' = Served
  <2>1. Served[p] = <<>> /\ Served = [q \in Procs |-> Served[q]]
    BY DEF Served
  <2>2. Served' = [Served EXCEPT ![p] = <<>>]
    BY OthersKept DEF StepTo
  <2> QED
    BY <2>1, <2>2
<1>3. Spoiled \subseteq Spoiled' /\ Shows' \in [Dbs -> Export \cup {None}]
  BY Spoils, ShownTypesAfter
<1>4. \A d \in Dbs : Shows'[d] # Shows[d] => d \in Spoiled'
  BY DEF Shows, Shown, Spoiled
<1> QED
  BY <1>1, <1>2, <1>3, <1>4 DEF Cache!CacheNext, Cache!Meddle, Cache!Interfere

\* the beginning of a comparison
LEMMA ServeStep ==
    ASSUME Inv, Inv', NEW p \in Procs, NEW c, StepTo(p, c), call[p].pc \notin {"clear", "diff"},
           c.refs = call[p].refs, c.shas = call[p].shas, c.backend = call[p].backend, c.pc = "diff",
           \A d \in Dbs : rows'[d] = rows[d]
    PROVE  Cache!CacheNext
<1>1. TypeInv /\ Formed(c) /\ c \in Calls /\ call'[p] = c
  BY CallsAfter DEF StepTo, Moves, Inv
<1>2. Len(c.taken) = 2 /\ Len(c.refs) = 2 /\ c.taken \in Seq(Dbs)
  <2> DEFINE m == Len(c.refs)
             n == Len(c.taken)
  <2>1. n = 2 /\ m \in {0, 1, 2} /\ n <= m /\ c.taken \in Seq(Dbs)
    BY <1>1 DEF Formed, Calls
  <2> HIDE DEF m, n
  <2>2. m = 2
    BY <2>1
  <2> QED
    BY <2>1, <2>2 DEF m, n
<1>3. c.taken[1] \in Dbs /\ c.taken[2] \in Dbs /\ c.taken = <<c.taken[1], c.taken[2]>>
  BY <1>2
<1>4. Asked' = Asked
  BY <1>1, AskedKept DEF StepTo
<1>5. Served' = [Served EXCEPT ![p] = <<c.taken[1], c.taken[2]>>] /\ Served[p] = <<>>
  <2>1. Served' = [Served EXCEPT ![p] = c.taken]
    BY <1>1, OthersKept DEF StepTo
  <2>2. Served[p] = <<>>
    BY DEF Served
  <2> QED
    BY <1>3, <2>1, <2>2
<1>6. Spoiled \subseteq Spoiled' /\ Shows' = Shows
  BY <1>1, Spoils, ShownKept
<1>7. Len(Asked[p]) = 2 /\ \A i \in 1..2 : Asked[p][i] = Want(p, i) /\ Want(p, i) \in Export
  BY <1>1, <1>2, Requests
<1>8. ASSUME NEW i \in 1..2
      PROVE  c.taken[i] \in Spoiled' \/ Shows'[c.taken[i]] = Asked'[p][i]
  <2>1. Want(p, i)' = Want(p, i)
    BY <1>1 DEF Want
  <2>2. ASSUME Undisturbed(c.taken[i])' PROVE Shows'[c.taken[i]] = Want(p, i)
    <3>1. Sided' /\ Settled(p)' = 1..2
      BY <1>1, <1>2 DEF Inv, Settled, Side, Working
    <3>2. rows'[c.taken[i]] = {Want(p, i)}
      BY <1>1, <2>1, <2>2, <3>1 DEF Sided, Undisturbed
    <3> QED
      BY <1>3, <3>2 DEF Shows, Shown
  <2> QED
    <3>1. c.taken[i] \in Dbs /\ Asked'[p][i] = Want(p, i)
      BY <1>3, <1>4, <1>7
    <3> QED
      BY <2>2, <3>1 DEF Spoiled
<1>9. PICK a \in Dbs, b \in Dbs :
        /\ Served' = [Served EXCEPT ![p] = <<a, b>>]
        /\ a \in Spoiled' \/ Shows'[a] = Asked'[p][1]
        /\ b \in Spoiled' \/ Shows'[b] = Asked'[p][2]
  <2>1. /\ c.taken[1] \in Spoiled' \/ Shows'[c.taken[1]] = Asked'[p][1]
        /\ c.taken[2] \in Spoiled' \/ Shows'[c.taken[2]] = Asked'[p][2]
    BY <1>8
  <2> QED
    BY <1>3, <1>5, <2>1
<1>10. Cache!Serve(p)
  BY <1>4, <1>5, <1>6, <1>7, <1>9 DEF Cache!Serve, Cache!Interfere, Cache!Sound
<1> QED
  BY <1>10 DEF Cache!CacheNext

\* what a call asks for is one export or two
LEMMA Asks ==
    ASSUME NEW c \in Calls, Formed(c), c.pc # "idle"
    PROVE  Wanted(c) \in Cache!Requests
<1> DEFINE m == Len(c.shas)
           w == Wanted(c)
<1>1. m \in {1, 2}
  BY DEF Formed
<1>2. \A i \in 1..m : c.shas[i] \in Shas
  <2>1. c.shas \in Seq(Shas)
    BY DEF Calls
  <2> QED
    BY <2>1
<1>3. w = [i \in 1..m |-> [from |-> c.shas[i], backend |-> c.backend]]
  BY DEF Wanted
<1>4. \A i \in 1..m : [from |-> c.shas[i], backend |-> c.backend] \in Export
  BY <1>2 DEF Export, Calls
<1> HIDE DEF m, w
<1>5. w \in [1..m -> Export]
  BY <1>3, <1>4
<1> QED
  BY <1>1, <1>5 DEF w, Cache!Requests

\* the beginning of a call
LEMMA AskStep ==
    ASSUME TypeInv, NEW p \in Procs, NEW c, StepTo(p, c), StartTo(p, c)
    PROVE  Cache!CacheNext
<1>1. /\ c \in Calls /\ Formed(c) /\ c.pc \in {"candidate", "export"} /\ call[p].pc = "idle"
      /\ Formed(call[p])
  BY DEF StepTo, Moves, StartTo, TypeInv, At
<1>2. Asked[p] = <<>> /\ Wanted(c) \in Cache!Requests
  BY <1>1, Requests, Asks DEF Formed
<1>3. Asked' = [Asked EXCEPT ![p] = Wanted(c)] /\ Asked'[p] = Wanted(c)
  BY OthersKept DEF StepTo, Asked
<1>4. Served' = Served
  <2>1. Served[p] = <<>> /\ Served = [q \in Procs |-> Served[q]]
    BY <1>1 DEF Served
  <2>2. Served' = [Served EXCEPT ![p] = <<>>]
    BY <1>1, OthersKept DEF StepTo
  <2> QED
    BY <2>1, <2>2
<1>5. Spoiled \subseteq Spoiled'
  BY <1>1, Spoils
<1>6. Shows' = Shows
  BY ShownKept DEF StartTo
<1> QED
  BY <1>2, <1>3, <1>4, <1>5, <1>6 DEF Cache!CacheNext, Cache!Ask, Cache!Interfere

\* a rebuild begins
LEMMA EmptyStep ==
    ASSUME Inv, NEW p \in Procs, NEW c, StepTo(p, c), ClearTo(p, c),
           NEW d \in Dbs, d = Db(p)
    PROVE  Cache!CacheNext
<1>1. /\ TypeInv /\ OneHolder /\ call[p].pc = "clear" /\ d \in Dbs /\ p \in Holders(d)
      /\ Formed(call[p])
  BY WorkingSide, WorkerHolds DEF Inv, TypeInv, ClearTo, At, Working
<1>2. /\ rows' = [rows EXCEPT ![d] = {}] /\ back' = back
      /\ taint' = [taint EXCEPT ![d] = IF Overlap(p, d) = {} THEN @ \cap {"overlap", "override"} ELSE @]
      /\ Same(p, c) /\ c.pc = "insert"
      /\ rows \in [Dbs -> SUBSET Export] /\ taint \in [Dbs -> SUBSET Marks]
  BY <1>1 DEF ClearTo, TypeInv
<1>3. Asked[p] # <<>>
  BY <1>1, Requests DEF Formed
<1>4. Asked' = Asked
  BY <1>1, <1>2, AskedKept DEF StepTo, Same
<1>5. Served' = Served
  <2>1. Served[p] = <<>> /\ Served = [q \in Procs |-> Served[q]]
    BY <1>1 DEF Served
  <2>2. Served' = [Served EXCEPT ![p] = <<>>]
    BY <1>1, <1>2, OthersKept DEF StepTo
  <2> QED
    BY <2>1, <2>2
<1>6. Shows' = [Shows EXCEPT ![d] = None]
  <2>1. rows'[d] = {} /\ \A b \in Dbs : b # d => rows'[b] = rows[b]
    BY <1>1, <1>2
  <2>2. Shown(d)' = None /\ \A b \in Dbs : b # d => Shown(b)' = Shown(b)
    BY <2>1 DEF Shown
  <2> QED
    BY <2>2 DEF Shows
<1>7. /\ \A b \in Dbs : b # d => (Undisturbed(b)' <=> Undisturbed(b))
      /\ Undisturbed(d) => Undisturbed(d)'
  <2>1. \A b \in Dbs : b # d => taint'[b] = taint[b]
    BY <1>1, <1>2
  <2>2. taint'[d] = taint[d] \/ taint'[d] = taint[d] \cap {"overlap", "override"}
    BY <1>1, <1>2
  <2>3. taint[d] = {} \/ taint[d] = {"crash"} => taint'[d] = {} \/ taint'[d] = taint[d]
    BY <2>2
  <2> QED
    BY <1>2, <2>1, <2>3 DEF Undisturbed
<1>8. Spoiled' \in {Spoiled, Spoiled \ {d}}
  <2>1. CASE Undisturbed(d)'
    <3>1. Spoiled' = Spoiled \ {d}
      BY <1>7, <2>1 DEF Spoiled
    <3> QED
      BY <3>1
  <2>2. CASE ~Undisturbed(d)'
    <3>1. Spoiled' = Spoiled
      BY <1>7, <2>2 DEF Spoiled
    <3> QED
      BY <3>1
  <2> QED
    BY <2>1, <2>2
<1>9. ASSUME NEW q \in Procs, NEW i \in DOMAIN Served[q], Served[q][i] = d
      PROVE  d \in Spoiled'
  <2>1. call[q].pc = "diff" /\ call[q].taken[i] = d /\ i \in 1..Len(call[q].taken)
    <3>1. CASE call[q].pc = "diff"
      <4>1. Served[q] = call[q].taken /\ call[q].taken \in Seq(Dbs)
        BY <1>1, <3>1 DEF Served, TypeInv, Calls
      <4> QED
        BY <1>9, <3>1, <4>1
    <3>2. CASE call[q].pc # "diff"
      <4>1. Served[q] = <<>>
        BY <3>2 DEF Served
      <4> QED
        BY <1>9, <4>1
    <3> QED
      BY <3>1, <3>2
  <2>2. q \in Holders(d) /\ q # p
    BY <1>1, <2>1 DEF Holders, Side
  <2>3. Overlapped(d) /\ Overlap(p, d) # {}
    BY <1>1, <2>2 DEF OneHolder, Overlap
  <2>4. taint'[d] = taint[d]
    BY <1>1, <1>2, <2>3
  <2>5. "overlap" \in taint'[d]
    BY <2>3, <2>4 DEF Overlapped
  <2>6. ~Undisturbed(d)'
    BY <2>5 DEF Undisturbed
  <2> QED
    BY <1>1, <2>6 DEF Spoiled
<1>10. Cache!Empty(p, d)
  BY <1>3, <1>4, <1>5, <1>6, <1>8, <1>9 DEF Cache!Empty
<1> QED
  BY <1>1, <1>10 DEF Cache!CacheNext

\* a rebuild fills its database in one transaction
LEMMA PublishStep ==
    ASSUME Inv, TypeInv', NEW p \in Procs, NEW c, StepTo(p, c), InsertTo(p, c),
           NEW d \in Dbs, d = Db(p)
    PROVE  Cache!CacheNext
<1>1. /\ TypeInv /\ Filled /\ call[p].pc = "insert" /\ d \in Dbs /\ Side(p) \in 1..Len(call[p].refs)
  BY WorkingSide DEF Inv, InsertTo, At, Working
<1>2. /\ rows' = [rows EXCEPT ![d] = @ \cup {Want(p, Side(p))}] /\ taint' = taint /\ back' = back
      /\ Same(p, c) /\ c.pc = "tag" /\ rows \in [Dbs -> SUBSET Export]
  BY <1>1 DEF InsertTo, TypeInv
<1>3. \A b \in Dbs : b # d => rows'[b] = rows[b]
  BY <1>1, <1>2
<1>4. CASE ~Undisturbed(d)'
  BY <1>1, <1>2, <1>3, <1>4, MeddleStep DEF Same
<1>5. CASE Undisturbed(d)'
  <2>1. rows[d] = {} /\ rows'[d] = {Want(p, Side(p))}
    <3>1. taint[d] \cap {"user", "overlap"} = {}
      BY <1>2, <1>5 DEF Undisturbed
    <3>2. Filling(p, d) /\ At(p, "insert")
      BY <1>1 DEF Filling, At
    <3>3. rows[d] = {}
      BY <1>1, <3>1, <3>2 DEF Filled
    <3> QED
      BY <1>1, <1>2, <3>3
  <2>2. Shows[d] = None /\ Shows' = [Shows EXCEPT ![d] = Want(p, Side(p))]
    <3>1. Shown(d) = None /\ Shown(d)' = Want(p, Side(p))
      BY <2>1 DEF Shown
    <3>2. \A b \in Dbs : b # d => Shown(b)' = Shown(b)
      BY <1>3 DEF Shown
    <3> QED
      BY <1>1, <3>1, <3>2 DEF Shows
  <2>3. Spoiled' = Spoiled
    BY <1>2 DEF Spoiled, Undisturbed
  <2>4. Asked' = Asked
    BY <1>1, <1>2, AskedKept DEF StepTo, Same
  <2>5. Served' = Served
    <3>1. Served[p] = <<>> /\ Served = [q \in Procs |-> Served[q]]
      BY <1>1 DEF Served
    <3>2. Served' = [Served EXCEPT ![p] = <<>>]
      BY <1>1, <1>2, OthersKept DEF StepTo
    <3> QED
      BY <3>1, <3>2
  <2>6. Side(p) \in DOMAIN Asked[p] /\ Asked[p][Side(p)] = Want(p, Side(p))
    BY <1>1, Requests
  <2>7. Cache!Publish(p, d)
    BY <2>2, <2>3, <2>4, <2>5, <2>6 DEF Cache!Publish
  <2> QED
    BY <1>1, <2>7 DEF Cache!CacheNext
<1> QED
  BY <1>4, <1>5

\* the user and the repository
LEMMA EnvMeddles ==
    ASSUME TypeInv, Move \/ UserIndex
    PROVE  Cache!CacheNext
<1>1. TypeInv' /\ call' = call /\ back' = back
  BY EnvFrame
<1>2. \A d \in Dbs : \/ rows'[d] = rows[d] /\ taint'[d] = taint[d]
                     \/ "user" \in taint'[d]
  BY EnvFrame
<1>3. Asked' = Asked /\ Served' = Served
  BY <1>1 DEF Asked, Served, Wanted
<1>4. \A d \in Dbs : /\ ~Undisturbed(d) => ~Undisturbed(d)'
                     /\ Shown(d)' # Shown(d) => ~Undisturbed(d)'
  BY <1>1, <1>2 DEF Undisturbed, Shown
<1>5. Spoiled \subseteq Spoiled' /\ \A d \in Dbs : Shows'[d] # Shows[d] => d \in Spoiled'
  BY <1>4 DEF Spoiled, Shows
<1>6. Shows' \in [Dbs -> Export \cup {None}]
  BY <1>1, ShownTypesAfter
<1> QED
  BY <1>3, <1>5, <1>6 DEF Cache!CacheNext, Cache!Meddle, Cache!Interfere

\* Every step is one of the cache, or leaves it alone.
LEMMA CacheSteps ==
    ASSUME Inv, Inv', [Next]_vars
    PROVE  [Cache!CacheNext]_(Cache!cacheVars)
<1>1. TypeInv /\ TypeInv'
  BY DEF Inv
<1>2. ASSUME NEW p \in Procs, NEW c, StepTo(p, c)
      PROVE  Cache!CacheNext
  <2>1. CASE StartTo(p, c)
    BY <1>1, <1>2, <2>1, AskStep
  <2>2. CASE ClearTo(p, c)
    <3> PICK d \in Dbs : d = Db(p)
      BY <1>1, <2>2, WorkingSide DEF ClearTo, At, Working, TypeInv
    <3> QED
      BY <1>2, <2>2, EmptyStep
  <2>3. CASE InsertTo(p, c)
    <3> PICK d \in Dbs : d = Db(p)
      BY <1>1, <2>3, WorkingSide DEF InsertTo, At, Working, TypeInv
    <3> QED
      BY <1>1, <1>2, <2>3, PublishStep
  <2>4. ASSUME c = NoCall, call[p].pc # "clear", \A d \in Dbs : rows'[d] = rows[d]
        PROVE  Cache!CacheNext
    BY <1>1, <1>2, <2>4, LeaveStep
  <2>5. ASSUME Same(p, c), call[p].pc \notin {"clear", "diff"}, \A d \in Dbs : rows'[d] = rows[d]
        PROVE  Cache!CacheNext
    BY <1>1, <1>2, <2>5, MeddleStep, ServeStep DEF Same
  <2>6. CASE OccupiedTo(p, c)
    BY <2>4, <2>5, <2>6 DEF OccupiedTo
  <2>7. CASE QuietTo(p, c)
    BY <2>4, <2>5, <2>7 DEF QuietTo, At
  <2>8. CASE TagTo(p, c)
    BY <2>4, <2>5, <2>8 DEF TagTo, At
  <2>9. CASE CrashTo(p, c)
    BY <2>4, <2>9 DEF CrashTo
  <2>10. ASSUME NEW d \in Dbs, TakeTo(p, c, d)
         PROVE  Cache!CacheNext
    <3>1. /\ c.refs = call[p].refs /\ c.shas = call[p].shas /\ c.backend = call[p].backend
          /\ call[p].pc \notin {"clear", "diff"} /\ \A b \in Dbs : rows'[b] = rows[b]
      BY <2>10 DEF TakeTo
    <3>2. CASE c.pc = "diff"
      BY <1>2, <3>1, <3>2, ServeStep
    <3>3. CASE c.pc # "diff"
      BY <1>1, <1>2, <3>1, <3>3, MeddleStep
    <3> QED
      BY <3>2, <3>3
  <2> QED
    BY <1>2, <2>1, <2>2, <2>3, <2>6, <2>7, <2>8, <2>9, <2>10 DEF StepTo
<1>3. ASSUME NEW p \in Procs, Step(p) PROVE Cache!CacheNext
  BY <1>1, <1>2, <1>3, Steps
<1>4. CASE Move \/ UserIndex
  BY <1>1, <1>4, EnvMeddles
<1>5. CASE UNCHANGED vars
  <2>1. UNCHANGED <<rows, call, taint, back>>
    BY <1>5 DEF vars, dbVars, histVars
  <2>2. Shows' = Shows /\ Spoiled' = Spoiled /\ Asked' = Asked /\ Served' = Served
    BY <2>1 DEF Shows, Shown, Spoiled, Undisturbed, Asked, Wanted, Served
  <2> QED
    BY <2>2 DEF Cache!cacheVars
<1> QED
  BY <1>3, <1>4, <1>5 DEF Next

\* The calls, whatever transactions they consist of and whoever else writes
\* the databases, implement the cache of exports.
THEOREM Refines == Spec => ImplementsCache
<1>1. Init => Cache!CacheInit
  BY CacheBegins
<1>2. Inv /\ Inv' /\ [Next]_vars => [Cache!CacheNext]_(Cache!cacheVars)
  BY CacheSteps
<1> QED
  BY <1>1, <1>2, Invariance, PTL DEF Spec, ImplementsCache, Cache!CacheSpec
=============================================================================
