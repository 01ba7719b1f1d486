--------------------------- MODULE WorkspaceSyncProofs ---------------------------
(***************************************************************************)
(* Theorems about WorkspaceSync, for any members, changes and number of    *)
(* syncs.                                                                  *)
(***************************************************************************)
EXTENDS WorkspaceSync, SequenceTheorems, TLAPS

-----------------------------------------------------------------------------
(* Types *)

Typed(r) == r \in Repos /\ r.staged \subseteq r.edits

\* The changes of a history that exists are changes.
LEMMA HeldTyped ==
    ASSUME TypeOK, NEW h \in SUBSET Numbers
    PROVE  Held(h) \subseteq Changes
<1>1. \A c \in h : commits[c] \in Commits
  BY DEF TypeOK, Numbers
<1>2. \A c \in h : commits[c].holds \subseteq Changes
  BY <1>1 DEF Commits
<1>3. QED
  BY <1>2 DEF Held

LEMMA RepoTyped ==
    ASSUME TypeOK, NEW n \in Nodes
    PROVE  /\ Typed(repo[n]) /\ run[n] \in Runs
           /\ MergedIn(n) \subseteq Changes /\ Uncommitted(n) \subseteq Changes
<1>1. Typed(repo[n]) /\ run[n] \in Runs
  BY DEF TypeOK, Typed
<1>2. Held(repo[n].merging) \subseteq Changes /\ repo[n].edits \subseteq Changes
  BY <1>1, HeldTyped DEF Typed, Repos
<1>3. QED
  BY <1>1, <1>2 DEF MergedIn, Uncommitted

\* A step that makes no commit and gives one clone a typed state.
LEMMA OneRepo ==
    ASSUME TypeOK, NEW n \in Nodes, NEW r, Typed(r), UNCHANGED commits,
           repo' = [repo EXCEPT ![n] = r]
    PROVE  repo' \in [Nodes -> Repos'] /\ \A k \in Nodes : repo'[k].staged \subseteq repo'[k].edits
<1>1. Repos' = Repos
  BY DEF Repos, Numbers
<1>2. QED
  BY <1>1 DEF TypeOK, Typed

\* Steps of a sync that only decide what comes next, or report.
LEMMA RunTyped ==
    ASSUME TypeOK, NEW n \in Nodes
    PROVE  /\ \A step \in Steps : Goto(n, step) => run' \in [Nodes -> Runs]
           /\ \A pulled, warning \in BOOLEAN : Report(n, pulled, warning) => run' \in [Nodes -> Runs]
<1>1. run[n] \in Runs /\ run \in [Nodes -> Runs]
  BY DEF TypeOK
<1>2. ASSUME NEW step \in Steps, Goto(n, step)
      PROVE  run' \in [Nodes -> Runs]
  <2>1. [run[n] EXCEPT !.step = step] \in Runs
    BY <1>1 DEF Runs
  <2>2. run' = [run EXCEPT ![n] = [run[n] EXCEPT !.step = step]]
    BY <1>2 DEF Goto
  <2>3. QED
    BY <1>1, <2>1, <2>2
<1>3. ASSUME NEW pulled \in BOOLEAN, NEW warning \in BOOLEAN, Report(n, pulled, warning)
      PROVE  run' \in [Nodes -> Runs]
  <2>1. run[n].warned \in BOOLEAN /\ run[n].pushed \in BOOLEAN /\ run[n].conflicts \in BOOLEAN
    BY <1>1 DEF Runs
  <2>2. (run[n].warned \/ warning) \in BOOLEAN
    BY <2>1
  <2>3. [Idle EXCEPT !.step = "end", !.pushed = run[n].pushed, !.pulled = pulled,
                     !.conflicts = run[n].conflicts,
                     !.warned = run[n].warned \/ warning] \in Runs
    BY <2>1, <2>2 DEF Runs, Idle, Steps
  <2>4. QED
    BY <1>1, <1>3, <2>3 DEF Report
<1>4. QED
  BY <1>2, <1>3

\* The states of a clone that the steps construct are typed.
LEMMA AddedTyped ==
    ASSUME TypeOK, NEW n \in Nodes
    PROVE  /\ Typed(Added(n))
           /\ Added(n).edits = repo[n].edits /\ Added(n).stash = repo[n].stash
           /\ Added(n).head = repo[n].head /\ Added(n).merging = repo[n].merging
           /\ Added(n).staged \subseteq Changes
<1>1. Typed(repo[n])
  BY RepoTyped
<1>2. QED
  BY <1>1 DEF Typed, Added, Repos

LEMMA EmptiedTyped ==
    ASSUME TypeOK, NEW n \in Nodes, NEW by \in Nat
    PROVE  /\ Typed(Emptied(n, by))
           /\ Emptied(n, by).stash # <<>>
           /\ Head(Emptied(n, by).stash).by = by
           /\ Head(Emptied(n, by).stash).holds = Uncommitted(n)
           /\ Tail(Emptied(n, by).stash) = repo[n].stash
           /\ Emptied(n, by).head = repo[n].head
<1> DEFINE entry == [holds |-> Uncommitted(n), staged |-> repo[n].staged, by |-> by]
<1>1. Typed(repo[n]) /\ run[n] \in Runs /\ Uncommitted(n) \subseteq Changes
  BY RepoTyped
<1>2. entry \in Stashes
  BY <1>1 DEF Typed, Repos, Stashes, Uncommitted
<1>3. Emptied(n, by).stash = <<entry>> \o repo[n].stash /\ repo[n].stash \in Seq(Stashes)
  BY <1>1 DEF Emptied, Typed, Repos
<1>4. /\ Emptied(n, by).stash \in Seq(Stashes) /\ Emptied(n, by).stash # <<>>
      /\ Head(Emptied(n, by).stash) = entry /\ Tail(Emptied(n, by).stash) = repo[n].stash
  <2> HIDE DEF entry
  <2> QED
    BY <1>2, <1>3
<1>5. /\ Emptied(n, by) = [repo[n] EXCEPT !.stash = Emptied(n, by).stash, !.edits = {},
                                      !.staged = {}, !.merging = {}]
      /\ Emptied(n, by).head = repo[n].head /\ Emptied(n, by).staged = {}
  BY <1>1 DEF Typed, Repos, Emptied
<1>6. Emptied(n, by) \in Repos
  BY <1>1, <1>4, <1>5 DEF Typed, Repos
<1>7. QED
  BY <1>4, <1>5, <1>6 DEF Typed

LEMMA RestoredTyped ==
    ASSUME TypeOK, NEW n \in Nodes, repo[n].stash # <<>>,
           NEW again \in SUBSET Head(repo[n].stash).staged
    PROVE  Typed(Restored(repo[n], again))
<1>1. Typed(repo[n]) /\ Head(repo[n].stash) \in Stashes /\ Tail(repo[n].stash) \in Seq(Stashes)
  BY RepoTyped DEF Typed, Repos
<1>2. QED
  BY <1>1 DEF Typed, Repos, Restored, Stashes

LEMMA UnpoppedTyped ==
    ASSUME TypeOK, NEW n \in Nodes, NEW paths \in SUBSET Paths
    PROVE  Typed(Unpopped(repo[n], paths))
<1>1. Typed(repo[n])
  BY RepoTyped
<1>2. QED
  BY <1>1 DEF Typed, Repos, Unpopped

\* Commits of a clone whose state is typed.
LEMMA NewCommitTyped ==
    ASSUME TypeOK, NEW r, Typed(r)
    PROVE  NewCommit(r) \in Commits
<1>1. Parents(r) \subseteq Numbers /\ r.merging \subseteq Numbers
  BY DEF Typed, Repos, Parents
<1>2. Held(Parents(r)) \subseteq Changes /\ Held(r.merging) \subseteq Changes
  BY <1>1, HeldTyped
<1>3. r.staged \subseteq Changes
  BY DEF Typed, Repos
<1>4. (Parents(r) = {}) \in BOOLEAN
  OBVIOUS
<1>5. QED
  BY <1>2, <1>3, <1>4 DEF NewCommit, Commits

\* One more commit: the histories there are stay histories.
LEMMA Grown ==
    ASSUME TypeOK, NEW new \in Commits, commits' = Append(commits, new)
    PROVE  /\ commits' \in Seq(Commits) /\ Numbers \subseteq Numbers'
           /\ Len(commits) + 1 \in Numbers'
           /\ Repos \subseteq Repos'
<1>1. commits \in Seq(Commits)
  BY DEF TypeOK
<1>2. /\ commits' \in Seq(Commits) /\ Len(commits') = Len(commits) + 1
      /\ Len(commits) \in Nat
  BY <1>1
<1>3. Numbers \subseteq Numbers' /\ Len(commits) + 1 \in Numbers'
  BY <1>2 DEF Numbers
<1>4. QED
  BY <1>2, <1>3 DEF Repos

LEMMA OneRepoGrown ==
    ASSUME TypeOK, NEW new \in Commits, commits' = Append(commits, new),
           NEW n \in Nodes, NEW r \in Repos', r.staged \subseteq r.edits,
           repo' = [repo EXCEPT ![n] = r]
    PROVE  /\ repo' \in [Nodes -> Repos']
           /\ \A k \in Nodes : repo'[k].staged \subseteq repo'[k].edits
<1>1. Repos \subseteq Repos'
  BY Grown
<1>2. QED
  BY <1>1 DEF TypeOK

LEMMA CommittedTyped ==
    ASSUME TypeOK, NEW new \in Commits, commits' = Append(commits, new), NEW r, Typed(r)
    PROVE  Committed(r) \in Repos' /\ Committed(r).staged \subseteq Committed(r).edits
<1>1. r \in Repos' /\ r.staged \subseteq r.edits
  BY Grown DEF Typed
<1>2. Parents(r) \cup {Len(commits) + 1} \subseteq Numbers'
  BY <1>1, Grown DEF Parents, Repos
<1>3. Committed(r) = [r EXCEPT !.head = Parents(r) \cup {Len(commits) + 1}, !.merging = {},
                               !.unmerged = {}, !.edits = r.edits \ r.staged, !.staged = {}]
  BY <1>1 DEF Committed, Repos
<1>4. QED
  BY <1>1, <1>2, <1>3 DEF Repos

-----------------------------------------------------------------------------
(* Every step keeps the types. *)

LEMMA InitTyped == Init => TypeOK
<1> SUFFICES ASSUME Init PROVE TypeOK
  OBVIOUS
<1>1. commits \in Seq(Commits) /\ Numbers = {}
  BY DEF Init, Numbers
<1>2. Idle \in Runs
  BY DEF Idle, Runs, Steps
<1>3. <<>> \in Seq(Stashes)
  OBVIOUS
<1>4. repo \in [Nodes -> Repos] /\ \A n \in Nodes : repo[n].staged \subseteq repo[n].edits
  BY <1>1, <1>3 DEF Init, Repos
<1>5. syncs \in 0..MaxSyncs
  BY MaxSyncsAssumption DEF Init
<1>6. QED
  BY <1>1, <1>2, <1>4, <1>5 DEF Init, TypeOK

\* Steps that leave every clone and every commit alone.
LEMMA TypedByRun ==
    ASSUME TypeOK, UNCHANGED <<commits, remote, repo, syncs, unwritten, synced>>,
           run' \in [Nodes -> Runs]
    PROVE  TypeOK'
<1>1. Repos' = Repos /\ Numbers' = Numbers
  BY DEF Repos, Numbers
<1>2. QED
  BY <1>1 DEF TypeOK

\* Steps that change one clone and the state of a sync.
LEMMA TypedByRepo ==
    ASSUME TypeOK, NEW n \in Nodes, NEW r, Typed(r), repo' = [repo EXCEPT ![n] = r],
           remote' \subseteq Numbers, unwritten' \subseteq Changes,
           UNCHANGED <<commits, syncs, synced>>, run' \in [Nodes -> Runs]
    PROVE  TypeOK'
<1>1. repo' \in [Nodes -> Repos'] /\ \A k \in Nodes : repo'[k].staged \subseteq repo'[k].edits
  BY OneRepo
<1>2. Numbers' = Numbers
  BY DEF Numbers
<1>3. QED
  BY <1>1, <1>2 DEF TypeOK

LEMMA OneRun ==
    ASSUME TypeOK, NEW n \in Nodes, NEW r \in Runs, run' = [run EXCEPT ![n] = r]
    PROVE  run' \in [Nodes -> Runs]
  BY DEF TypeOK

LEMMA CommitTyped ==
    ASSUME TypeOK, NEW n \in Nodes, Commit(n) \/ CommitNothing(n)
    PROVE  TypeOK'
<1>0. run[n] \in Runs
  BY RepoTyped
<1>1. CASE Commit(n)
  <2>1. NewCommit(Added(n)) \in Commits
    BY AddedTyped, NewCommitTyped
  <2>2. commits' \in Seq(Commits) /\ Numbers \subseteq Numbers'
    BY <1>1, <2>1, Grown DEF Commit
  <2>3. /\ Committed(Added(n)) \in Repos'
        /\ Committed(Added(n)).staged \subseteq Committed(Added(n)).edits
    BY <1>1, <2>1, AddedTyped, CommittedTyped DEF Commit
  <2>4. repo' \in [Nodes -> Repos'] /\ \A k \in Nodes : repo'[k].staged \subseteq repo'[k].edits
    BY <1>1, <2>1, <2>3, OneRepoGrown DEF Commit
  <2>5. [run[n] EXCEPT !.step = "push", !.pushed = TRUE] \in Runs
    BY <1>0 DEF Runs, Steps
  <2>6. run' \in [Nodes -> Runs]
    <3>1. run' = [run EXCEPT ![n] = [run[n] EXCEPT !.step = "push", !.pushed = TRUE]]
      BY <1>1 DEF Commit
    <3>2. QED
      BY <2>5, <3>1, OneRun
  <2>7. synced' \in [Nodes -> SUBSET Changes]
    BY <1>1, AddedTyped DEF TypeOK, Commit
  <2>8. remote' \subseteq Numbers' /\ syncs' \in 0..MaxSyncs /\ unwritten' \subseteq Changes
    BY <1>1, <2>2 DEF TypeOK, Commit
  <2>9. QED
    BY <2>2, <2>4, <2>6, <2>7, <2>8 DEF TypeOK
<1>2. CASE CommitNothing(n)
  <2>1. SharedChanged(n) \in BOOLEAN
    BY DEF SharedChanged
  <2>2. [run[n] EXCEPT !.step = "fetch", !.warned = SharedChanged(n)] \in Runs
    BY <1>0, <2>1 DEF Runs, Steps
  <2>3. run' \in [Nodes -> Runs]
    <3>1. run' = [run EXCEPT ![n] = [run[n] EXCEPT !.step = "fetch", !.warned = SharedChanged(n)]]
      BY <1>2 DEF CommitNothing
    <3>2. QED
      BY <2>2, <3>1, OneRun
  <2>4. remote' \subseteq Numbers /\ unwritten' \subseteq Changes
    BY <1>2 DEF CommitNothing, TypeOK
  <2>5. QED
    BY <1>2, <2>3, <2>4, AddedTyped, TypedByRepo DEF CommitNothing
<1>3. QED
  BY <1>1, <1>2

\* A push moves the remote to the head of a clone.
LEMMA PushTyped ==
    ASSUME TypeOK, NEW n \in Nodes, PushTo(n) \/ UNCHANGED <<remote, repo>>,
           UNCHANGED <<commits, syncs, unwritten, synced>>, run' \in [Nodes -> Runs]
    PROVE  TypeOK'
<1>1. CASE PushTo(n)
  <2>1. Typed([repo[n] EXCEPT !.origin = repo[n].head]) /\ repo[n].head \subseteq Numbers
    BY RepoTyped DEF Typed, Repos
  <2>2. remote' \subseteq Numbers /\ unwritten' \subseteq Changes
    BY <1>1, <2>1 DEF PushTo, TypeOK
  <2>3. repo' = [repo EXCEPT ![n] = [repo[n] EXCEPT !.origin = repo[n].head]]
    BY <1>1 DEF PushTo
  <2>4. QED
    BY <2>1, <2>2, <2>3, TypedByRepo
<1>2. CASE UNCHANGED <<remote, repo>>
  BY <1>2, TypedByRun
<1>3. QED
  BY <1>1, <1>2

LEMMA PullTyped ==
    ASSUME TypeOK, NEW n \in Nodes, Push(n) \/ Fetch(n) \/ FetchFails(n) \/ Check(n)
    PROVE  TypeOK'
<1>0. run[n] \in Runs /\ Typed(repo[n])
  BY RepoTyped
<1>1. CASE Push(n)
  <2>1. run' \in [Nodes -> Runs]
    BY <1>1, RunTyped DEF Push, Steps
  <2>2. QED
    BY <1>1, <2>1, PushTyped DEF Push
<1>2. CASE Fetch(n)
  <2>1. PICK approve \in BOOLEAN :
          run' = [run EXCEPT ![n] = [run[n] EXCEPT !.step = "check", !.approve = approve,
                    !.warned = run[n].warned \/ remote = {} \/ repo[n].head = {}]]
    BY <1>2 DEF Fetch
  <2>2. (run[n].warned \/ remote = {} \/ repo[n].head = {}) \in BOOLEAN
    BY <1>0 DEF Runs
  <2>3. [run[n] EXCEPT !.step = "check", !.approve = approve,
           !.warned = run[n].warned \/ remote = {} \/ repo[n].head = {}] \in Runs
    BY <1>0, <2>2 DEF Runs, Steps
  <2>4. run' \in [Nodes -> Runs]
    BY <2>1, <2>3, OneRun
  <2>5. Typed([repo[n] EXCEPT !.origin = remote])
    BY <1>0 DEF Typed, Repos, TypeOK
  <2>6. repo' = [repo EXCEPT ![n] = [repo[n] EXCEPT !.origin = remote]]
    BY <1>2 DEF Fetch
  <2>7. remote' \subseteq Numbers /\ unwritten' \subseteq Changes
    BY <1>2 DEF Fetch, TypeOK
  <2>8. QED
    BY <1>2, <2>4, <2>5, <2>6, <2>7, TypedByRepo DEF Fetch
<1>3. CASE FetchFails(n)
  BY <1>3, RunTyped, TypedByRun DEF FetchFails
<1>4. CASE CheckUpToDate(n)
  BY <1>4, RunTyped, TypedByRun DEF CheckUpToDate
<1>5. CASE CheckRefuses(n)
  BY <1>5, RunTyped, TypedByRun DEF CheckRefuses
<1>6. CASE CheckInitial(n)
  <2> DEFINE shared == Held(repo[n].origin) \cap Managed
  <2>1. PICK overwritten \in SUBSET (repo[n].edits \cap Managed) :
          repo' = [repo EXCEPT ![n].edits = (@ \ overwritten) \cup shared,
                               ![n].staged = (@ \ overwritten) \cup shared]
    BY <1>6, Zenon DEF CheckInitial
  <2>2. shared \subseteq Changes
    BY <1>0, HeldTyped DEF Typed, Repos
  <2> HIDE DEF shared
  <2>3. repo' = [repo EXCEPT ![n] =
                   [repo[n] EXCEPT !.edits = (repo[n].edits \ overwritten) \cup shared,
                                   !.staged = (repo[n].staged \ overwritten) \cup shared]]
    BY <2>1 DEF TypeOK
  <2>4. Typed([repo[n] EXCEPT !.edits = (repo[n].edits \ overwritten) \cup shared,
                              !.staged = (repo[n].staged \ overwritten) \cup shared])
    BY <1>0, <2>2 DEF Typed, Repos
  <2>5. (repo[n].origin # {}) \in BOOLEAN
    OBVIOUS
  <2>6. run' \in [Nodes -> Runs]
    BY <1>6, <2>5, RunTyped DEF CheckInitial
  <2>7. remote' \subseteq Numbers /\ unwritten' \subseteq Changes
    BY <1>6 DEF CheckInitial, TypeOK
  <2>8. UNCHANGED <<commits, syncs, synced>>
    BY <1>6 DEF CheckInitial
  <2>9. QED
    BY <2>3, <2>4, <2>6, <2>7, <2>8, TypedByRepo
<1>7. CASE CheckMerge(n)
  <2> DEFINE step == IF DirtyUnmanaged(n) THEN "stash" ELSE "merge"
  <2>1. (run[n].warned \/ NeedsApproval(n)) \in BOOLEAN
    BY <1>0 DEF Runs
  <2>2. step \in Steps
    BY DEF Steps
  <2>3. run' = [run EXCEPT ![n] = [run[n] EXCEPT !.step = step,
                                                 !.warned = run[n].warned \/ NeedsApproval(n)]]
    BY <1>7 DEF CheckMerge
  <2> HIDE DEF step
  <2>4. [run[n] EXCEPT !.step = step, !.warned = run[n].warned \/ NeedsApproval(n)] \in Runs
    BY <1>0, <2>1, <2>2 DEF Runs
  <2>5. run' \in [Nodes -> Runs]
    BY <2>3, <2>4, OneRun
  <2>6. QED
    BY <1>7, <2>5, TypedByRun DEF CheckMerge
<1>8. QED
  BY <1>1, <1>2, <1>3, <1>4, <1>5, <1>6, <1>7 DEF Check

LEMMA StashTyped ==
    ASSUME TypeOK, NEW n \in Nodes, Stash(n) \/ StashFails(n)
    PROVE  TypeOK'
<1>0. run[n] \in Runs
  BY RepoTyped
<1>1. CASE Stash(n)
  <2>1. Saved(n) \in BOOLEAN
    BY DEF Saved
  <2>2. [run[n] EXCEPT !.step = "merge", !.stashed = Saved(n)] \in Runs
    BY <1>0, <2>1 DEF Runs, Steps
  <2>3. run' = [run EXCEPT ![n] = [run[n] EXCEPT !.step = "merge", !.stashed = Saved(n)]]
    BY <1>1 DEF Stash
  <2>4. run' \in [Nodes -> Runs]
    BY <2>2, <2>3, OneRun
  <2>5. /\ UNCHANGED <<commits, remote, syncs, unwritten, synced>>
        /\ UNCHANGED repo \/ repo' = [repo EXCEPT ![n] = Emptied(n, run[n].number)]
    BY <1>1 DEF Stash
  <2>6. CASE UNCHANGED repo
    BY <2>4, <2>5, <2>6, TypedByRun
  <2>7. CASE repo' = [repo EXCEPT ![n] = Emptied(n, run[n].number)]
    <3>1. remote' \subseteq Numbers /\ unwritten' \subseteq Changes /\ Typed(Emptied(n, run[n].number))
      BY <1>0, <2>5, EmptiedTyped DEF TypeOK, Runs
    <3>2. QED
      BY <2>4, <2>5, <2>7, <3>1, TypedByRepo
  <2>8. QED
    BY <2>5, <2>6, <2>7
<1>2. CASE StashFails(n)
  BY <1>2, RunTyped, TypedByRun DEF StashFails
<1>3. QED
  BY <1>1, <1>2

LEMMA MergeTyped ==
    ASSUME TypeOK, NEW n \in Nodes, FastForward(n) \/ Merge(n)
    PROVE  TypeOK'
<1>0. run[n] \in Runs /\ Typed(repo[n])
  BY RepoTyped
<1> DEFINE step == IF run[n].stashed THEN "pop" ELSE "share"
<1>1. ASSUME NEW head, NEW tip, Merged(n, head, tip)
      PROVE  /\ run' \in [Nodes -> Runs] /\ UNCHANGED <<remote, syncs, unwritten, synced>>
             /\ repo' = [repo EXCEPT ![n] = [repo[n] EXCEPT !.head = head]]
  <2>1. Counted(tip) \in BOOLEAN
    BY DEF Counted
  <2>2. step \in Steps
    BY DEF Steps
  <2>3. run' = [run EXCEPT ![n] = [run[n] EXCEPT !.step = step, !.pulled = Counted(tip)]]
    BY <1>1 DEF Merged
  <2> HIDE DEF step
  <2>4. [run[n] EXCEPT !.step = step, !.pulled = Counted(tip)] \in Runs
    BY <1>0, <2>1, <2>2 DEF Runs
  <2>5. run' \in [Nodes -> Runs]
    BY <2>3, <2>4, OneRun
  <2>6. QED
    BY <1>1, <2>5 DEF Merged
<1>2. CASE FastForward(n)
  <2> DEFINE head == repo[n].head \cup repo[n].origin
  <2>1. Merged(n, head, commits[Tip(head)]) /\ UNCHANGED commits
    BY <1>2 DEF FastForward
  <2>2. Typed([repo[n] EXCEPT !.head = head])
    BY <1>0 DEF Typed, Repos
  <2> HIDE DEF head
  <2>3. /\ run' \in [Nodes -> Runs] /\ UNCHANGED <<remote, syncs, unwritten, synced>>
        /\ repo' = [repo EXCEPT ![n] = [repo[n] EXCEPT !.head = head]]
    BY <1>1, <2>1
  <2>4. remote' \subseteq Numbers /\ unwritten' \subseteq Changes
    BY <2>3 DEF TypeOK
  <2>5. QED
    BY <2>1, <2>2, <2>3, <2>4, TypedByRepo
<1>3. CASE Merge(n)
  <2> DEFINE new == [root |-> FALSE, brings |-> Held(repo[n].origin) \ Held(repo[n].head),
                     holds |-> Held(repo[n].origin \cup repo[n].head)]
             head == repo[n].head \cup repo[n].origin \cup {Len(commits) + 1}
  <2>1. commits' = Append(commits, new) /\ Merged(n, head, new)
    BY <1>3 DEF Merge
  <2>2. repo[n].head \subseteq Numbers /\ repo[n].origin \subseteq Numbers
    BY <1>0 DEF Typed, Repos
  <2>3. /\ Held(repo[n].origin) \subseteq Changes
        /\ Held(repo[n].origin \cup repo[n].head) \subseteq Changes
    BY <2>2, HeldTyped
  <2>4. new \in Commits
    BY <2>3 DEF Commits
  <2> HIDE DEF new
  <2>5. /\ commits' \in Seq(Commits) /\ Numbers \subseteq Numbers'
        /\ Len(commits) + 1 \in Numbers' /\ Repos \subseteq Repos'
    BY <2>1, <2>4, Grown
  <2>6. head \subseteq Numbers'
    BY <2>2, <2>5
  <2> HIDE DEF head
  <2>7. /\ run' \in [Nodes -> Runs] /\ UNCHANGED <<remote, syncs, unwritten, synced>>
        /\ repo' = [repo EXCEPT ![n] = [repo[n] EXCEPT !.head = head]]
    BY <1>1, <2>1
  <2>8. /\ [repo[n] EXCEPT !.head = head] \in Repos'
        /\ [repo[n] EXCEPT !.head = head].staged \subseteq [repo[n] EXCEPT !.head = head].edits
    <3>1. repo[n] \in Repos' /\ repo[n].staged \subseteq repo[n].edits
      BY <1>0, <2>5 DEF Typed
    <3>2. QED
      BY <2>6, <3>1 DEF Repos
  <2>9. repo' \in [Nodes -> Repos'] /\ \A k \in Nodes : repo'[k].staged \subseteq repo'[k].edits
    BY <2>1, <2>4, <2>7, <2>8, OneRepoGrown
  <2>10. QED
    BY <2>5, <2>7, <2>9 DEF TypeOK
<1>4. QED
  BY <1>2, <1>3

LEMMA MergeFailsTyped ==
    ASSUME TypeOK, NEW n \in Nodes, Conflict(n) \/ MergeRefused(n)
    PROVE  TypeOK'
<1>0. run[n] \in Runs /\ Typed(repo[n])
  BY RepoTyped
<1>1. MergeFails(n)
  BY DEF Conflict, MergeRefused
<1>2. UNCHANGED <<commits, remote, syncs, unwritten, synced>>
  BY <1>1 DEF MergeFails
<1>3. run' \in [Nodes -> Runs]
  <2> DEFINE conflicts == repo'[n].unmerged # {}
             pulled == repo[n].origin # {} /\ Held(repo[n].head) # Held(repo[n].origin)
  <2>1. conflicts \in BOOLEAN /\ pulled \in BOOLEAN
    OBVIOUS
  <2>2. run' = [run EXCEPT ![n] = [run[n] EXCEPT !.step = "share", !.warned = TRUE,
                                                 !.conflicts = conflicts, !.pulled = pulled]]
    BY <1>1 DEF MergeFails
  <2> HIDE DEF conflicts, pulled
  <2>3. [run[n] EXCEPT !.step = "share", !.warned = TRUE,
                       !.conflicts = conflicts, !.pulled = pulled] \in Runs
    BY <1>0, <2>1 DEF Runs, Steps
  <2>4. QED
    BY <2>2, <2>3, OneRun
<1>4. CASE Conflict(n)
  <2>1. PICK paths \in Conflicts(n) :
          repo' = [repo EXCEPT ![n].merging = repo[n].origin, ![n].unmerged = paths]
    BY <1>4 DEF Conflict
  <2>2. paths \subseteq Paths
    BY DEF Conflicts
  <2>3. Typed([repo[n] EXCEPT !.merging = repo[n].origin, !.unmerged = paths])
    BY <1>0, <2>2 DEF Typed, Repos
  <2>4. repo' = [repo EXCEPT ![n] = [repo[n] EXCEPT !.merging = repo[n].origin,
                                                    !.unmerged = paths]]
    BY <2>1 DEF TypeOK
  <2>5. remote' \subseteq Numbers /\ unwritten' \subseteq Changes
    BY <1>2 DEF TypeOK
  <2>6. QED
    BY <1>2, <1>3, <2>3, <2>4, <2>5, TypedByRepo
<1>5. CASE MergeRefused(n)
  BY <1>2, <1>3, <1>5, TypedByRun DEF MergeRefused
<1>6. QED
  BY <1>4, <1>5

LEMMA PopTyped ==
    ASSUME TypeOK, NEW n \in Nodes, Pop(n) \/ PopFails(n)
    PROVE  TypeOK'
<1>0. run[n] \in Runs
  BY RepoTyped
<1>1. UNCHANGED <<commits, remote, syncs, unwritten, synced>>
  BY DEF Pop, PopFails
<1>2. run' \in [Nodes -> Runs]
  <2>1. [run[n] EXCEPT !.step = "share", !.warned = TRUE] \in Runs
    BY <1>0 DEF Runs, Steps
  <2>2. run' = [run EXCEPT ![n] = [run[n] EXCEPT !.step = "share", !.warned = TRUE]]
    BY DEF Pop, PopFails
  <2>3. QED
    BY <2>1, <2>2, OneRun
<1>3. PICK r : Typed(r) /\ repo' = [repo EXCEPT ![n] = r]
  <2>1. CASE Pop(n)
    BY <2>1, RestoredTyped DEF Pop
  <2>2. CASE PopFails(n)
    BY <2>2, UnpoppedTyped DEF PopFails
  <2>3. QED
    BY <2>1, <2>2
<1>4. remote' \subseteq Numbers /\ unwritten' \subseteq Changes
  BY <1>1 DEF TypeOK
<1>5. QED
  BY <1>1, <1>2, <1>3, <1>4, TypedByRepo

LEMMA EndTyped ==
    ASSUME TypeOK, NEW n \in Nodes, Begin(n) \/ Share(n) \/ End(n) \/ Killed(n)
    PROVE  TypeOK'
<1>0. run[n] \in Runs /\ Idle \in Runs
  BY RepoTyped DEF Idle, Runs, Steps
<1>1. CASE Begin(n)
  <2>1. syncs + 1 \in 0..MaxSyncs /\ syncs + 1 \in Nat
    BY <1>1, MaxSyncsAssumption DEF Begin, TypeOK
  <2>2. [Idle EXCEPT !.step = "commit", !.number = syncs + 1] \in Runs
    BY <2>1 DEF Idle, Runs, Steps
  <2>3. run' = [run EXCEPT ![n] = [Idle EXCEPT !.step = "commit", !.number = syncs + 1]]
    BY <1>1 DEF Begin
  <2>4. run' \in [Nodes -> Runs]
    BY <2>2, <2>3, OneRun
  <2>5. Repos' = Repos /\ Numbers' = Numbers
    BY <1>1 DEF Repos, Numbers, Begin
  <2>6. QED
    BY <1>1, <2>1, <2>4, <2>5 DEF TypeOK, Begin
<1>2. CASE Share(n)
  <2>1. run[n].pulled \in BOOLEAN
    BY <1>0 DEF Runs
  <2>2. PICK warning \in BOOLEAN : Report(n, run[n].pulled, warning)
    BY <1>2 DEF Share
  <2>3. run' \in [Nodes -> Runs]
    BY <2>1, <2>2, RunTyped
  <2>4. /\ PushTo(n) \/ UNCHANGED <<remote, repo>>
        /\ UNCHANGED <<commits, syncs, unwritten, synced>>
    BY <1>2 DEF Share
  <2>5. QED
    BY <2>3, <2>4, PushTyped
<1>3. CASE End(n)
  <2>1. run' \in [Nodes -> Runs]
    BY <1>0, <1>3, OneRun DEF End
  <2>2. QED
    BY <1>3, <2>1, TypedByRun DEF End
<1>4. CASE Killed(n)
  <2>1. run' \in [Nodes -> Runs]
    BY <1>0, <1>4, OneRun DEF Killed
  <2>2. QED
    BY <1>4, <2>1, TypedByRun DEF Killed
<1>5. QED
  BY <1>1, <1>2, <1>3, <1>4

\* Of the state of a sync its user changes nothing but what the history says.
LEMMA UserRun ==
    ASSUME TypeOK, NEW n \in Nodes, User(n)
    PROVE  /\ run' \in [Nodes -> Runs]
           /\ \/ run'[n] = run[n] /\ ~ StashAway(n) /\ ~ Unstash(n)
              \/ run'[n] = [run[n] EXCEPT !.meddled = run[n].stashed]
           /\ run'[n].step = run[n].step /\ run'[n].approve = run[n].approve
           /\ run'[n].stashed = run[n].stashed /\ run'[n].number = run[n].number
           /\ run'[n].pushed = run[n].pushed /\ run'[n].pulled = run[n].pulled
           /\ run'[n].conflicts = run[n].conflicts /\ run'[n].warned = run[n].warned
<1>0. run \in [Nodes -> Runs] /\ run[n] \in Runs
  BY DEF TypeOK
<1>1. CASE StashAway(n) \/ Unstash(n)
  <2> DEFINE r == [run[n] EXCEPT !.meddled = run[n].stashed]
  <2>1. run' = [run EXCEPT ![n] = r]
    BY <1>1 DEF StashAway, Unstash, Meddle
  <2>2. /\ r \in Runs /\ r.step = run[n].step /\ r.approve = run[n].approve
        /\ r.stashed = run[n].stashed /\ r.number = run[n].number
        /\ r.pushed = run[n].pushed /\ r.pulled = run[n].pulled
        /\ r.conflicts = run[n].conflicts /\ r.warned = run[n].warned
    BY <1>0 DEF Runs
  <2>3. run'[n] = r
    BY <1>0, <2>1
  <2>4. run' \in [Nodes -> Runs]
    BY <1>0, <2>1, <2>2
  <2> HIDE DEF r
  <2>5. QED
    BY <2>2, <2>3, <2>4 DEF r
<1>2. CASE ~ StashAway(n) /\ ~ Unstash(n)
  BY <1>0, <1>2 DEF User, Write, StageEdit, CommitStaged, Resolve
<1>3. QED
  BY <1>1, <1>2

LEMMA UserTyped ==
    ASSUME TypeOK, NEW n \in Nodes, User(n)
    PROVE  TypeOK'
<1>0. Typed(repo[n]) /\ run \in [Nodes -> Runs] /\ run' \in [Nodes -> Runs]
  BY RepoTyped, UserRun DEF TypeOK
<1>1. CASE Write(n)
  <2>1. PICK c \in unwritten :
          /\ repo' = [repo EXCEPT ![n] = [repo[n] EXCEPT !.edits = repo[n].edits \cup {c}]]
          /\ unwritten' = unwritten \ {c}
    BY <1>1 DEF Write
  <2>2. Typed([repo[n] EXCEPT !.edits = repo[n].edits \cup {c}])
    BY <1>0 DEF Typed, Repos, TypeOK
  <2>3. remote' \subseteq Numbers /\ unwritten' \subseteq Changes
    BY <1>1, <2>1 DEF Write, TypeOK
  <2>4. run' \in [Nodes -> Runs] /\ UNCHANGED <<commits, syncs, synced>>
    BY <1>0, <1>1 DEF Write
  <2>5. QED
    BY <2>1, <2>2, <2>3, <2>4, TypedByRepo
<1>2. CASE StageEdit(n)
  <2>1. PICK c \in repo[n].edits :
          repo' = [repo EXCEPT ![n] = [repo[n] EXCEPT !.staged = repo[n].staged \cup {c}]]
    BY <1>2 DEF StageEdit
  <2>2. Typed([repo[n] EXCEPT !.staged = repo[n].staged \cup {c}])
    BY <1>0 DEF Typed, Repos
  <2>3. /\ remote' \subseteq Numbers /\ unwritten' \subseteq Changes
        /\ run' \in [Nodes -> Runs] /\ UNCHANGED <<commits, syncs, synced>>
    BY <1>0, <1>2 DEF StageEdit, TypeOK
  <2>4. QED
    BY <2>1, <2>2, <2>3, TypedByRepo
<1>3. CASE CommitStaged(n)
  <2>1. NewCommit(repo[n]) \in Commits
    BY <1>0, NewCommitTyped
  <2>2. commits' = Append(commits, NewCommit(repo[n]))
    BY <1>3 DEF CommitStaged
  <2>3. commits' \in Seq(Commits) /\ Numbers \subseteq Numbers'
    BY <2>1, <2>2, Grown
  <2>4. Committed(repo[n]) \in Repos' /\ Committed(repo[n]).staged \subseteq Committed(repo[n]).edits
    BY <1>0, <2>1, <2>2, CommittedTyped
  <2>5. repo' = [repo EXCEPT ![n] = Committed(repo[n])]
    BY <1>3 DEF CommitStaged
  <2>6. repo' \in [Nodes -> Repos'] /\ \A k \in Nodes : repo'[k].staged \subseteq repo'[k].edits
    BY <2>1, <2>2, <2>4, <2>5, OneRepoGrown
  <2>7. QED
    BY <1>3, <2>3, <2>6 DEF TypeOK, CommitStaged
<1>4. CASE Resolve(n)
  <2>1. repo' = [repo EXCEPT ![n] = [repo[n] EXCEPT !.unmerged = {}]]
    BY <1>4 DEF Resolve
  <2>2. Typed([repo[n] EXCEPT !.unmerged = {}])
    BY <1>0 DEF Typed, Repos
  <2>3. /\ remote' \subseteq Numbers /\ unwritten' \subseteq Changes
        /\ run' \in [Nodes -> Runs] /\ UNCHANGED <<commits, syncs, synced>>
    BY <1>0, <1>4 DEF Resolve, TypeOK
  <2>4. QED
    BY <2>1, <2>2, <2>3, TypedByRepo
<1>5. CASE Unstash(n)
  <2>1. PICK again \in SUBSET Head(repo[n].stash).staged :
          repo' = [repo EXCEPT ![n] = Restored(repo[n], again)]
    BY <1>5 DEF Unstash
  <2>2. Typed(Restored(repo[n], again))
    BY <1>5, RestoredTyped DEF Unstash
  <2>3. /\ remote' \subseteq Numbers /\ unwritten' \subseteq Changes
        /\ run' \in [Nodes -> Runs] /\ UNCHANGED <<commits, syncs, synced>>
    BY <1>0, <1>5 DEF Unstash, TypeOK
  <2>4. QED
    BY <2>1, <2>2, <2>3, TypedByRepo
<1>6. CASE StashAway(n)
  <2>1. repo' = [repo EXCEPT ![n] = Emptied(n, 0)]
    BY <1>6 DEF StashAway
  <2>2. Typed(Emptied(n, 0))
    BY EmptiedTyped
  <2>3. /\ remote' \subseteq Numbers /\ unwritten' \subseteq Changes
        /\ UNCHANGED <<commits, syncs, synced>>
    BY <1>6 DEF StashAway, TypeOK
  <2>4. QED
    BY <1>0, <2>1, <2>2, <2>3, TypedByRepo
<1>7. QED
  BY <1>1, <1>2, <1>3, <1>4, <1>5, <1>6 DEF User

LEMMA NextTyped == TypeOK /\ [Next]_vars => TypeOK'
<1> SUFFICES ASSUME TypeOK, [Next]_vars PROVE TypeOK'
  OBVIOUS
<1>1. CASE UNCHANGED vars
  BY <1>1 DEF vars, TypeOK, Repos, Numbers
<1>2. ASSUME NEW n \in Nodes, Sync(n)
      PROVE  TypeOK'
  BY <1>2, CommitTyped, PullTyped, StashTyped, MergeTyped, MergeFailsTyped, PopTyped, EndTyped
     DEF Sync
<1>3. QED
  BY <1>1, <1>2, UserTyped DEF Next

\* Every state of the sync is typed: histories are of commits that exist, the index of a
\* clone is part of its working tree, and so is that of every stash (WorkspaceSync!Spec).
THEOREM TypeCorrect == Spec => []TypeOK
BY InitTyped, NextTyped, PTL DEF Spec

-----------------------------------------------------------------------------
(* The stash of a sync *)

\* A sync that stashed has its own entry on top until it has popped it, as long as its user
\* does not use the stash too.
Own(r, s) ==
    /\ s.step = "pop" => s.stashed
    /\ s.stashed => s.step \in {"merge", "pop", "share"}
    /\ s.meddled => s.stashed
    /\ s.stashed /\ ~ s.meddled /\ s.step # "share" =>
            r.stash # <<>> /\ Head(r.stash).by = s.number

OwnStashes == \A n \in Nodes : Own(repo[n], run[n])

\* A step of one member leaves the clone and the sync of every other as they are.
LEMMA Elsewhere ==
    ASSUME TypeOK, NEW n \in Nodes, Sync(n) \/ User(n), NEW k \in Nodes \ {n}
    PROVE  repo'[k] = repo[k] /\ run'[k] = run[k]
<1>1. repo \in [Nodes -> Repos] /\ run \in [Nodes -> Runs]
  BY DEF TypeOK
<1>2. CASE Begin(n) \/ Commit(n) \/ CommitNothing(n) \/ Push(n) \/ Fetch(n) \/ FetchFails(n)
  BY <1>1, <1>2
     DEF Begin, Commit, CommitNothing, Push, PushTo, Fetch, FetchFails, Goto, Report
<1>3. CASE Check(n)
  BY <1>1, <1>3
     DEF Check, CheckUpToDate, CheckRefuses, CheckInitial, CheckMerge, Report
<1>4. CASE Stash(n) \/ StashFails(n) \/ FastForward(n) \/ Merge(n) \/ Conflict(n) \/ MergeRefused(n)
  BY <1>1, <1>4
     DEF Stash, StashFails, FastForward, Merge, Merged, Conflict, MergeRefused, MergeFails, Report
<1>5. CASE Pop(n) \/ PopFails(n) \/ Share(n) \/ End(n) \/ Killed(n)
  BY <1>1, <1>5 DEF Pop, PopFails, Share, PushTo, End, Killed, Report
<1>6. CASE User(n)
  BY <1>1, <1>6 DEF User, Write, StageEdit, CommitStaged, Resolve, StashAway, Unstash, Meddle
<1>7. QED
  BY <1>2, <1>3, <1>4, <1>5, <1>6 DEF Sync

\* Only these steps touch the stash of a clone.
LEMMA StashUntouched ==
    ASSUME TypeOK, NEW n \in Nodes, Sync(n) \/ User(n),
           ~ Stash(n), ~ Pop(n), ~ StashAway(n), ~ Unstash(n)
    PROVE  repo'[n].stash = repo[n].stash
<1>1. repo \in [Nodes -> Repos] /\ repo[n] \in Repos
  BY DEF TypeOK
<1>2. CASE Commit(n) \/ CommitNothing(n)
  <2>1. Typed(Added(n)) /\ Added(n).stash = repo[n].stash
    BY AddedTyped
  <2>2. Committed(Added(n)).stash = repo[n].stash
    BY <2>1 DEF Committed, Typed, Repos
  <2>3. repo' = [repo EXCEPT ![n] = Committed(Added(n))] \/ repo' = [repo EXCEPT ![n] = Added(n)]
    BY <1>2 DEF Commit, CommitNothing
  <2>4. QED
    BY <1>1, <2>1, <2>2, <2>3
<1>3. CASE Push(n) \/ Fetch(n) \/ Share(n)
  <2>1. \/ UNCHANGED repo
        \/ repo' = [repo EXCEPT ![n] = [repo[n] EXCEPT !.origin = repo[n].head]]
        \/ repo' = [repo EXCEPT ![n] = [repo[n] EXCEPT !.origin = remote]]
    BY <1>3 DEF Push, Share, PushTo, Fetch
  <2>2. QED
    BY <1>1, <2>1 DEF Repos
<1>4. CASE Check(n)
  <2>1. CASE CheckInitial(n)
    BY <1>1, <2>1 DEF CheckInitial, Repos
  <2>2. QED
    BY <1>4, <2>1 DEF Check, CheckUpToDate, CheckRefuses, CheckMerge
<1>5. CASE FastForward(n) \/ Merge(n)
  BY <1>1, <1>5 DEF FastForward, Merge, Merged, Repos
<1>6. CASE Conflict(n) \/ MergeRefused(n)
  BY <1>1, <1>6 DEF Conflict, MergeRefused, Repos
<1>7. CASE PopFails(n)
  BY <1>1, <1>7 DEF PopFails, Unpopped, Repos
<1>8. CASE Begin(n) \/ FetchFails(n) \/ StashFails(n) \/ End(n) \/ Killed(n)
  BY <1>8 DEF Begin, FetchFails, StashFails, End, Killed
<1>9. CASE User(n)
  BY <1>1, <1>9 DEF User, Write, StageEdit, CommitStaged, Committed, Resolve, Repos
<1>10. QED
  BY <1>2, <1>3, <1>4, <1>5, <1>6, <1>7, <1>8, <1>9 DEF Sync

\* What a step that does not stash does to the sync it is part of.
LEMMA RunStep ==
    ASSUME TypeOK, NEW n \in Nodes, Own(repo[n], run[n]), Sync(n) \/ User(n), ~ Stash(n)
    PROVE  \/ run'[n] = run[n]
           \/ ~ run'[n].stashed /\ run'[n].step # "pop" /\ ~ run'[n].meddled
           \/ run'[n].step = "share" /\ (run'[n].meddled => run'[n].stashed)
           \/ /\ run[n].step = "merge" /\ run'[n].step = "pop"
              /\ ~ Pop(n) /\ ~ StashAway(n) /\ ~ Unstash(n)
              /\ run'[n].stashed = run[n].stashed /\ run[n].stashed
              /\ run'[n].number = run[n].number /\ run'[n].meddled = run[n].meddled
           \/ run'[n] = [run[n] EXCEPT !.meddled = run[n].stashed]
<1>1. run \in [Nodes -> Runs] /\ run[n] \in Runs
  BY DEF TypeOK
<1>2. Idle.step = "idle" /\ Idle.stashed = FALSE /\ Idle.meddled = FALSE
  BY DEF Idle
<1>3. ASSUME NEW pulled, NEW warning, Report(n, pulled, warning)
      PROVE  ~ run'[n].stashed /\ run'[n].step # "pop" /\ ~ run'[n].meddled
  BY <1>1, <1>3 DEF Report, Idle
<1>4. CASE Begin(n) \/ End(n) \/ Killed(n)
  <2>1. \/ run' = [run EXCEPT ![n] = Idle]
        \/ run' = [run EXCEPT ![n] = [Idle EXCEPT !.step = "commit", !.number = syncs + 1]]
    BY <1>4 DEF Begin, End, Killed
  <2>2. LET begun == [Idle EXCEPT !.step = "commit", !.number = syncs + 1]
        IN  begun.step = "commit" /\ begun.stashed = FALSE /\ begun.meddled = FALSE
    BY DEF Idle
  <2>3. QED
    BY <1>1, <1>2, <2>1, <2>2
<1>5. CASE Commit(n) \/ CommitNothing(n) \/ Push(n) \/ Fetch(n) \/ CheckMerge(n)
  <2>1. run[n].step \in {"commit", "push", "fetch", "check"} /\ ~ run[n].stashed /\ ~ run[n].meddled
    BY <1>1, <1>5 DEF Commit, CommitNothing, Push, Fetch, CheckMerge, Own, Runs
  <2>2. CASE Commit(n) \/ CommitNothing(n) \/ Push(n)
    BY <1>1, <2>1, <2>2 DEF Commit, CommitNothing, Push, Goto, Runs
  <2>3. CASE Fetch(n)
    BY <1>1, <2>1, <2>3 DEF Fetch, Runs
  <2>4. CASE CheckMerge(n)
    BY <1>1, <2>1, <2>4 DEF CheckMerge, Runs
  <2>5. QED
    BY <1>5, <2>2, <2>3, <2>4
<1>6. CASE FetchFails(n) \/ CheckUpToDate(n) \/ CheckRefuses(n) \/ CheckInitial(n) \/ StashFails(n)
  BY <1>3, <1>6 DEF FetchFails, CheckUpToDate, CheckRefuses, CheckInitial, StashFails
<1>7. CASE Share(n)
  BY <1>3, <1>7 DEF Share
<1>8. CASE FastForward(n) \/ Merge(n)
  <2>1. PICK new \in BOOLEAN :
          run' = [run EXCEPT ![n] =
                    [run[n] EXCEPT !.step = IF run[n].stashed THEN "pop" ELSE "share",
                                   !.pulled = new]]
    BY <1>1, <1>8 DEF FastForward, Merge, Merged, Counted
  <2>2. run[n].step = "merge"
    BY <1>8 DEF FastForward, Merge
  <2>3. /\ run'[n].step = (IF run[n].stashed THEN "pop" ELSE "share")
        /\ run'[n].stashed = run[n].stashed /\ run'[n].number = run[n].number
        /\ run'[n].meddled = run[n].meddled
    BY <1>1, <2>1 DEF Runs
  <2>4. ~ Pop(n) /\ ~ StashAway(n) /\ ~ Unstash(n)
    BY <2>2, <2>3, UserRun DEF Pop, User
  <2>5. QED
    BY <1>1, <2>2, <2>3, <2>4 DEF Own
<1>9. CASE Conflict(n) \/ MergeRefused(n) \/ Pop(n) \/ PopFails(n)
  <2>1. CASE MergeFails(n)
    BY <1>1, <2>1 DEF MergeFails, Runs, Own
  <2>2. CASE Pop(n) \/ PopFails(n)
    BY <1>1, <2>2 DEF Pop, PopFails, Runs, Own
  <2>3. QED
    BY <1>9, <2>1, <2>2 DEF Conflict, MergeRefused
<1>10. CASE User(n)
  BY <1>10, UserRun
<1>11. QED
  BY <1>4, <1>5, <1>6, <1>7, <1>8, <1>9, <1>10 DEF Sync, Check

LEMMA OwnInit == Init => OwnStashes
  BY DEF Init, Idle, OwnStashes, Own

LEMMA OwnNext == TypeOK /\ OwnStashes /\ [Next]_vars => OwnStashes'
<1> SUFFICES ASSUME TypeOK, OwnStashes, [Next]_vars PROVE OwnStashes'
  OBVIOUS
<1>1. CASE UNCHANGED vars
  BY <1>1 DEF vars, OwnStashes, Own
<1>2. ASSUME NEW n \in Nodes, Sync(n) \/ User(n)
      PROVE  OwnStashes'
  <2>1. Own(repo[n], run[n])
    BY DEF OwnStashes
  <2>2. \A k \in Nodes \ {n} : Own(repo'[k], run'[k])
    BY <1>2, Elsewhere DEF OwnStashes
  <2>3. Own(repo'[n], run'[n])
    <3>0. run \in [Nodes -> Runs] /\ run[n] \in Runs /\ repo \in [Nodes -> Repos]
      BY DEF TypeOK
    <3>1. CASE Stash(n)
      <4>1. run[n].step = "stash" /\ run[n].stashed = FALSE /\ ~ run[n].meddled
        BY <2>1, <3>0, <3>1 DEF Stash, Own, Runs
      <4>2. run' = [run EXCEPT ![n] = [run[n] EXCEPT !.step = "merge", !.stashed = Saved(n)]]
        BY <3>1 DEF Stash
      <4>3. /\ run'[n].step = "merge" /\ run'[n].stashed = Saved(n)
            /\ run'[n].number = run[n].number /\ ~ run'[n].meddled
        BY <3>0, <4>1, <4>2 DEF Runs
      <4>4. Saved(n) => repo'[n] = Emptied(n, run[n].number)
        BY <3>0, <3>1 DEF Stash, Saved
      <4>5. QED
        BY <3>0, <4>3, <4>4, EmptiedTyped DEF Own, Runs
    <3>2. CASE ~ Stash(n)
      <4>1. CASE run'[n] = run[n]
        <5>1. CASE run[n].stashed /\ ~ run[n].meddled /\ run[n].step # "share"
          <6>1. ~ Pop(n) /\ ~ StashAway(n) /\ ~ Unstash(n)
            <7>1. ~ Pop(n)
              BY <3>0, <4>1, <5>1 DEF Pop, Runs
            <7>2. run'[n] # [run[n] EXCEPT !.meddled = run[n].stashed]
              BY <3>0, <4>1, <5>1 DEF Runs
            <7>3. QED
              BY <7>1, <7>2, UserRun DEF User
          <6>2. repo'[n].stash = repo[n].stash
            BY <1>2, <3>2, <6>1, StashUntouched
          <6>3. QED
            BY <2>1, <4>1, <6>2 DEF Own
        <5>2. QED
          BY <2>1, <4>1, <5>1 DEF Own
      <4>2. CASE ~ run'[n].stashed /\ run'[n].step # "pop" /\ ~ run'[n].meddled
        BY <4>2 DEF Own
      <4>3. CASE run'[n].step = "share" /\ (run'[n].meddled => run'[n].stashed)
        BY <4>3 DEF Own
      <4>4. CASE /\ run[n].step = "merge" /\ run'[n].step = "pop"
                 /\ ~ Pop(n) /\ ~ StashAway(n) /\ ~ Unstash(n)
                 /\ run'[n].stashed = run[n].stashed /\ run[n].stashed
                 /\ run'[n].number = run[n].number /\ run'[n].meddled = run[n].meddled
        <5>1. repo'[n].stash = repo[n].stash
          BY <1>2, <3>2, <4>4, StashUntouched
        <5>2. QED
          BY <2>1, <4>4, <5>1 DEF Own
      <4>5. CASE run'[n] = [run[n] EXCEPT !.meddled = run[n].stashed]
        <5>1. /\ run'[n].step = run[n].step /\ run'[n].stashed = run[n].stashed
              /\ run'[n].meddled = run[n].stashed
          BY <3>0, <4>5 DEF Runs
        <5>2. QED
          BY <2>1, <5>1 DEF Own
      <4>6. QED
        BY <1>2, <2>1, <3>2, <4>1, <4>2, <4>3, <4>4, <4>5, RunStep
    <3>3. QED
      BY <3>1, <3>2
  <2>4. QED
    BY <2>2, <2>3 DEF OwnStashes
<1>3. QED
  BY <1>1, <1>2 DEF Next

LEMMA TakesItsOwn ==
    TypeOK /\ OwnStashes /\ [Next]_vars =>
        \A n \in Nodes :
            SyncMoves(n) /\ ~ run[n].meddled /\ Len(repo'[n].stash) < Len(repo[n].stash) =>
                Head(repo[n].stash).by = run[n].number
<1> SUFFICES ASSUME TypeOK, OwnStashes, [Next]_vars, NEW n \in Nodes,
                    SyncMoves(n), ~ run[n].meddled, Len(repo'[n].stash) < Len(repo[n].stash)
             PROVE  Head(repo[n].stash).by = run[n].number
  OBVIOUS
<1>1. repo \in [Nodes -> Repos] /\ repo[n].stash \in Seq(Stashes) /\ Len(repo[n].stash) \in Nat
  <2>1. repo[n] \in Repos
    BY DEF TypeOK
  <2>2. repo[n].stash \in Seq(Stashes)
    BY <2>1 DEF Repos
  <2>3. QED
    BY <2>2 DEF TypeOK
<1>2. repo'[n].stash # repo[n].stash
  <2>1. ~ (Len(repo[n].stash) < Len(repo[n].stash))
    BY <1>1
  <2>2. QED
    BY <2>1
<1>3. Sync(n) \/ User(n)
  BY <1>2, Elsewhere DEF Next, vars
<1>4. CASE Stash(n)
  <2>1. repo'[n] = Emptied(n, run[n].number)
    BY <1>1, <1>2, <1>4 DEF Stash
  <2> DEFINE emptied == Emptied(n, run[n].number)
  <2>2. Typed(emptied) /\ emptied.stash # <<>> /\ Tail(emptied.stash) = repo[n].stash
    BY EmptiedTyped DEF TypeOK, Runs
  <2> HIDE DEF emptied
  <2>3. emptied.stash \in Seq(Stashes)
    BY <2>2 DEF Typed, Repos
  <2>4. Len(repo[n].stash) = Len(emptied.stash) - 1 /\ Len(emptied.stash) \in Nat
    <3>1. \A s \in Seq(Stashes) : s # <<>> => Len(Tail(s)) = Len(s) - 1 /\ Len(s) \in Nat
      BY HeadTailProperties
    <3>2. Len(Tail(emptied.stash)) = Len(emptied.stash) - 1
      BY <2>2, <2>3, <3>1
    <3>3. QED
      BY <2>2, <2>3, <3>1, <3>2
  <2>5. QED
    BY <2>1, <2>4 DEF emptied
<1>5. CASE Pop(n)
  BY <1>5 DEF Pop, OwnStashes, Own
<1>6. CASE StashAway(n) \/ Unstash(n)
  BY <1>6, UserRun DEF SyncMoves, User
<1>7. QED
  BY <1>2, <1>3, <1>4, <1>5, <1>6, StashUntouched

\* Whatever the user edits, stages and commits between the steps, and however earlier syncs
\* ended, the entry that `git stash pop` takes is the one this sync pushed, unless the user
\* used `git stash` between that push and the pop (git_pull, pop_stash).
THEOREM PopsItsOwn == Spec => RestoresItsOwn
<1>1. Spec => [](TypeOK /\ OwnStashes)
  BY InitTyped, NextTyped, OwnInit, OwnNext, PTL DEF Spec
<1>2. TypeOK /\ OwnStashes /\ [Next]_vars =>
        \A n \in Nodes :
            /\ SyncMoves(n) /\ ~ run[n].meddled
            /\ Len(repo'[n].stash) < Len(repo[n].stash)
            => Head(repo[n].stash).by = run[n].number
  BY TakesItsOwn
<1>3. QED
  BY <1>1, <1>2, PTL DEF Spec, RestoresItsOwn

-----------------------------------------------------------------------------
(* The work of a user *)

\* What the commits cs hold of a history, and what they and a clone hold together.
In(cs, history) == UNION {cs[c].holds : c \in history}
InStash(entries) == UNION {entry.holds : entry \in Range(entries)}
Keeps(cs, r) == r.edits \cup InStash(r.stash) \cup In(cs, r.head) \cup In(cs, r.merging)

\* Of which unmanaged changes no step may lose one.
Safe(cs, r, n, new) ==
    \A c \in Changes \ (Managed \cup new) : Writer[c] = n => c \in Keeps(cs, r)

LEMMA SafeIsKept ==
    /\ WorkKept <=> \A n \in Nodes : Safe(commits, repo[n], n, unwritten)
    /\ WorkKept' <=> \A n \in Nodes : Safe(commits', repo'[n], n, unwritten')
<1>1. ASSUME NEW n \in Nodes
      PROVE  Uncommitted(n) \cup Stashed(n) \cup Held(repo[n].head \cup repo[n].merging)
                = Keeps(commits, repo[n])
  BY DEF Uncommitted, MergedIn, Stashed, Held, Keeps, In, InStash
<1>2. ASSUME NEW n \in Nodes
      PROVE  (Uncommitted(n) \cup Stashed(n) \cup Held(repo[n].head \cup repo[n].merging))'
                = Keeps(commits', repo'[n])
  BY DEF Uncommitted, MergedIn, Stashed, Held, Keeps, In, InStash
<1>3. WorkKept <=> \A n \in Nodes : Safe(commits, repo[n], n, unwritten)
  BY <1>1 DEF WorkKept, Safe
<1>4. WorkKept' <=> \A n \in Nodes : Safe(commits', repo'[n], n, unwritten')
  BY <1>2 DEF WorkKept, Safe
<1>5. QED
  BY <1>3, <1>4

LEMMA InGrows ==
    ASSUME TypeOK, NEW new, commits' = Append(commits, new), NEW h \in SUBSET Numbers
    PROVE  /\ In(commits', h) = In(commits, h)
           /\ commits'[Len(commits) + 1] = new
<1>1. commits \in Seq(Commits)
  BY DEF TypeOK
<1>2. \A c \in h : commits'[c] = commits[c]
  BY <1>1 DEF Numbers
<1>3. {commits'[c].holds : c \in h} = {commits[c].holds : c \in h}
  BY <1>2
<1>4. commits'[Len(commits) + 1] = new
  BY <1>1
<1>5. QED
  BY <1>3, <1>4 DEF In

LEMMA StashRange ==
    \A q \in Seq(Stashes) : q # <<>> => Range(q) = {Head(q)} \cup Range(Tail(q))
<1> SUFFICES ASSUME NEW q \in Seq(Stashes), q # <<>>
             PROVE  Range(q) = {Head(q)} \cup Range(Tail(q))
  OBVIOUS
<1>1. /\ Len(Tail(q)) = Len(q) - 1 /\ Len(q) \in Nat \ {0} /\ Head(q) = q[1]
      /\ \A i \in 1..Len(Tail(q)) : Tail(q)[i] = q[i + 1]
      /\ DOMAIN q = 1..Len(q) /\ DOMAIN Tail(q) = 1..Len(Tail(q))
  BY HeadTailProperties
<1>2. \A i \in 1..Len(q) : i = 1 \/ (i - 1 \in 1..Len(Tail(q)) /\ Tail(q)[i - 1] = q[i])
  BY <1>1
<1>3. 1 \in 1..Len(q) /\ \A i \in 1..Len(Tail(q)) : i + 1 \in 1..Len(q)
  BY <1>1
<1>4. Range(q) \subseteq {Head(q)} \cup Range(Tail(q))
  <2>1. \A i \in 1..Len(q) : q[i] = Head(q) \/ q[i] \in Range(Tail(q))
    BY <1>1, <1>2 DEF Range
  <2>2. QED
    BY <1>1, <2>1 DEF Range
<1>5. {Head(q)} \cup Range(Tail(q)) \subseteq Range(q)
  BY <1>1, <1>3 DEF Range
<1>6. QED
  BY <1>4, <1>5

\* A clone that only gained something keeps what it had.
LEMMA KeepsMore ==
    ASSUME NEW cs, NEW r, NEW s,
           r.edits \subseteq s.edits, r.head \subseteq s.head, r.merging \subseteq s.merging,
           r.stash = s.stash
    PROVE  Keeps(cs, r) \subseteq Keeps(cs, s)
  BY DEF Keeps, In

\* A commit takes the index out of the working tree and into the history.
LEMMA KeptByCommit ==
    ASSUME TypeOK, NEW r, Typed(r), commits' = Append(commits, NewCommit(r))
    PROVE  Keeps(commits, r) \subseteq Keeps(commits', Committed(r))
<1> DEFINE new == NewCommit(r)
           s == Committed(r)
<1>1. r.head \in SUBSET Numbers /\ r.merging \in SUBSET Numbers
  BY DEF Typed, Repos
<1>2. In(commits', r.head) = In(commits, r.head) /\ In(commits', r.merging) = In(commits, r.merging)
  BY <1>1, InGrows
<1>3. commits'[Len(commits) + 1] = new
  BY <1>1, InGrows
<1>4. /\ s.head = r.head \cup r.merging \cup {Len(commits) + 1}
      /\ s.stash = r.stash /\ s.edits = r.edits \ r.staged
  BY DEF Typed, Repos, Committed, Parents
<1>5. r.staged \subseteq new.holds
  BY DEF NewCommit
<1>6. In(commits', r.head) \cup In(commits', r.merging) \cup new.holds \subseteq In(commits', s.head)
  BY <1>3, <1>4 DEF In
<1>7. QED
  BY <1>2, <1>4, <1>5, <1>6 DEF Keeps

\* A stash takes what the working tree shows, a merge in progress included.
LEMMA KeptByStash ==
    ASSUME TypeOK, NEW n \in Nodes, NEW by \in Nat
    PROVE  Keeps(commits, repo[n]) \subseteq Keeps(commits, Emptied(n, by))
<1> DEFINE s == Emptied(n, by)
<1>1. /\ s.stash # <<>> /\ Head(s.stash).holds = Uncommitted(n)
      /\ Tail(s.stash) = repo[n].stash /\ s.head = repo[n].head /\ s.stash \in Seq(Stashes)
  BY EmptiedTyped DEF Typed, Repos
<1>2. InStash(s.stash) = Uncommitted(n) \cup InStash(repo[n].stash)
  <2> HIDE DEF s
  <2>1. Range(s.stash) = {Head(s.stash)} \cup Range(repo[n].stash)
    BY <1>1, StashRange
  <2>2. QED
    BY <1>1, <2>1 DEF InStash
<1>3. Uncommitted(n) \cup In(commits, repo[n].head) =
        repo[n].edits \cup In(commits, repo[n].merging) \cup In(commits, repo[n].head)
  BY DEF Uncommitted, MergedIn, Held, In
<1>4. QED
  BY <1>1, <1>2, <1>3 DEF Keeps

\* ... and gives all of it back.
LEMMA KeptByRestore ==
    ASSUME TypeOK, NEW n \in Nodes, repo[n].stash # <<>>, NEW again
    PROVE  Keeps(commits, repo[n]) \subseteq Keeps(commits, Restored(repo[n], again))
<1> DEFINE s == Restored(repo[n], again)
<1>1. repo[n] \in Repos /\ repo[n].stash \in Seq(Stashes)
  BY DEF TypeOK, Repos
<1>2. /\ s.stash = Tail(repo[n].stash) /\ s.edits = repo[n].edits \cup Head(repo[n].stash).holds
      /\ s.head = repo[n].head /\ s.merging = repo[n].merging
  BY <1>1 DEF Restored, Repos
<1>3. Range(repo[n].stash) = {Head(repo[n].stash)} \cup Range(Tail(repo[n].stash))
  BY <1>1, StashRange
<1>4. InStash(repo[n].stash) = Head(repo[n].stash).holds \cup InStash(s.stash)
  BY <1>2, <1>3 DEF InStash
<1>5. QED
  BY <1>2, <1>4 DEF Keeps

\* Commits are only added.
LEMMA OnlyAppends ==
    ASSUME NEW n \in Nodes, Sync(n) \/ User(n)
    PROVE  UNCHANGED commits \/ \E new : commits' = Append(commits, new)
<1>1. CASE Commit(n) \/ Merge(n) \/ CommitStaged(n)
  BY <1>1 DEF Commit, Merge, CommitStaged
<1>2. CASE Sync(n) /\ ~ Commit(n) /\ ~ Merge(n)
  BY <1>2
     DEF Sync, Begin, CommitNothing, Push, Fetch, FetchFails, Check, CheckUpToDate, CheckRefuses,
         CheckInitial, CheckMerge, Stash, StashFails, FastForward, Conflict, MergeRefused, MergeFails,
         Pop, PopFails, Share, End, Killed
<1>3. CASE User(n) /\ ~ CommitStaged(n)
  BY <1>3 DEF User, Write, StageEdit, Resolve, StashAway, Unstash
<1>4. QED
  BY <1>1, <1>2, <1>3

LEMMA OnlyCommitSyncs ==
    ASSUME NEW n \in Nodes, Sync(n) \/ User(n), ~ Commit(n)
    PROVE  synced' = synced
<1>1. CASE Sync(n)
  BY <1>1
     DEF Sync, Begin, CommitNothing, Push, Fetch, FetchFails, Check, CheckUpToDate, CheckRefuses,
         CheckInitial, CheckMerge, Stash, StashFails, FastForward, Merge, Merged, Conflict,
         MergeRefused, MergeFails, Pop, PopFails, Share, End, Killed
<1>2. CASE User(n)
  BY <1>2 DEF User, Write, StageEdit, CommitStaged, Resolve, StashAway, Unstash
<1>3. QED
  BY <1>1, <1>2

\* What a clone holds in the commits there were, it holds in those there are.
LEMMA KeptByAll ==
    ASSUME TypeOK, NEW n \in Nodes, Sync(n) \/ User(n), NEW k \in Nodes
    PROVE  Keeps(commits, repo[k]) \subseteq Keeps(commits', repo[k])
<1>1. repo[k].head \in SUBSET Numbers /\ repo[k].merging \in SUBSET Numbers
  BY DEF TypeOK, Repos
<1>2. CASE UNCHANGED commits
  BY <1>2
<1>3. CASE \E new : commits' = Append(commits, new)
  BY <1>1, <1>3, InGrows DEF Keeps
<1>4. QED
  BY <1>2, <1>3, OnlyAppends

LEMMA SyncWrites ==
    ASSUME NEW n \in Nodes, Sync(n)
    PROVE  unwritten' = unwritten
  BY DEF Sync, Begin, Commit, CommitNothing, Push, Fetch, FetchFails, Check, CheckUpToDate,
         CheckRefuses, CheckInitial, CheckMerge, Stash, StashFails, FastForward, Merge, Merged,
         Conflict, MergeRefused, MergeFails, Pop, PopFails, Share, End, Killed

\* Each step of a sync keeps the unmanaged changes of its clone.
LEMMA KeptBySync ==
    ASSUME TypeOK, NEW n \in Nodes, Sync(n)
    PROVE  Keeps(commits, repo[n]) \ Managed \subseteq Keeps(commits', repo'[n])
<1>0. repo \in [Nodes -> Repos] /\ repo[n] \in Repos /\ Typed(repo[n])
  BY DEF TypeOK, Typed
<1>1. Keeps(commits, repo[n]) \subseteq Keeps(commits', repo[n])
  BY KeptByAll
<1>2. CASE UNCHANGED repo
  BY <1>1, <1>2
<1>3. CASE Commit(n)
  <2>1. Typed(Added(n)) /\ Keeps(commits, repo[n]) = Keeps(commits, Added(n))
    BY AddedTyped DEF Keeps
  <2>2. repo'[n] = Committed(Added(n)) /\ commits' = Append(commits, NewCommit(Added(n)))
    BY <1>0, <1>3 DEF Commit
  <2>3. QED
    BY <2>1, <2>2, KeptByCommit
<1>4. CASE CommitNothing(n)
  <2>1. repo'[n] = Added(n) /\ commits' = commits
    BY <1>0, <1>4 DEF CommitNothing
  <2>2. QED
    BY <2>1, AddedTyped DEF Keeps
<1>5. CASE Push(n) \/ Fetch(n) \/ Share(n)
  <2>1. \/ UNCHANGED repo
        \/ repo' = [repo EXCEPT ![n] = [repo[n] EXCEPT !.origin = repo[n].head]]
        \/ repo' = [repo EXCEPT ![n] = [repo[n] EXCEPT !.origin = remote]]
    BY <1>5 DEF Push, Share, PushTo, Fetch
  <2>2. /\ repo'[n].edits = repo[n].edits /\ repo'[n].stash = repo[n].stash
        /\ repo'[n].head = repo[n].head /\ repo'[n].merging = repo[n].merging
    BY <1>0, <2>1 DEF Repos
  <2>3. QED
    BY <1>1, <2>2 DEF Keeps
<1>6. CASE CheckInitial(n)
  <2> DEFINE shared == Held(repo[n].origin) \cap Managed
  <2>1. PICK overwritten \in SUBSET (repo[n].edits \cap Managed) :
          repo' = [repo EXCEPT ![n].edits = (@ \ overwritten) \cup shared,
                               ![n].staged = (@ \ overwritten) \cup shared]
    BY <1>6, Zenon DEF CheckInitial
  <2> HIDE DEF shared
  <2>2. /\ repo[n].edits \ Managed \subseteq repo'[n].edits /\ repo'[n].stash = repo[n].stash
        /\ repo'[n].head = repo[n].head /\ repo'[n].merging = repo[n].merging
    BY <1>0, <2>1 DEF Repos
  <2>3. QED
    BY <1>1, <2>2 DEF Keeps
<1>7. CASE Stash(n)
  <2>1. repo'[n] = repo[n] \/ repo'[n] = Emptied(n, run[n].number)
    BY <1>0, <1>7 DEF Stash
  <2>2. commits' = commits /\ run[n].number \in Nat
    BY <1>7 DEF Stash, TypeOK, Runs
  <2>3. QED
    BY <2>1, <2>2, KeptByStash
<1>8. CASE FastForward(n) \/ Merge(n)
  <2>1. \/ repo' = [repo EXCEPT ![n] = [repo[n] EXCEPT !.head = repo[n].head \cup repo[n].origin]]
        \/ repo' = [repo EXCEPT ![n] =
                      [repo[n] EXCEPT !.head = repo[n].head \cup repo[n].origin \cup {Len(commits) + 1}]]
    BY <1>8 DEF FastForward, Merge, Merged
  <2>2. /\ repo'[n].edits = repo[n].edits /\ repo'[n].stash = repo[n].stash
        /\ repo[n].head \subseteq repo'[n].head /\ repo'[n].merging = repo[n].merging
    BY <1>0, <2>1 DEF Repos
  <2>3. QED
    BY <1>1, <2>2, KeepsMore
<1>9. CASE Conflict(n)
  <2>1. PICK paths :
          repo' = [repo EXCEPT ![n] = [repo[n] EXCEPT !.merging = repo[n].origin, !.unmerged = paths]]
    BY <1>9 DEF Conflict
  <2>2. repo[n].merging = {}
    BY <1>9 DEF Conflict, MustRefuse
  <2>3. /\ repo'[n].edits = repo[n].edits /\ repo'[n].stash = repo[n].stash
        /\ repo'[n].head = repo[n].head /\ repo[n].merging \subseteq repo'[n].merging
    BY <1>0, <2>1, <2>2 DEF Repos
  <2>4. QED
    BY <1>1, <2>3, KeepsMore
<1>10. CASE Pop(n)
  <2>1. PICK again : repo' = [repo EXCEPT ![n] = Restored(repo[n], again)]
    BY <1>10 DEF Pop
  <2>2. commits' = commits /\ repo'[n] = Restored(repo[n], again) /\ repo[n].stash # <<>>
    BY <1>0, <1>10, <2>1 DEF Pop
  <2>3. QED
    BY <2>2, KeptByRestore
<1>11. CASE PopFails(n)
  <2>1. PICK paths : repo' = [repo EXCEPT ![n] = Unpopped(repo[n], paths)]
    BY <1>11 DEF PopFails
  <2>2. /\ repo'[n].edits = repo[n].edits /\ repo'[n].stash = repo[n].stash
        /\ repo'[n].head = repo[n].head /\ repo'[n].merging = repo[n].merging
    BY <1>0, <2>1 DEF Unpopped, Repos
  <2>3. QED
    BY <1>1, <2>2 DEF Keeps
<1>12. CASE \/ Begin(n) \/ FetchFails(n) \/ CheckUpToDate(n) \/ CheckRefuses(n) \/ CheckMerge(n)
           \/ StashFails(n) \/ MergeRefused(n) \/ End(n) \/ Killed(n)
  BY <1>2, <1>12
     DEF Begin, FetchFails, CheckUpToDate, CheckRefuses, CheckMerge, StashFails, MergeRefused,
         End, Killed
<1>13. QED
  BY <1>3, <1>4, <1>5, <1>6, <1>7, <1>8, <1>9, <1>10, <1>11, <1>12 DEF Sync, Check

\* ... and so does each step of its user, who makes only changes of their own.
LEMMA KeptByUser ==
    ASSUME TypeOK, NEW n \in Nodes, User(n)
    PROVE  /\ Keeps(commits, repo[n]) \subseteq Keeps(commits', repo'[n])
           /\ \A c \in unwritten \ unwritten' : Writer[c] = n /\ c \in Keeps(commits', repo'[n])
<1>0. repo \in [Nodes -> Repos] /\ repo[n] \in Repos /\ Typed(repo[n])
  BY DEF TypeOK, Typed
<1>1. Keeps(commits, repo[n]) \subseteq Keeps(commits', repo[n])
  BY KeptByAll
<1>2. CASE Write(n)
  <2>1. PICK c \in unwritten :
          /\ Writer[c] = n /\ unwritten' = unwritten \ {c}
          /\ repo' = [repo EXCEPT ![n] = [repo[n] EXCEPT !.edits = repo[n].edits \cup {c}]]
    BY <1>2 DEF Write
  <2>2. /\ repo'[n].edits = repo[n].edits \cup {c} /\ repo'[n].stash = repo[n].stash
        /\ repo'[n].head = repo[n].head /\ repo'[n].merging = repo[n].merging
    BY <1>0, <2>1 DEF Repos
  <2>3. Keeps(commits', repo[n]) \subseteq Keeps(commits', repo'[n])
    BY <2>2, KeepsMore
  <2>4. c \in Keeps(commits', repo'[n])
    BY <2>2 DEF Keeps
  <2>5. QED
    BY <1>1, <2>1, <2>3, <2>4
<1>3. CASE StageEdit(n) \/ Resolve(n)
  <2>1. \/ \E staged : repo' = [repo EXCEPT ![n] = [repo[n] EXCEPT !.staged = staged]]
        \/ repo' = [repo EXCEPT ![n] = [repo[n] EXCEPT !.unmerged = {}]]
    BY <1>3 DEF StageEdit, Resolve
  <2>2. /\ repo'[n].edits = repo[n].edits /\ repo'[n].stash = repo[n].stash
        /\ repo'[n].head = repo[n].head /\ repo'[n].merging = repo[n].merging
    BY <1>0, <2>1 DEF Repos
  <2>3. unwritten' = unwritten
    BY <1>3 DEF StageEdit, Resolve
  <2>4. QED
    BY <1>1, <2>2, <2>3 DEF Keeps
<1>4. CASE CommitStaged(n)
  <2>1. /\ repo'[n] = Committed(repo[n]) /\ commits' = Append(commits, NewCommit(repo[n]))
        /\ unwritten' = unwritten
    BY <1>0, <1>4 DEF CommitStaged
  <2>2. QED
    BY <1>0, <2>1, KeptByCommit
<1>5. CASE Unstash(n)
  <2>1. PICK again : repo' = [repo EXCEPT ![n] = Restored(repo[n], again)]
    BY <1>5 DEF Unstash
  <2>2. /\ commits' = commits /\ repo'[n] = Restored(repo[n], again) /\ repo[n].stash # <<>>
        /\ unwritten' = unwritten
    BY <1>0, <1>5, <2>1 DEF Unstash
  <2>3. QED
    BY <2>2, KeptByRestore
<1>6. CASE StashAway(n)
  <2>1. commits' = commits /\ repo'[n] = Emptied(n, 0) /\ unwritten' = unwritten
    BY <1>0, <1>6 DEF StashAway
  <2>2. QED
    BY <2>1, KeptByStash
<1>7. QED
  BY <1>2, <1>3, <1>4, <1>5, <1>6 DEF User

LEMMA KeptNext == TypeOK /\ WorkKept /\ [Next]_vars => WorkKept'
<1> SUFFICES ASSUME TypeOK, WorkKept, [Next]_vars, NEW k \in Nodes
             PROVE  Safe(commits', repo'[k], k, unwritten')
  BY SafeIsKept
<1>1. Safe(commits, repo[k], k, unwritten)
  BY SafeIsKept
<1>2. CASE UNCHANGED vars
  BY <1>1, <1>2 DEF vars
<1>3. ASSUME NEW n \in Nodes, Sync(n) \/ User(n), n # k
      PROVE  Safe(commits', repo'[k], k, unwritten')
  <2>1. repo'[k] = repo[k]
    BY <1>3, Elsewhere
  <2>2. Keeps(commits, repo[k]) \subseteq Keeps(commits', repo'[k])
    BY <1>3, <2>1, KeptByAll
  <2>3. \A c \in unwritten \ unwritten' : Writer[c] = n
    BY <1>3, KeptByUser, SyncWrites
  <2>4. QED
    BY <1>1, <1>3, <2>2, <2>3 DEF Safe
<1>4. CASE Sync(k)
  <2>1. unwritten' = unwritten
    BY <1>4, SyncWrites
  <2>2. QED
    BY <1>1, <1>4, <2>1, KeptBySync DEF Safe
<1>5. CASE User(k)
  BY <1>1, <1>5, KeptByUser DEF Safe
<1>6. QED
  BY <1>2, <1>3, <1>4, <1>5 DEF Next

\* No step of any sync, in any order with the user and the other members, loses what the
\* user of a clone wrote outside .shared/ (git_pull, stash_local_worktree, pop_stash).
THEOREM KeepsWork == Spec => []WorkKept
<1>1. Init => WorkKept
  BY DEF Init, WorkKept
<1>2. QED
  BY <1>1, InitTyped, NextTyped, KeptNext, PTL DEF Spec

-----------------------------------------------------------------------------
(* What a sync has shared *)

\* A clone never leaves its history, whatever a step does to its working tree.
LEMMA HeadGrows ==
    ASSUME TypeOK, NEW n \in Nodes, Sync(n) \/ User(n), NEW k \in Nodes
    PROVE  repo[k].head \subseteq repo'[k].head
<1>0. repo \in [Nodes -> Repos] /\ repo[n] \in Repos /\ Typed(repo[n])
  BY DEF TypeOK, Typed
<1>1. CASE k # n
  BY <1>1, Elsewhere
<1>2. ASSUME NEW r, Typed(r), r.head = repo[n].head
      PROVE  repo[n].head \subseteq Committed(r).head
  BY <1>2 DEF Committed, Parents, Typed, Repos
<1>3. CASE Commit(n) \/ CommitNothing(n)
  <2>1. Typed(Added(n)) /\ Added(n).head = repo[n].head
    BY AddedTyped
  <2>2. repo' = [repo EXCEPT ![n] = Committed(Added(n))] \/ repo' = [repo EXCEPT ![n] = Added(n)]
    BY <1>3 DEF Commit, CommitNothing
  <2>3. QED
    BY <1>0, <1>1, <1>2, <2>1, <2>2
<1>4. CASE Push(n) \/ Fetch(n) \/ Share(n)
  <2>1. \/ UNCHANGED repo
        \/ repo' = [repo EXCEPT ![n] = [repo[n] EXCEPT !.origin = repo[n].head]]
        \/ repo' = [repo EXCEPT ![n] = [repo[n] EXCEPT !.origin = remote]]
    BY <1>4 DEF Push, Share, PushTo, Fetch
  <2>2. QED
    BY <1>0, <1>1, <2>1 DEF Repos
<1>5. CASE CheckInitial(n)
  BY <1>0, <1>1, <1>5 DEF CheckInitial, Repos
<1>6. CASE Stash(n) \/ StashAway(n)
  <2>1. UNCHANGED repo \/ \E by \in Nat : repo' = [repo EXCEPT ![n] = Emptied(n, by)]
    BY <1>6 DEF Stash, StashAway, TypeOK, Runs
  <2>2. QED
    BY <1>0, <1>1, <2>1, EmptiedTyped
<1>7. CASE FastForward(n) \/ Merge(n)
  <2>1. \/ repo' = [repo EXCEPT ![n] = [repo[n] EXCEPT !.head = repo[n].head \cup repo[n].origin]]
        \/ repo' = [repo EXCEPT ![n] =
                      [repo[n] EXCEPT !.head = repo[n].head \cup repo[n].origin \cup {Len(commits) + 1}]]
    BY <1>7 DEF FastForward, Merge, Merged
  <2>2. QED
    BY <1>0, <1>1, <2>1 DEF Repos
<1>8. CASE Conflict(n) \/ PopFails(n)
  <2>1. CASE Conflict(n)
    BY <1>0, <1>1, <2>1 DEF Conflict, Repos
  <2>2. CASE PopFails(n)
    BY <1>0, <1>1, <2>2 DEF PopFails, Unpopped, Repos
  <2>3. QED
    BY <1>8, <2>1, <2>2
<1>9. CASE Pop(n)
  BY <1>0, <1>1, <1>9 DEF Pop, Restored, Repos
<1>10. CASE \/ Begin(n) \/ FetchFails(n) \/ CheckUpToDate(n) \/ CheckRefuses(n) \/ CheckMerge(n)
            \/ StashFails(n) \/ MergeRefused(n) \/ End(n) \/ Killed(n)
  BY <1>10
     DEF Begin, FetchFails, CheckUpToDate, CheckRefuses, CheckMerge, StashFails, MergeRefused,
         End, Killed
<1>11. CASE CommitStaged(n)
  BY <1>0, <1>1, <1>2, <1>11 DEF CommitStaged
<1>12. CASE Write(n) \/ StageEdit(n) \/ Resolve(n)
  <2>1. \/ \E edits : repo' = [repo EXCEPT ![n] = [repo[n] EXCEPT !.edits = edits]]
        \/ \E staged : repo' = [repo EXCEPT ![n] = [repo[n] EXCEPT !.staged = staged]]
        \/ repo' = [repo EXCEPT ![n] = [repo[n] EXCEPT !.unmerged = {}]]
    BY <1>12 DEF Write, StageEdit, Resolve
  <2>2. QED
    BY <1>0, <1>1, <2>1 DEF Repos
<1>13. CASE Unstash(n)
  BY <1>0, <1>1, <1>13 DEF Unstash, Restored, Repos
<1>14. QED
  BY <1>3, <1>4, <1>5, <1>6, <1>7, <1>8, <1>9, <1>10, <1>11, <1>12, <1>13 DEF Sync, Check, User

\* ... nor does the remote: a push is only forward.
LEMMA RemoteGrows ==
    ASSUME NEW n \in Nodes, Sync(n) \/ User(n)
    PROVE  remote \subseteq remote'
<1>1. CASE Push(n) \/ Share(n)
  BY <1>1 DEF Push, Share, PushTo, CanPush
<1>2. CASE Sync(n) /\ ~ Push(n) /\ ~ Share(n)
  BY <1>2
     DEF Sync, Begin, Commit, CommitNothing, Fetch, FetchFails, Check, CheckUpToDate, CheckRefuses,
         CheckInitial, CheckMerge, Stash, StashFails, FastForward, Merge, Merged, Conflict,
         MergeRefused, MergeFails, Pop, PopFails, End, Killed
<1>3. CASE User(n)
  BY <1>3 DEF User, Write, StageEdit, CommitStaged, Resolve, StashAway, Unstash
<1>4. QED
  BY <1>1, <1>2, <1>3

\* A history that grows, in commits that grow, holds what it held.
LEMMA InKept ==
    ASSUME TypeOK, NEW n \in Nodes, Sync(n) \/ User(n),
           NEW h \in SUBSET Numbers, NEW more, h \subseteq more
    PROVE  In(commits, h) \subseteq In(commits', more)
<1>1. In(commits', h) \subseteq In(commits', more)
  BY DEF In
<1>2. In(commits, h) = In(commits', h)
  BY InGrows, OnlyAppends
<1>3. QED
  BY <1>1, <1>2

\* What a member's syncs committed is in its own history.
SyncedHere == \A n \in Nodes : synced[n] \subseteq In(commits, repo[n].head)

LEMMA SyncedNext == TypeOK /\ SyncedHere /\ [Next]_vars => SyncedHere'
<1> SUFFICES ASSUME TypeOK, SyncedHere, [Next]_vars, NEW k \in Nodes
             PROVE  synced'[k] \subseteq In(commits', repo'[k].head)
  BY DEF SyncedHere
<1>1. CASE UNCHANGED vars
  BY <1>1 DEF vars, SyncedHere
<1>2. ASSUME NEW n \in Nodes, Sync(n) \/ User(n)
      PROVE  synced'[k] \subseteq In(commits', repo'[k].head)
  <2>1. repo[k].head \in SUBSET Numbers
    BY DEF TypeOK, Repos
  <2>2. synced[k] \subseteq In(commits', repo'[k].head)
    BY <1>2, <2>1, HeadGrows, InKept DEF SyncedHere
  <2>3. CASE Commit(n)
    <3>1. Typed(Added(n))
      BY AddedTyped
    <3>2. commits' = Append(commits, NewCommit(Added(n))) /\ repo'[n] = Committed(Added(n))
      BY <2>3 DEF Commit, TypeOK
    <3>3. commits'[Len(commits) + 1] = NewCommit(Added(n))
      BY <2>1, <3>2, InGrows
    <3>4. Len(commits) + 1 \in repo'[n].head
      BY <3>1, <3>2 DEF Committed, Typed, Repos
    <3>5. Added(n).staged \subseteq In(commits', repo'[n].head)
      BY <3>3, <3>4 DEF NewCommit, In
    <3>6. synced' = [synced EXCEPT ![n] = synced[n] \cup Added(n).staged]
      BY <2>3 DEF Commit
    <3>7. QED
      BY <2>2, <3>5, <3>6 DEF TypeOK
  <2>4. CASE ~ Commit(n)
    BY <1>2, <2>2, <2>4, OnlyCommitSyncs
  <2>5. QED
    BY <2>3, <2>4
<1>3. QED
  BY <1>1, <1>2 DEF Next

\* A sync ends with what it pulled and no warning only when its last push succeeded.
LEMMA EndsShared ==
    ASSUME TypeOK, NEW n \in Nodes, Sync(n),
           run'[n].step = "end", run'[n].pushed, run'[n].pulled, ~ run'[n].conflicts,
           ~ run'[n].warned
    PROVE  remote' = repo'[n].head
<1>1. run \in [Nodes -> Runs] /\ run[n] \in Runs /\ repo \in [Nodes -> Repos] /\ repo[n] \in Repos
  BY DEF TypeOK
<1>2. ASSUME NEW pulled, NEW warning, Report(n, pulled, warning)
      PROVE  /\ run'[n].pushed = run[n].pushed /\ run'[n].pulled = pulled
             /\ run'[n].conflicts = run[n].conflicts /\ run'[n].warned = (run[n].warned \/ warning)
  BY <1>1, <1>2 DEF Report, Idle
<1>3. CASE Share(n)
  <2>1. PushesAgain(n)
    BY <1>2, <1>3 DEF Share, PushesAgain
  <2>2. PushTo(n)
    BY <1>2, <1>3, <2>1 DEF Share
  <2>3. QED
    BY <1>1, <2>2 DEF PushTo, Repos
<1>4. CASE FetchFails(n) \/ CheckUpToDate(n) \/ CheckRefuses(n) \/ CheckInitial(n) \/ StashFails(n)
  BY <1>2, <1>4 DEF FetchFails, CheckUpToDate, CheckRefuses, CheckInitial, StashFails
<1>5. CASE Begin(n) \/ End(n) \/ Killed(n)
  <2>1. \/ run' = [run EXCEPT ![n] = Idle]
        \/ run' = [run EXCEPT ![n] = [Idle EXCEPT !.step = "commit", !.number = syncs + 1]]
    BY <1>5 DEF Begin, End, Killed
  <2>2. Idle.step = "idle" /\ [Idle EXCEPT !.step = "commit", !.number = syncs + 1].step = "commit"
    BY DEF Idle
  <2>3. QED
    BY <1>1, <2>1, <2>2
<1>6. CASE Commit(n) \/ CommitNothing(n) \/ Push(n)
  BY <1>1, <1>6 DEF Commit, CommitNothing, Push, Goto, Runs
<1>7. CASE Fetch(n) \/ CheckMerge(n) \/ Stash(n)
  <2>1. CASE Fetch(n)
    BY <1>1, <2>1 DEF Fetch, Runs
  <2>2. CASE CheckMerge(n)
    BY <1>1, <2>2 DEF CheckMerge, Runs
  <2>3. CASE Stash(n)
    BY <1>1, <2>3 DEF Stash, Runs
  <2>4. QED
    BY <1>7, <2>1, <2>2, <2>3
<1>8. CASE FastForward(n) \/ Merge(n)
  BY <1>1, <1>8 DEF FastForward, Merge, Merged, Runs
<1>9. CASE Conflict(n) \/ MergeRefused(n)
  <2>1. MergeFails(n)
    BY <1>9 DEF Conflict, MergeRefused
  <2>2. run'[n].step = "share"
    BY <1>1, <2>1 DEF MergeFails, Runs
  <2>3. QED
    BY <2>2
<1>10. CASE Pop(n) \/ PopFails(n)
  BY <1>1, <1>10 DEF Pop, PopFails, Runs
<1>11. QED
  BY <1>3, <1>4, <1>5, <1>6, <1>7, <1>8, <1>9, <1>10 DEF Sync, Check

LEMMA PulledNext == TypeOK /\ SyncedHere /\ PulledIsShared /\ [Next]_vars => PulledIsShared'
<1> SUFFICES ASSUME TypeOK, SyncedHere, PulledIsShared, [Next]_vars, NEW k \in Nodes,
                    run'[k].step = "end", run'[k].pushed, run'[k].pulled, ~ run'[k].conflicts,
                    ~ run'[k].warned
             PROVE  synced'[k] \subseteq In(commits', remote')
  BY DEF PulledIsShared, Held, In
<1>1. CASE UNCHANGED vars
  BY <1>1 DEF vars, PulledIsShared, Held, In
<1>2. ASSUME NEW n \in Nodes, Sync(n) \/ User(n)
      PROVE  synced'[k] \subseteq In(commits', remote')
  <2>1. CASE n # k \/ User(n)
    <3>0. /\ run'[k].step = run[k].step /\ run'[k].pushed = run[k].pushed
          /\ run'[k].pulled = run[k].pulled /\ run'[k].conflicts = run[k].conflicts
          /\ run'[k].warned = run[k].warned
      BY <1>2, <2>1, Elsewhere, UserRun
    <3>1. synced[k] \subseteq In(commits, remote)
      BY <3>0 DEF PulledIsShared, Held, In
    <3>2. remote \in SUBSET Numbers
      BY DEF TypeOK
    <3>3. synced[k] \subseteq In(commits', remote')
      BY <1>2, <3>1, <3>2, RemoteGrows, InKept
    <3>4. synced'[k] = synced[k]
      <4>1. CASE Commit(n)
        <5>1. run'[n].step # run[n].step
          BY <4>1 DEF Commit, TypeOK, Runs
        <5>2. n # k
          BY <2>1, <5>1, UserRun
        <5>3. QED
          BY <4>1, <5>2 DEF Commit, TypeOK
      <4>2. QED
        BY <1>2, <4>1, OnlyCommitSyncs
    <3>5. QED
      BY <3>3, <3>4
  <2>2. CASE n = k /\ Sync(k)
    <3>1. remote' = repo'[k].head
      BY <2>2, EndsShared
    <3>2. QED
      BY <3>1, SyncedNext DEF SyncedHere
  <2>3. QED
    BY <1>2, <2>1, <2>2
<1>3. QED
  BY <1>1, <1>2 DEF Next

\* "If we pushed but pull brought new changes, push again": whatever the other members push
\* in between, what such a sync reports as shared without a warning is (sync_project).
THEOREM SharesPulled == Spec => []PulledIsShared
<1>1. Init => SyncedHere /\ PulledIsShared
  BY DEF Init, SyncedHere, PulledIsShared, Idle
<1>2. QED
  BY <1>1, InitTyped, NextTyped, SyncedNext, PulledNext, PTL DEF Spec

-----------------------------------------------------------------------------
(* What enters a working tree *)

\* A sync that was not approved never stashes, and what it is about to merge has no
\* unmanaged change that its own history lacks.
Approving(cs, r, s) ==
    /\ s.step \in {"stash", "pop"} \/ s.stashed => s.approve
    /\ s.step = "merge" /\ ~ s.approve => In(cs, r.origin) \ Managed \subseteq In(cs, r.head)

AllApproving == \A n \in Nodes : Approving(commits, repo[n], run[n])

LEMMA OriginKept ==
    ASSUME TypeOK, NEW n \in Nodes, User(n)
    PROVE  repo'[n].origin = repo[n].origin
<1>0. repo \in [Nodes -> Repos] /\ repo[n] \in Repos
  BY DEF TypeOK
<1>1. CASE Write(n) \/ StageEdit(n) \/ Resolve(n)
  <2>1. \/ \E edits : repo' = [repo EXCEPT ![n] = [repo[n] EXCEPT !.edits = edits]]
        \/ \E staged : repo' = [repo EXCEPT ![n] = [repo[n] EXCEPT !.staged = staged]]
        \/ repo' = [repo EXCEPT ![n] = [repo[n] EXCEPT !.unmerged = {}]]
    BY <1>1 DEF Write, StageEdit, Resolve
  <2>2. QED
    BY <1>0, <1>1, <2>1 DEF Repos, Write, StageEdit, Resolve
<1>2. CASE CommitStaged(n) \/ Unstash(n)
  BY <1>0, <1>2 DEF CommitStaged, Committed, Unstash, Restored, Repos
<1>3. CASE StashAway(n)
  BY <1>0, <1>3 DEF StashAway, Emptied, Repos
<1>4. QED
  BY <1>1, <1>2, <1>3 DEF User

\* The sync of a member after one of its own steps.
LEMMA ApprovingRun ==
    ASSUME TypeOK, NEW n \in Nodes, Approving(commits, repo[n], run[n]), Own(repo[n], run[n]),
           Sync(n)
    PROVE  \/ run'[n].approve
           \/ run'[n].step \notin {"stash", "pop", "merge"} /\ ~ run'[n].stashed
           \/ CheckMerge(n) /\ run'[n].step = "merge" /\ ~ run'[n].stashed /\ ~ run[n].approve
<1>1. run \in [Nodes -> Runs] /\ run[n] \in Runs
  BY DEF TypeOK
<1>2. ASSUME NEW pulled, NEW warning, Report(n, pulled, warning)
      PROVE  run'[n].step = "end" /\ ~ run'[n].stashed
  BY <1>1, <1>2 DEF Report, Idle
<1>3. CASE \/ FetchFails(n) \/ CheckUpToDate(n) \/ CheckRefuses(n) \/ CheckInitial(n) \/ StashFails(n)
           \/ Share(n)
  BY <1>2, <1>3 DEF FetchFails, CheckUpToDate, CheckRefuses, CheckInitial, StashFails, Share
<1>4. CASE Begin(n) \/ End(n) \/ Killed(n)
  <2>1. \/ run' = [run EXCEPT ![n] = Idle]
        \/ run' = [run EXCEPT ![n] = [Idle EXCEPT !.step = "commit", !.number = syncs + 1]]
    BY <1>4 DEF Begin, End, Killed
  <2>2. LET begun == [Idle EXCEPT !.step = "commit", !.number = syncs + 1]
        IN  /\ begun.step = "commit" /\ begun.stashed = FALSE
            /\ Idle.step = "idle" /\ Idle.stashed = FALSE
    BY DEF Idle
  <2>3. QED
    BY <1>1, <2>1, <2>2
<1>5. CASE Commit(n) \/ CommitNothing(n) \/ Push(n)
  <2>1. ~ run[n].stashed
    BY <1>5 DEF Commit, CommitNothing, Push, Own
  <2>2. QED
    BY <1>1, <1>5, <2>1 DEF Commit, CommitNothing, Push, Goto, Runs
<1>6. CASE Fetch(n)
  <2>1. ~ run[n].stashed
    BY <1>6 DEF Fetch, Own
  <2>2. QED
    BY <1>1, <1>6, <2>1 DEF Fetch, Runs
<1>7. CASE CheckMerge(n)
  <2>1. ~ run[n].stashed
    BY <1>7 DEF CheckMerge, Own
  <2>2. /\ run'[n].approve = run[n].approve /\ run'[n].stashed = run[n].stashed
        /\ run'[n].step = IF DirtyUnmanaged(n) THEN "stash" ELSE "merge"
    BY <1>1, <1>7 DEF CheckMerge, Runs
  <2>3. DirtyUnmanaged(n) => run[n].approve
    BY <1>7 DEF CheckMerge, MayGoOn, NeedsApproval
  <2>4. QED
    BY <1>7, <2>1, <2>2, <2>3
<1>8. CASE Stash(n)
  <2>1. run[n].approve
    BY <1>8 DEF Stash, Approving
  <2>2. QED
    BY <1>1, <1>8, <2>1 DEF Stash, Runs
<1>9. CASE FastForward(n) \/ Merge(n)
  <2>1. /\ run'[n].approve = run[n].approve /\ run'[n].stashed = run[n].stashed
        /\ run'[n].step = IF run[n].stashed THEN "pop" ELSE "share"
    BY <1>1, <1>9 DEF FastForward, Merge, Merged, Runs
  <2>2. QED
    BY <2>1 DEF Approving
<1>10. CASE Conflict(n) \/ MergeRefused(n)
  <2>1. MergeFails(n)
    BY <1>10 DEF Conflict, MergeRefused
  <2>2. /\ run'[n].approve = run[n].approve /\ run'[n].stashed = run[n].stashed
        /\ run'[n].step = "share"
    BY <1>1, <2>1 DEF MergeFails, Runs
  <2>3. QED
    BY <2>2 DEF Approving
<1>11. CASE Pop(n) \/ PopFails(n)
  <2>1. run[n].approve
    BY <1>11 DEF Pop, PopFails, Approving
  <2>2. QED
    BY <1>1, <1>11, <2>1 DEF Pop, PopFails, Runs
<1>12. QED
  BY <1>3, <1>4, <1>5, <1>6, <1>7, <1>8, <1>9, <1>10, <1>11 DEF Sync, Check

LEMMA ApprovingNext == TypeOK /\ OwnStashes /\ AllApproving /\ [Next]_vars => AllApproving'
<1> SUFFICES ASSUME TypeOK, OwnStashes, AllApproving, [Next]_vars, NEW k \in Nodes
             PROVE  Approving(commits', repo'[k], run'[k])
  BY DEF AllApproving
<1>0. Approving(commits, repo[k], run[k]) /\ Own(repo[k], run[k])
  BY DEF AllApproving, OwnStashes
<1>1. CASE UNCHANGED vars
  BY <1>0, <1>1 DEF vars
<1>2. repo[k].head \in SUBSET Numbers /\ repo[k].origin \in SUBSET Numbers
  BY DEF TypeOK, Repos
<1>3. ASSUME NEW n \in Nodes, Sync(n) \/ User(n)
      PROVE  Approving(commits', repo'[k], run'[k])
  <2>1. In(commits, repo[k].head) \subseteq In(commits', repo'[k].head)
    BY <1>2, <1>3, HeadGrows, InKept
  <2>2. In(commits', repo[k].origin) = In(commits, repo[k].origin)
    BY <1>2, <1>3, InGrows, OnlyAppends
  <2>3. CASE n # k \/ User(k)
    <3>1. /\ run'[k].step = run[k].step /\ run'[k].approve = run[k].approve
          /\ run'[k].stashed = run[k].stashed /\ repo'[k].origin = repo[k].origin
      BY <1>3, <2>3, Elsewhere, UserRun, OriginKept
    <3>2. QED
      BY <1>0, <2>1, <2>2, <3>1 DEF Approving
  <2>4. CASE n = k /\ Sync(k)
    <3>1. CASE CheckMerge(k) /\ run'[k].step = "merge" /\ ~ run'[k].stashed /\ ~ run[k].approve
      <4>1. ~ UnmanagedRemote(k)
        BY <3>1 DEF CheckMerge, MayGoOn, NeedsApproval
      <4>2. In(commits, repo[k].origin) \ Managed \subseteq In(commits, repo[k].head)
        BY <4>1 DEF UnmanagedRemote, Held, In
      <4>3. commits' = commits /\ repo' = repo
        BY <3>1 DEF CheckMerge
      <4>4. QED
        BY <3>1, <4>2, <4>3 DEF Approving
    <3>2. QED
      BY <1>0, <2>4, <3>1, ApprovingRun DEF Approving
  <2>5. QED
    BY <1>3, <2>3, <2>4
<1>4. QED
  BY <1>1, <1>3 DEF Next

\* What a clone shows, and how a commit leaves it.
Shows(cs, r) == In(cs, r.head) \cup In(cs, r.merging) \cup r.edits

LEMMA CommitShowsNoMore ==
    ASSUME TypeOK, NEW r, Typed(r), commits' = Append(commits, NewCommit(r))
    PROVE  Shows(commits', Committed(r)) \subseteq Shows(commits, r)
<1>1. r.head \in SUBSET Numbers /\ r.merging \in SUBSET Numbers /\ r.staged \subseteq r.edits
  BY DEF Typed, Repos
<1>2. In(commits', r.head) = In(commits, r.head) /\ In(commits', r.merging) = In(commits, r.merging)
  BY <1>1, InGrows
<1>3. commits'[Len(commits) + 1] = NewCommit(r)
  BY <1>1, InGrows
<1>4. /\ Committed(r).head = r.head \cup r.merging \cup {Len(commits) + 1}
      /\ Committed(r).merging = {} /\ Committed(r).edits = r.edits \ r.staged
  BY DEF Typed, Repos, Committed, Parents
<1>5. NewCommit(r).holds \subseteq r.staged \cup In(commits, r.head) \cup In(commits, r.merging)
  BY DEF NewCommit, Parents, Held, In
<1>6. In(commits', Committed(r).head) =
        In(commits', r.head) \cup In(commits', r.merging) \cup NewCommit(r).holds
  BY <1>3, <1>4 DEF In
<1>7. In(commits', Committed(r).merging) = {}
  BY <1>4 DEF In
<1>8. QED
  BY <1>1, <1>2, <1>4, <1>5, <1>6, <1>7 DEF Shows

LEMMA EntersOnlyApproved ==
    ASSUME TypeOK, AllApproving, NEW n \in Nodes, Sync(n), ~ run[n].approve
    PROVE  \A c \in (Shows(commits', repo'[n]) \ Shows(commits, repo[n])) \ Managed : Writer[c] = n
<1>0. /\ repo \in [Nodes -> Repos] /\ repo[n] \in Repos /\ Typed(repo[n])
      /\ Approving(commits, repo[n], run[n])
  BY DEF TypeOK, Typed, AllApproving
<1>1. /\ repo[n].head \in SUBSET Numbers /\ repo[n].merging \in SUBSET Numbers
      /\ repo[n].origin \in SUBSET Numbers
  BY <1>0 DEF Repos
<1>2. CASE UNCHANGED <<commits, repo>>
  BY <1>2
<1>3. CASE Commit(n)
  <2>1. Typed(Added(n)) /\ Shows(commits, Added(n)) = Shows(commits, repo[n])
    BY AddedTyped DEF Shows
  <2>2. repo'[n] = Committed(Added(n)) /\ commits' = Append(commits, NewCommit(Added(n)))
    BY <1>0, <1>3 DEF Commit
  <2>3. QED
    BY <2>1, <2>2, CommitShowsNoMore
<1>4. CASE CommitNothing(n)
  <2>1. repo'[n] = Added(n) /\ commits' = commits
    BY <1>0, <1>4 DEF CommitNothing
  <2>2. QED
    BY <2>1, AddedTyped DEF Shows
<1>5. CASE Push(n) \/ Fetch(n) \/ Share(n)
  <2>1. \/ UNCHANGED repo
        \/ repo' = [repo EXCEPT ![n] = [repo[n] EXCEPT !.origin = repo[n].head]]
        \/ repo' = [repo EXCEPT ![n] = [repo[n] EXCEPT !.origin = remote]]
    BY <1>5 DEF Push, Share, PushTo, Fetch
  <2>2. /\ repo'[n].edits = repo[n].edits /\ commits' = commits
        /\ repo'[n].head = repo[n].head /\ repo'[n].merging = repo[n].merging
    BY <1>0, <1>5, <2>1 DEF Repos, Push, Fetch, Share
  <2>3. QED
    BY <2>2 DEF Shows
<1>6. CASE CheckInitial(n)
  <2> DEFINE shared == Held(repo[n].origin) \cap Managed
  <2>1. PICK overwritten \in SUBSET (repo[n].edits \cap Managed) :
          repo' = [repo EXCEPT ![n].edits = (@ \ overwritten) \cup shared,
                               ![n].staged = (@ \ overwritten) \cup shared]
    BY <1>6, Zenon DEF CheckInitial
  <2>2. shared \subseteq Managed
    OBVIOUS
  <2> HIDE DEF shared
  <2>3. /\ repo'[n].edits \subseteq repo[n].edits \cup shared
        /\ repo'[n].head = repo[n].head /\ repo'[n].merging = repo[n].merging
    BY <1>0, <2>1 DEF Repos
  <2>4. commits' = commits
    BY <1>6 DEF CheckInitial
  <2>5. QED
    BY <2>2, <2>3, <2>4 DEF Shows
<1>7. CASE Stash(n) \/ Pop(n) \/ PopFails(n)
  BY <1>0, <1>7 DEF Stash, Pop, PopFails, Approving
<1>8. CASE FastForward(n) \/ Merge(n) \/ Conflict(n)
  <2>1. In(commits, repo[n].origin) \ Managed \subseteq In(commits, repo[n].head)
    BY <1>0, <1>8 DEF FastForward, Merge, Conflict, Approving
  <2>2. CASE FastForward(n)
    <3>1. /\ repo'[n].head = repo[n].head \cup repo[n].origin /\ commits' = commits
          /\ repo'[n].edits = repo[n].edits /\ repo'[n].merging = repo[n].merging
      BY <1>0, <2>2 DEF FastForward, Merged, Repos
    <3>2. In(commits', repo'[n].head) = In(commits, repo[n].head) \cup In(commits, repo[n].origin)
      BY <3>1 DEF In
    <3>3. QED
      BY <2>1, <3>1, <3>2 DEF Shows
  <2>3. CASE Merge(n)
    <3>1. PICK new :
            /\ commits' = Append(commits, new) /\ new.holds = Held(repo[n].origin \cup repo[n].head)
            /\ repo'[n].head = repo[n].head \cup repo[n].origin \cup {Len(commits) + 1}
            /\ repo'[n].edits = repo[n].edits /\ repo'[n].merging = repo[n].merging
      BY <1>0, <2>3 DEF Merge, Merged, Repos
    <3>2. commits'[Len(commits) + 1] = new
      BY <1>1, <3>1, InGrows
    <3>3. In(commits', repo'[n].head) =
            In(commits', repo[n].head) \cup In(commits', repo[n].origin) \cup new.holds
      BY <3>1, <3>2 DEF In
    <3>4. /\ In(commits', repo[n].head) = In(commits, repo[n].head)
          /\ In(commits', repo[n].origin) = In(commits, repo[n].origin)
          /\ In(commits', repo[n].merging) = In(commits, repo[n].merging)
      BY <1>1, <3>1, InGrows
    <3>5. new.holds = In(commits, repo[n].origin) \cup In(commits, repo[n].head)
      BY <3>1 DEF Held, In
    <3>6. QED
      BY <2>1, <3>1, <3>3, <3>4, <3>5 DEF Shows
  <2>4. CASE Conflict(n)
    <3>1. /\ repo'[n].head = repo[n].head /\ repo'[n].edits = repo[n].edits
          /\ repo'[n].merging = repo[n].origin
      <4>1. PICK paths :
              repo' = [repo EXCEPT ![n] =
                         [repo[n] EXCEPT !.merging = repo[n].origin, !.unmerged = paths]]
        BY <2>4 DEF Conflict
      <4>2. QED
        BY <1>0, <4>1 DEF Repos
    <3>2. commits' = commits
      BY <2>4 DEF Conflict, MergeFails
    <3>3. QED
      BY <2>1, <3>1, <3>2 DEF Shows
  <2>5. QED
    BY <1>8, <2>2, <2>3, <2>4
<1>9. CASE \/ Begin(n) \/ FetchFails(n) \/ CheckUpToDate(n) \/ CheckRefuses(n) \/ CheckMerge(n)
           \/ StashFails(n) \/ MergeRefused(n) \/ End(n) \/ Killed(n)
  BY <1>2, <1>9
     DEF Begin, FetchFails, CheckUpToDate, CheckRefuses, CheckMerge, StashFails, MergeRefused,
         MergeFails, End, Killed
<1>10. QED
  BY <1>3, <1>4, <1>5, <1>6, <1>7, <1>8, <1>9 DEF Sync, Check

\* "Only `--approve-unmanaged` allows the merge to proceed", whatever is committed between
\* the check of a sync and its merge (git_pull, unmanaged_remote_paths).
THEOREM OnlyApprovedEnters == Spec => EntersApproved
<1>1. Init => AllApproving
  BY DEF Init, Idle, AllApproving, Approving
<1>2. Spec => [](TypeOK /\ OwnStashes /\ AllApproving)
  BY <1>1, InitTyped, NextTyped, OwnInit, OwnNext, ApprovingNext, PTL DEF Spec
<1>3. TypeOK /\ AllApproving /\ [Next]_vars =>
        \A n \in Nodes :
            SyncMoves(n) /\ ~ run[n].approve =>
                \A c \in (Tree(n)' \ Tree(n)) \ Managed : Writer[c] = n
  <2> SUFFICES ASSUME TypeOK, AllApproving, [Next]_vars, NEW n \in Nodes,
                      SyncMoves(n), ~ run[n].approve
               PROVE  \A c \in (Tree(n)' \ Tree(n)) \ Managed : Writer[c] = n
    OBVIOUS
  <2>1. Tree(n) = Shows(commits, repo[n]) /\ Tree(n)' = Shows(commits', repo'[n])
    BY DEF Tree, Shows, Held, In
  <2>2. Sync(n)
    BY Elsewhere, UserRun DEF Next, vars, SyncMoves
  <2>3. QED
    BY <2>1, <2>2, EntersOnlyApproved
<1>4. QED
  BY <1>2, <1>3, PTL DEF Spec, EntersApproved
=============================================================================
