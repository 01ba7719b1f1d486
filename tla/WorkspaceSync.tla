----------------------------- MODULE WorkspaceSync -----------------------------
(***************************************************************************)
(* The optional shared-workspace sync: `bridges sync` of several members,  *)
(* each with its own clone, through one git remote.                        *)
(*                                                                         *)
(* A sync is a sequence of git commands; one of them is one step, and      *)
(* between two of them the other members sync and the user of the clone    *)
(* goes on working.  git itself is modelled from what the commands of      *)
(* sync_engine.rs ask of it: a history is the set of its commits, closed   *)
(* under ancestors, and its last commit is the one with the largest number.*)
(* What a commit or a working tree holds is a set of changes; files under  *)
(* .shared/ carry the managed ones; .gitignore comes with the first commit *)
(* of every clone and is the same in all of them, as the templates are.    *)
(***************************************************************************)
EXTENDS Naturals, Sequences, FiniteSetsExt, Functions

CONSTANTS
    Nodes,     \* members with a clone of the workspace
    Changes,   \* edits the users make, each once
    Writer,    \* who makes each of them
    Managed,   \* the changes to managed paths (is_managed_sync_path)
    Hooks,     \* members whose git may refuse a commit: a hook, a signing key
    Stashers,  \* members who use `git stash` in their clone themselves
    MaxSyncs   \* bound: syncs started

ASSUME ChangesAssumption == Writer \in [Changes -> Nodes] /\ Managed \subseteq Changes
ASSUME HooksAssumption == Hooks \subseteq Nodes
ASSUME StashersAssumption == Stashers \subseteq Nodes
ASSUME MaxSyncsAssumption == MaxSyncs \in Nat

VARIABLES
    commits,   \* every commit made: [root, brings, holds], by number
    remote,    \* history of main at the remote
    repo,      \* each member's clone
    run,       \* each member's sync
    syncs,     \* syncs started
    unwritten, \* changes nobody has made yet
    synced     \* history: the changes that each member's syncs committed

vars == <<commits, remote, repo, run, syncs, unwritten, synced>>

Paths == {"managed", "unmanaged"}
Numbers == 1..Len(commits)

Commits == [root : BOOLEAN,            \* no parent: HEAD~1 does not resolve
            brings : SUBSET Changes,   \* diff HEAD~1..HEAD
            holds : SUBSET Changes]    \* the changes in its history

\* `by` is the sync that stashed the entry, or 0 when the user did.
Stashes == {entry \in [holds : SUBSET Changes, staged : SUBSET Changes, by : Nat] :
                entry.staged \subseteq entry.holds}

Repos == [head : SUBSET Numbers,       \* history of main, {} before the first commit
          origin : SUBSET Numbers,     \* history of origin/main
          edits : SUBSET Changes,      \* made in the working tree, not committed
          staged : SUBSET Changes,     \* those of them in the index
          merging : SUBSET Numbers,    \* MERGE_HEAD, {} without a merge in progress
          unmerged : SUBSET Paths,     \* conflicts in the index
          stash : Seq(Stashes)]

Steps == {"idle", "commit", "push", "fetch", "check", "stash", "merge", "pop", "share", "end"}

Runs == [step : Steps, approve : BOOLEAN, pushed : BOOLEAN, pulled : BOOLEAN,
         stashed : BOOLEAN, conflicts : BOOLEAN, warned : BOOLEAN, number : Nat,
         meddled : BOOLEAN]   \* history: its user has used `git stash` since it did

Idle == [step |-> "idle", approve |-> FALSE, pushed |-> FALSE, pulled |-> FALSE,
         stashed |-> FALSE, conflicts |-> FALSE, warned |-> FALSE, number |-> 0,
         meddled |-> FALSE]

Init ==
    /\ commits = <<>>
    /\ remote = {}
    /\ repo = [n \in Nodes |-> [head |-> {}, origin |-> {}, edits |-> {}, staged |-> {},
                                merging |-> {}, unmerged |-> {}, stash |-> <<>>]]
    /\ run = [n \in Nodes |-> Idle]
    /\ syncs = 0
    /\ unwritten = Changes
    /\ synced = [n \in Nodes |-> {}]

-----------------------------------------------------------------------------
(* git, as the sync uses it *)

Held(history) == UNION {commits[c].holds : c \in history}
Tip(history) == Max(history)

\* What a merge in progress has put into the working tree and the index.
MergedIn(n) == Held(repo[n].merging) \ Held(repo[n].head)

\* Everything the working tree of n shows that its last commit does not hold.
Uncommitted(n) == repo[n].edits \cup MergedIn(n)

\* `git commit` in a clone r: all of the index, concluding a merge in progress.
Parents(r) == r.head \cup r.merging
NewCommit(r) == [root |-> Parents(r) = {},
                 brings |-> r.staged \cup (Held(r.merging) \ Held(r.head)),
                 holds |-> r.staged \cup Held(Parents(r))]
Committed(r) == [r EXCEPT !.head = Parents(r) \cup {Len(commits) + 1}, !.merging = {},
                          !.unmerged = {}, !.edits = @ \ r.staged, !.staged = {}]

\* `git push origin main`: only forward.
CanPush(n) == repo[n].head # {} /\ remote \subseteq repo[n].head

PushTo(n) ==
    /\ remote' = repo[n].head
    /\ repo' = [repo EXCEPT ![n].origin = repo[n].head]

\* `git merge` leaves everything alone when a merge or its conflicts are still open,
\* when there is nothing to merge with, or when a merge commit would take in the index.
Diverged(n) == ~ repo[n].origin \subseteq repo[n].head /\ ~ repo[n].head \subseteq repo[n].origin
MustRefuse(n) ==
    \/ repo[n].merging # {} \/ repo[n].unmerged # {}
    \/ repo[n].origin = {}
    \/ Diverged(n) /\ repo[n].staged # {}

\* ... and when it would overwrite uncommitted work.
MayRefuse(n) == ~ repo[n].origin \subseteq repo[n].head /\ repo[n].edits # {}

\* What a merge of diverged histories may conflict on: paths both sides changed.
Conflicts(n) ==
    LET ours == Held(repo[n].head) \ Held(repo[n].origin)
        theirs == Held(repo[n].origin) \ Held(repo[n].head)
    IN  {paths \in (SUBSET Paths) \ {{}} :
            /\ "managed" \in paths => ours \cap Managed # {} /\ theirs \cap Managed # {}
            /\ "unmanaged" \in paths => ~ ours \subseteq Managed /\ ~ theirs \subseteq Managed}

Goto(n, step) == run' = [run EXCEPT ![n].step = step]

\* SyncResult: what a sync tells its caller.
Report(n, pulled, warning) ==
    run' = [run EXCEPT ![n] =
                [Idle EXCEPT !.step = "end", !.pushed = run[n].pushed, !.pulled = pulled,
                             !.conflicts = run[n].conflicts, !.warned = run[n].warned \/ warning]]

-----------------------------------------------------------------------------
(* sync_project *)

\* The command starts; init_shared and ensure_sync_repo are in place.
Begin(n) ==
    /\ run[n].step = "idle" /\ syncs < MaxSyncs
    /\ syncs' = syncs + 1
    /\ run' = [run EXCEPT ![n] = [Idle EXCEPT !.step = "commit", !.number = syncs + 1]]
    /\ UNCHANGED <<commits, remote, repo, unwritten, synced>>

\* `git add .shared/ .gitignore`, which also takes conflict markers for resolved.
Added(n) == [repo[n] EXCEPT !.staged = @ \cup (repo[n].edits \cap Managed),
                            !.unmerged = @ \ {"managed"}]

\* `git status --porcelain .shared/` lists something: before the first commit, always.
SharedChanged(n) ==
    \/ repo[n].head = {}
    \/ Uncommitted(n) \cap Managed # {}
    \/ "managed" \in repo[n].unmerged

\* git_commit: what is staged by now, managed or not, becomes a commit.
Commit(n) ==
    /\ run[n].step = "commit" /\ SharedChanged(n) /\ Added(n).unmerged = {}
    /\ commits' = Append(commits, NewCommit(Added(n)))
    /\ repo' = [repo EXCEPT ![n] = Committed(Added(n))]
    /\ synced' = [synced EXCEPT ![n] = @ \cup Added(n).staged]
    /\ run' = [run EXCEPT ![n].step = "push", ![n].pushed = TRUE]
    /\ UNCHANGED <<remote, syncs, unwritten>>

\* ... unless .shared/ is as in the last commit, or git refuses (a path is unmerged, a
\* hook objects), which is a warning.
CommitNothing(n) ==
    /\ run[n].step = "commit"
    /\ ~ SharedChanged(n) \/ Added(n).unmerged # {} \/ n \in Hooks
    /\ repo' = [repo EXCEPT ![n] = Added(n)]
    /\ run' = [run EXCEPT ![n].step = "fetch", ![n].warned = SharedChanged(n)]
    /\ UNCHANGED <<commits, remote, syncs, unwritten, synced>>

\* The first push. Its failure is not kept: the sync goes on with the pull.
Push(n) ==
    /\ run[n].step = "push" /\ Goto(n, "fetch")
    /\ \/ CanPush(n) /\ PushTo(n)
       \/ UNCHANGED <<remote, repo>>
    /\ UNCHANGED <<commits, syncs, unwritten, synced>>

\* git_pull begins with a fetch; without one there is nothing to merge. Whether the
\* command was given --approve-unmanaged is chosen here: nothing reads it before.
Fetch(n) ==
    /\ run[n].step = "fetch"
    /\ repo' = [repo EXCEPT ![n].origin = remote]
    /\ \E approve \in BOOLEAN :
        run' = [run EXCEPT ![n].step = "check", ![n].approve = approve,
                           ![n].warned = @ \/ remote = {} \/ repo[n].head = {}]
    /\ UNCHANGED <<commits, remote, syncs, unwritten, synced>>

FetchFails(n) ==
    /\ run[n].step = "fetch"
    /\ Report(n, FALSE, TRUE)
    /\ UNCHANGED <<commits, remote, repo, syncs, unwritten, synced>>

\* dirty_unmanaged_paths
DirtyUnmanaged(n) == ~ Uncommitted(n) \subseteq Managed \/ "unmanaged" \in repo[n].unmerged

\* Mutant of UnmanagedRemote: only the first sync looks at the remote's paths.
UnmanagedRemoteAtFirst(n) ==
    repo[n].head = {} /\ ~ Held(repo[n].origin) \subseteq Managed

\* `git diff HEAD..origin/main` names an unmanaged path: it compares the two trees, so
\* a change only this clone has counts too. Without a commit: the paths of origin/main.
UnmanagedRemote(n) ==
    /\ repo[n].origin # {}
    /\ Held(repo[n].head) \ Managed # Held(repo[n].origin) \ Managed

NeedsApproval(n) == DirtyUnmanaged(n) \/ UnmanagedRemote(n)

UpToDate(n) == repo[n].head # {} /\ repo[n].head = repo[n].origin

\* Nothing new on either side.
CheckUpToDate(n) ==
    /\ run[n].step = "check" /\ UpToDate(n)
    /\ Report(n, FALSE, FALSE)
    /\ UNCHANGED <<commits, remote, repo, syncs, unwritten, synced>>

\* save_sync_approval: the sync stops here, with a proposal that no code reads again.
CheckRefuses(n) ==
    /\ run[n].step = "check" /\ ~ UpToDate(n)
    /\ NeedsApproval(n) /\ ~ run[n].approve
    /\ Report(n, FALSE, TRUE)
    /\ UNCHANGED <<commits, remote, repo, syncs, unwritten, synced>>

MayGoOn(n) == NeedsApproval(n) => run[n].approve

\* Without a local commit only the managed files of origin/main are checked out.
CheckInitial(n) ==
    /\ run[n].step = "check" /\ repo[n].head = {} /\ MayGoOn(n)
    /\ LET shared == Held(repo[n].origin) \cap Managed
       IN  \E overwritten \in SUBSET (repo[n].edits \cap Managed) :
            /\ repo[n].origin = {} => overwritten = {}
            /\ repo' = [repo EXCEPT ![n].edits = (@ \ overwritten) \cup shared,
                                    ![n].staged = (@ \ overwritten) \cup shared]
    /\ Report(n, repo[n].origin # {}, TRUE)
    /\ UNCHANGED <<commits, remote, syncs, unwritten, synced>>

CheckMerge(n) ==
    /\ run[n].step = "check" /\ repo[n].head # {} /\ ~ UpToDate(n) /\ MayGoOn(n)
    /\ run' = [run EXCEPT ![n].step = IF DirtyUnmanaged(n) THEN "stash" ELSE "merge",
                          ![n].warned = @ \/ NeedsApproval(n)]
    /\ UNCHANGED <<commits, remote, repo, syncs, unwritten, synced>>

\* Mutant of Emptied: the stash keeps the index.
EmptiedButIndex(n, by) ==
    [repo[n] EXCEPT !.stash = <<[holds |-> Uncommitted(n), staged |-> repo[n].staged,
                                 by |-> by]>> \o @,
                    !.edits = {}, !.merging = {}]

\* The whole working tree, managed files included; a merge in progress is over.
Emptied(n, by) ==
    [repo[n] EXCEPT !.stash = <<[holds |-> Uncommitted(n), staged |-> repo[n].staged,
                                 by |-> by]>> \o @,
                    !.edits = {}, !.staged = {}, !.merging = {}]

\* Mutant of Saved: "No local changes to save" is not told apart.
SavedAlways(n) == TRUE

\* The user may have committed meanwhile what the check found.
Saved(n) == Uncommitted(n) # {}

\* stash_local_worktree
Stash(n) ==
    /\ run[n].step = "stash" /\ repo[n].unmerged = {}
    /\ repo' = IF Uncommitted(n) = {} THEN repo
             ELSE [repo EXCEPT ![n] = Emptied(n, run[n].number)]
    /\ run' = [run EXCEPT ![n].step = "merge", ![n].stashed = Saved(n)]
    /\ UNCHANGED <<commits, remote, syncs, unwritten, synced>>

\* git refuses to stash conflicts: the sync fails.
StashFails(n) ==
    /\ run[n].step = "stash" /\ repo[n].unmerged # {}
    /\ Report(n, FALSE, TRUE)
    /\ UNCHANGED <<commits, remote, repo, syncs, unwritten, synced>>

\* After a merge: whether `git diff HEAD~1..HEAD` lists a file counts as "pulled".
Counted(commit) == ~ commit.root /\ commit.brings # {}

Merged(n, head, tip) ==
    /\ repo' = [repo EXCEPT ![n].head = head]
    /\ run' = [run EXCEPT ![n].step = IF run[n].stashed THEN "pop" ELSE "share",
                          ![n].pulled = Counted(tip)]
    /\ UNCHANGED <<remote, syncs, unwritten, synced>>

\* `git merge origin/main` with nothing new, or fast-forward.
FastForward(n) ==
    LET head == repo[n].head \cup repo[n].origin IN
    /\ run[n].step = "merge" /\ ~ MustRefuse(n) /\ ~ Diverged(n)
    /\ Merged(n, head, commits[Tip(head)])
    /\ UNCHANGED commits

\* ... or with a merge commit.
Merge(n) ==
    LET r == repo[n]
        new == [root |-> FALSE, brings |-> Held(r.origin) \ Held(r.head),
                holds |-> Held(r.origin \cup r.head)]
    IN
    /\ run[n].step = "merge" /\ ~ MustRefuse(n) /\ Diverged(n)
    /\ commits' = Append(commits, new)
    /\ Merged(n, r.head \cup r.origin \cup {Len(commits) + 1}, new)

\* A merge that fails counts what origin/main would have brought as pulled.
MergeFails(n) ==
    /\ run' = [run EXCEPT ![n].step = "share", ![n].warned = TRUE,
                          ![n].conflicts = repo'[n].unmerged # {},
                          ![n].pulled = /\ repo[n].origin # {}
                                        /\ Held(repo[n].head) # Held(repo[n].origin)]
    /\ UNCHANGED <<commits, remote, syncs, unwritten, synced>>

Conflict(n) ==
    /\ run[n].step = "merge" /\ ~ MustRefuse(n) /\ Diverged(n)
    /\ \E paths \in Conflicts(n) :
        repo' = [repo EXCEPT ![n].merging = repo[n].origin, ![n].unmerged = paths]
    /\ MergeFails(n)

MergeRefused(n) ==
    /\ run[n].step = "merge" /\ (MustRefuse(n) \/ MayRefuse(n))
    /\ UNCHANGED repo
    /\ MergeFails(n)

\* pop_stash: the top of the stash returns to the working tree. What was a new file in
\* the index is one again.
Restored(r, again) ==
    [r EXCEPT !.edits = @ \cup Head(r.stash).holds, !.staged = @ \cup again, !.stash = Tail(@)]

Pop(n) ==
    /\ run[n].step = "pop" /\ repo[n].stash # <<>> /\ repo[n].unmerged = {}
    /\ \E again \in SUBSET Head(repo[n].stash).staged :
        repo' = [repo EXCEPT ![n] = Restored(repo[n], again)]
    /\ run' = [run EXCEPT ![n].step = "share", ![n].warned = TRUE]
    /\ UNCHANGED <<commits, remote, syncs, unwritten, synced>>

\* Mutant of Unpopped: what could not be restored is dropped.
UnpoppedDrop(r, paths) == [r EXCEPT !.unmerged = @ \cup paths, !.stash = Tail(@)]

\* It conflicts with what was merged, or would overwrite something: the entry stays.
Unpopped(r, paths) == [r EXCEPT !.unmerged = @ \cup paths]

PopFails(n) ==
    /\ run[n].step = "pop"
    /\ \E paths \in SUBSET Paths :
        repo' = [repo EXCEPT ![n] = Unpopped(repo[n], paths)]
    /\ run' = [run EXCEPT ![n].step = "share", ![n].warned = TRUE]
    /\ UNCHANGED <<commits, remote, syncs, unwritten, synced>>

\* Mutant of PushesAgain: the count is tested the wrong way round.
PushesAgainIfNone(n) == run[n].pushed /\ ~ run[n].pulled /\ ~ run[n].conflicts

\* "If we pushed but pull brought new changes, push again."
PushesAgain(n) == run[n].pushed /\ run[n].pulled /\ ~ run[n].conflicts

Share(n) ==
    /\ run[n].step = "share"
    /\ \/ PushesAgain(n) /\ CanPush(n) /\ PushTo(n) /\ Report(n, run[n].pulled, FALSE)
       \/ PushesAgain(n) /\ UNCHANGED <<remote, repo>> /\ Report(n, run[n].pulled, TRUE)
       \/ ~ PushesAgain(n) /\ UNCHANGED <<remote, repo>> /\ Report(n, run[n].pulled, FALSE)
    /\ UNCHANGED <<commits, syncs, unwritten, synced>>

\* The command reports and returns, or is killed at any point.
End(n) ==
    /\ run[n].step = "end"
    /\ run' = [run EXCEPT ![n] = Idle]
    /\ UNCHANGED <<commits, remote, repo, syncs, unwritten, synced>>

Killed(n) ==
    /\ run[n].step \notin {"idle", "end"}
    /\ run' = [run EXCEPT ![n] = Idle]
    /\ UNCHANGED <<commits, remote, repo, syncs, unwritten, synced>>

-----------------------------------------------------------------------------
(* The user of a clone, an editor or an agent, at any time *)

Write(n) ==
    /\ \E c \in unwritten :
        /\ Writer[c] = n
        /\ repo' = [repo EXCEPT ![n].edits = @ \cup {c}]
        /\ unwritten' = unwritten \ {c}
    /\ UNCHANGED <<commits, remote, run, syncs, synced>>

StageEdit(n) ==
    /\ \E c \in repo[n].edits \ (repo[n].staged \cup Managed) :
        repo' = [repo EXCEPT ![n].staged = @ \cup {c}]
    /\ UNCHANGED <<commits, remote, run, syncs, unwritten, synced>>

CommitStaged(n) ==
    /\ repo[n].staged # {} /\ repo[n].unmerged = {}
    /\ commits' = Append(commits, NewCommit(repo[n]))
    /\ repo' = [repo EXCEPT ![n] = Committed(repo[n])]
    /\ UNCHANGED <<remote, run, syncs, unwritten, synced>>

\* "Resolve conflicts in shared workspace files, then sync again."
Resolve(n) ==
    /\ repo[n].unmerged # {}
    /\ repo' = [repo EXCEPT ![n].unmerged = {}]
    /\ UNCHANGED <<commits, remote, run, syncs, unwritten, synced>>

\* The user's own use of the stash, a sync running or not: what is on top of it when the
\* sync pops is no longer up to the sync.
Meddle(n) == run' = [run EXCEPT ![n].meddled = run[n].stashed]

\* `git stash --include-untracked`
StashAway(n) ==
    /\ n \in Stashers
    /\ repo[n].head # {} /\ repo[n].unmerged = {} /\ Uncommitted(n) # {}
    /\ repo' = [repo EXCEPT ![n] = Emptied(n, 0)]
    /\ Meddle(n)
    /\ UNCHANGED <<commits, remote, syncs, unwritten, synced>>

\* `git stash pop`, as in "local worktree preserved in git stash; restore manually".
Unstash(n) ==
    /\ repo[n].stash # <<>> /\ repo[n].unmerged = {}
    /\ \E again \in SUBSET Head(repo[n].stash).staged :
        repo' = [repo EXCEPT ![n] = Restored(repo[n], again)]
    /\ Meddle(n)
    /\ UNCHANGED <<commits, remote, syncs, unwritten, synced>>

-----------------------------------------------------------------------------
Check(n) == CheckUpToDate(n) \/ CheckRefuses(n) \/ CheckInitial(n) \/ CheckMerge(n)

Sync(n) ==
    \/ Begin(n) \/ Commit(n) \/ CommitNothing(n) \/ Push(n)
    \/ Fetch(n) \/ FetchFails(n) \/ Check(n)
    \/ Stash(n) \/ StashFails(n)
    \/ FastForward(n) \/ Merge(n) \/ Conflict(n) \/ MergeRefused(n)
    \/ Pop(n) \/ PopFails(n) \/ Share(n) \/ End(n) \/ Killed(n)

User(n) ==
    \/ Write(n) \/ StageEdit(n) \/ CommitStaged(n) \/ Resolve(n)
    \/ StashAway(n) \/ Unstash(n)

Next == \E n \in Nodes : Sync(n) \/ User(n)

Spec == Init /\ [][Next]_vars

-----------------------------------------------------------------------------
TypeOK ==
    /\ commits \in Seq(Commits)
    /\ remote \subseteq Numbers
    /\ repo \in [Nodes -> Repos] /\ \A n \in Nodes : repo[n].staged \subseteq repo[n].edits
    /\ run \in [Nodes -> Runs]
    /\ syncs \in 0..MaxSyncs
    /\ unwritten \subseteq Changes
    /\ synced \in [Nodes -> SUBSET Changes]

Stashed(n) == UNION {entry.holds : entry \in Range(repo[n].stash)}

\* "Bridges does not overwrite unmanaged local work": what the user of a clone wrote
\* outside .shared/ stays in its working tree, in its stash or in its history, however
\* stash, merge and pop of a sync end, or where the sync is killed (git_pull).
WorkKept ==
    \A n \in Nodes : \A c \in Changes \ (Managed \cup unwritten) :
        Writer[c] = n =>
            c \in Uncommitted(n) \cup Stashed(n) \cup Held(repo[n].head \cup repo[n].merging)

\* The sync of n takes a step; its user never moves it on.
SyncMoves(n) == run'[n].step # run[n].step

\* A sync pops the entry it has pushed, whatever earlier syncs and its user have left in
\* the stash and whatever is committed while it runs: only a user who uses `git stash`
\* between its push and its pop can make the bare `git stash pop` take another (git_pull).
RestoresItsOwn ==
    [][\A n \in Nodes :
        /\ SyncMoves(n) /\ ~ run[n].meddled
        /\ Len(repo'[n].stash) < Len(repo[n].stash)
        => Head(repo[n].stash).by = run[n].number]_vars

\* What the working tree of n shows.
Tree(n) == Held(repo[n].head \cup repo[n].merging) \cup repo[n].edits

\* "Only `--approve-unmanaged` allows the merge to proceed": a sync brings another
\* member's unmanaged change into the working tree only when it was approved (git_pull).
EntersApproved ==
    [][\A n \in Nodes :
        SyncMoves(n) /\ ~ run[n].approve =>
            \A c \in (Tree(n)' \ Tree(n)) \ Managed : Writer[c] = n]_vars

\* A sync that has committed and pulled, and has nothing to warn of, has its commits in
\* the remote at the end, whichever of its pushes failed on the way (sync_project).
PulledIsShared ==
    \A n \in Nodes :
        LET r == run[n] IN
        r.step = "end" /\ r.pushed /\ r.pulled /\ ~ r.conflicts /\ ~ r.warned =>
            synced[n] \subseteq Held(remote)

\* skills/bridges/references/sync-protocol.md: a sync "pushes to the remote when
\* possible" and "pushes again after a successful merge when needed": one that reports
\* "Pushed local changes" and no warning has what it committed in the remote.
PushedIsShared ==
    \A n \in Nodes :
        LET r == run[n] IN
        r.step = "end" /\ r.pushed /\ ~ r.conflicts /\ ~ r.warned =>
            synced[n] \subseteq Held(remote)
=============================================================================
