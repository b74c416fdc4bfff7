-------------------------------- MODULE Pages --------------------------------
(***************************************************************************)
(* The wiki and the site (pages.rs, api/admin.rs): each mirrors a git      *)
(* repository into a checkout, renders it and swaps the result into the    *)
(* store that requests read.  A periodic updater and administrators'       *)
(* refreshes share the checkout under a gate that is held while preparing  *)
(* and let go before publishing.  git is external: a command may fail or   *)
(* run into its deadline, and two in one working tree fight over its lock. *)
(***************************************************************************)
EXTENDS Integers, FiniteSets

CONSTANTS
    Kinds,          \* the configured repositories: "wiki", "site"
    Editions,       \* the trees a repository may hold: sets of
                    \* [slug, symlink, hidden, readme, markdown]
    IncludeReadme,
    Updater,        \* the background updater of each kind
    Refreshers,     \* administrators pressing refresh
    Branches, InitialBranch,    \* names of branches, "main" among them; the one git gives a fresh repository
    MaxCommits,     \* bound on changes upstream
    MaxGitFailures, \* bound on failing commands
    MaxRefreshes    \* bound on manual refreshes

VARIABLES
    upstream,   \* [Kinds -> [head, refs]]: its default branch, and of each branch {} or its [tree, line] in a set;
                \* a rewritten history is another line
    checkout,   \* [Kinds -> {} or {[origin_head, branch, at]}]: origin/HEAD in a set, the local branch and what is
                \* checked out; {} before the clone
    gate,       \* [Kinds -> {} or the one who is preparing]
    job,        \* what each updater and administrator is at: [at, kind, pages]
    store,      \* [Kinds -> [pages, nav, index]]
    commits, gitFailures, refreshes,
    lockFights  \* refreshes that failed because another one was in the tree

pagesVars == <<upstream, checkout, gate, job, store, commits, gitFailures, refreshes, lockFights>>

ASSUME PagesAssumption ==
    /\ {} \in Editions /\ Refreshers \cap {Updater[k] : k \in Kinds} = {}
    /\ "main" \in Branches /\ InitialBranch \in Branches

Workers == Refreshers \cup {Updater[k] : k \in Kinds}
Idle == [at |-> "idle", kind |-> "none", pages |-> {}]

\* Regular markdown files that are not hidden; a README only where it is asked for.
scan_directory_static(tree) ==
    {f \in tree : /\ ~f.symlink /\ ~f.hidden /\ f.markdown
                  /\ f.readme => IncludeReadme}
build_page_static(f) == f.slug
build_pages_static(tree) == {build_page_static(f) : f \in scan_directory_static(tree)}
build_navigation_static(pages) == pages
slug_from_filename_static == "index"

\* Whoever prepares waits for the one who is preparing.
gate_free(k) == gate[k] = {}

\* The inputs are copied; what follows holds no lock a request needs.
refresh_inputs(w, k) ==
    /\ job[w].at = "idle"
    /\ job' = [job EXCEPT ![w] = [at |-> "waiting", kind |-> k, pages |-> {}]]

Begin(w, k) ==
    /\ refresh_inputs(w, k)
    /\ UNCHANGED <<upstream, checkout, gate, store, commits, gitFailures, lockFights>>

\* The updaters' period elapses; an administrator presses the button.
AutoUpdate(k) == Begin(Updater[k], k) /\ UNCHANGED refreshes
refresh_pages(w, k) == refreshes < MaxRefreshes /\ refreshes' = refreshes + 1 /\ Begin(w, k)

\* Another command is running in this working tree.
InTheTree(w, k) == \E o \in Workers \ {w} : job[o].at = "in git" /\ job[o].kind = k

prepare(w) ==
    LET k == job[w].kind
    IN  /\ job[w].at = "waiting" /\ gate_free(k)
        /\ gate' = [gate EXCEPT ![k] = gate[k] \cup {w}]
        /\ job' = [job EXCEPT ![w].at = "in git"]
        /\ UNCHANGED <<upstream, checkout, store, commits, gitFailures, refreshes, lockFights>>

\* origin/HEAD as the clone recorded it (a fetch does not move it, --prune leaves it dangling), else the branch that
\* is checked out, else "main".
get_default_branch_static(c) ==
    CASE c.origin_head # {} -> CHOOSE b \in c.origin_head : TRUE
      [] c.origin_head = {} /\ c.at # {} -> c.branch
      [] OTHER -> "main"
target(k, c) == upstream[k].refs[get_default_branch_static(c)]

\* Fetch, and reset to the remote's branch whatever happened to its history, or clone.  The reset fails when the
\* remote no longer has the branch.
PullsInstead(k) == \A c \in checkout[k] : \E new \in target(k, c) : \A old \in c.at : old.line = new.line
sync_repository_static(k) == \A c \in checkout[k] : target(k, c) # {}
clone(k) == [origin_head |-> {upstream[k].head}, branch |-> upstream[k].head, at |-> upstream[k].refs[upstream[k].head]]
Synced(k) == IF checkout[k] = {} THEN {clone(k)} ELSE {[c EXCEPT !.at = target(k, c)] : c \in checkout[k]}
\* A clone that was killed leaves a repository with nothing checked out.
HalfClone == [origin_head |-> {}, branch |-> InitialBranch, at |-> {}]

release(w, k) == gate' = [gate EXCEPT ![k] = gate[k] \ {w}]

GitDone(w) ==
    LET k == job[w].kind
    IN  /\ job[w].at = "in git" /\ ~InTheTree(w, k)
        /\ sync_repository_static(k)
        /\ checkout' = [checkout EXCEPT ![k] = Synced(k)]
        /\ \E c \in Synced(k) : \E new \in c.at :
              job' = [job EXCEPT ![w] = [at |-> "prepared", kind |-> k, pages |-> build_pages_static(new.tree)]]
        /\ release(w, k)
        /\ UNCHANGED <<upstream, store, commits, gitFailures, refreshes, lockFights>>

\* A command fails or is killed at its deadline, or the reset has no target, and the refresh fails with it: the pages
\* served stay.
run_git_fails(w) ==
    LET k == job[w].kind
    IN  /\ job[w].at = "in git"
        /\ IF sync_repository_static(k) /\ ~InTheTree(w, k)
           THEN gitFailures < MaxGitFailures /\ gitFailures' = gitFailures + 1 ELSE UNCHANGED gitFailures
        /\ \/ UNCHANGED checkout
           \/ checkout[k] = {} /\ checkout' = [checkout EXCEPT ![k] = {HalfClone}]
        /\ lockFights' = IF InTheTree(w, k) THEN lockFights \cup {w} ELSE lockFights
        /\ job' = [job EXCEPT ![w] = Idle]
        /\ release(w, k)
        /\ UNCHANGED <<upstream, store, commits, refreshes>>

\* The prepared set is swapped in, whole; the gate is no longer held.
publish_into(w) ==
    /\ job[w].at = "prepared"
    /\ store' = [store EXCEPT ![job[w].kind] =
          [pages |-> job[w].pages, nav |-> build_navigation_static(job[w].pages),
           index |-> job[w].pages \cap {slug_from_filename_static}]]
    /\ job' = [job EXCEPT ![w] = Idle]
    /\ UNCHANGED <<upstream, checkout, gate, commits, gitFailures, refreshes, lockFights>>

Upstream(k, head, refs) ==
    /\ commits < MaxCommits /\ commits' = commits + 1
    /\ upstream' = [upstream EXCEPT ![k] = [head |-> head, refs |-> refs]]
    /\ UNCHANGED <<checkout, gate, job, store, gitFailures, refreshes, lockFights>>
\* Somebody pushes to the default branch, or replaces its history.
Commit(k) ==
    LET up == upstream[k]
    IN  \E old \in up.refs[up.head] : \E tree \in Editions, line \in {old.line, commits + 1} :
            Upstream(k, up.head, [up.refs EXCEPT ![up.head] = {[tree |-> tree, line |-> line]}])
\* Another branch becomes the default, a new one or one that is there; the old one may be deleted (renamed).
Rebranch(k, b) ==
    LET up == upstream[k]
        tip == IF up.refs[b] = {} THEN up.refs[up.head] ELSE up.refs[b]
    IN  /\ b # up.head
        /\ \E kept \in {{}, up.refs[up.head]} : Upstream(k, b, [up.refs EXCEPT ![b] = tip, ![up.head] = kept])

PagesInit ==
    /\ \E head \in [Kinds -> Branches], tree \in [Kinds -> Editions] :
          upstream = [k \in Kinds |-> [head |-> head[k], refs |->
              [b \in Branches |-> IF b = head[k] THEN {[tree |-> tree[k], line |-> 0]} ELSE {}]]]
    /\ checkout = [k \in Kinds |-> {}]
    /\ gate = [k \in Kinds |-> {}]
    /\ job = [w \in Workers |-> Idle]
    /\ store = [k \in Kinds |-> [pages |-> {}, nav |-> {}, index |-> {}]]
    /\ commits = 0 /\ gitFailures = 0 /\ refreshes = 0 /\ lockFights = {}

PagesNext ==
    \/ \E k \in Kinds : AutoUpdate(k) \/ Commit(k) \/ \E b \in Branches : Rebranch(k, b)
    \/ \E w \in Refreshers, k \in Kinds : refresh_pages(w, k)
    \/ \E w \in Workers : prepare(w) \/ GitDone(w) \/ run_git_fails(w) \/ publish_into(w)

\* The updater's period elapses again and again, every git command ends by its
\* deadline, and a prepared set is published at once.
PagesFairness ==
    /\ \A k \in Kinds : WF_pagesVars(AutoUpdate(k))
    /\ \A w \in Workers :
          /\ WF_pagesVars(prepare(w))
          /\ WF_pagesVars(GitDone(w) \/ run_git_fails(w))
          /\ WF_pagesVars(publish_into(w))

PagesSpec == PagesInit /\ [][PagesNext]_pagesVars /\ PagesFairness

\* A refresh never fails because another one, the updater's or another
\* administrator's, is in the same working tree: what the gate is for.
RefreshesDoNotFight == lockFights = {}

\* Once upstream rests the repository is cloned, and if upstream still has the branch that was its default then, the
\* pages served become that branch's and stay so: after failures, after a rewritten history, and after a set that was
\* prepared earlier is published over a newer one.  (A branch that was renamed or deleted since is never found again, and
\* one that is no longer the default is still followed; of a clone that was killed half way nothing is said.)
PagesCatchUp ==
    <>[](\A k \in Kinds : \E c \in checkout[k] : \A b \in c.origin_head : \A tip \in upstream[k].refs[b] :
            store[k].pages = {f.slug : f \in {f \in tip.tree :
                f.markdown /\ ~f.symlink /\ ~f.hidden /\ (f.readme => IncludeReadme)}})
=============================================================================
