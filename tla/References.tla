----------------------------- MODULE References -----------------------------
(***************************************************************************)
(* The pinned sources and the reference model built from them:             *)
(* scripts/fetch_dependencies.py brings the checkout of each dependency to *)
(* the commit its lock file names, and scripts/build_spike.py builds Spike *)
(* and the patched Ibex co-simulation files from two of them, reusing what *)
(* the fingerprint in its manifest says is still right.                    *)
(*                                                                         *)
(* One command runs at a time: make deps and make deps-check, which go     *)
(* through the dependencies in order and end at the first that fails;      *)
(* make difftest-build, which is deps-check and then build_spike.py; and   *)
(* build_spike.py by itself.  A command can be killed at any moment; the   *)
(* developer edits lock files at any time and checkouts while no command   *)
(* works on them.                                                          *)
(***************************************************************************)
EXTENDS Naturals, Sequences

CONSTANTS
    Deps,           \* the dependencies; "spike" and "ibex" are two of them
    Order,          \* DEPENDENCIES: the order the script takes them in
    WithSubmodules, \* those whose lock names submodules
    MaxCommit,      \* commits a lock file goes through
    Reverts,        \* whether a lock file can go back to an earlier commit
    MaxKills        \* how many scripts are killed

ASSUME ReferencesAssumption ==
    /\ {"spike", "ibex"} \subseteq Deps /\ WithSubmodules \subseteq Deps
    /\ MaxCommit \in Nat \ {0} /\ Reverts \in BOOLEAN /\ MaxKills \in Nat

ASSUME OrderAssumption ==
    Order \in Seq(Deps) /\ \A d \in Deps : \E i \in 1..Len(Order) : Order[i] = d

VARIABLES
    lock,           \* the commit in each dependency.lock.json
    checkout,       \* the upstream directory of each dependency
    depManifest,    \* build/manifest/<name>.json: the commit last verified
    install,        \* commit the installed Spike was built from
    cosim,          \* commit of the co-simulation files, and whether they are patched
    refManifest,    \* build/reference/spike/build_manifest.json
    sound,          \* history: the manifest is of a build that worked on the checkouts of
                    \* the locks it names, and its files were not half removed since
    job,            \* the running command
    kills

refVars == <<install, cosim, refManifest, sound>>
vars == <<lock, checkout, depManifest, refVars, job, kills>>

NoCommit == 0
Commits  == 1..MaxCommit
Torn     == MaxCommit + 1       \* files that a kill left in the middle of a change
NoJob    == [pc |-> "idle"]
NoCosim  == [from |-> NoCommit, patched |-> FALSE]
NoRef    == [spike |-> NoCommit, ibex |-> NoCommit]

\* dir: nothing (or an empty directory), somebody's files, or a repository with its
\* origin, HEAD, working tree, the lock whose sparse paths are configured, submodules, and
\* the commit the developer's uncommitted edits were made on.
Absent  == [dir |-> "absent", origin |-> FALSE, head |-> NoCommit, tree |-> NoCommit,
            sparse |-> NoCommit, subs |-> NoCommit, edited |-> NoCommit]
Foreign == [Absent EXCEPT !.dir = "foreign"]

Init ==
    /\ lock = [d \in Deps |-> 1]
    /\ checkout = [d \in Deps |-> Absent]
    /\ depManifest = [d \in Deps |-> NoCommit]
    /\ install = NoCommit /\ cosim = NoCosim /\ refManifest = NoRef /\ sound = TRUE
    /\ job = NoJob /\ kills = 0

-----------------------------------------------------------------------------
(***************************************************************************)
(* fetch_dependencies.py                                                   *)
(***************************************************************************)
\* git status --porcelain prints something: edits, a torn tree, a submodule that is
\* not at the commit HEAD records.
Modified(c) ==
    \/ c.edited # NoCommit
    \/ c.tree # c.head
    \/ c.subs \notin {NoCommit, c.head}

\* verify_submodules: each is at the commit the lock names, from the origin it names.
SubmodulesMatch(d, commit) == d \in WithSubmodules => checkout[d].subs = commit

\* verify_one: HEAD, origin, submodules and the required files, which are there when the
\* sparse paths of the lock are configured; not git status.
Matches(d) ==
    /\ checkout[d].head = lock[d]
    /\ checkout[d].origin
    /\ checkout[d].sparse = lock[d]
    /\ SubmodulesMatch(d, lock[d])

\* Mutant: an existing repository is brought up to date whatever its status.
UpdatePath_ignoresStatus(d) ==
    checkout[d].dir = "git" /\ checkout[d].head # lock[d] /\ checkout[d].origin

\* A repository at another commit is only touched when it has the right origin and no
\* modification.
UpdatePath(d) ==
    /\ checkout[d].dir = "git" /\ checkout[d].head # lock[d]
    /\ checkout[d].origin
    /\ ~Modified(checkout[d])

\* fetch_one neither finds the locked commit nor may bring it.
Refused(d) ==
    \/ checkout[d].dir = "foreign"
    \/ checkout[d].dir = "git" /\ checkout[d].head # lock[d] /\ ~UpdatePath(d)

\* make deps starts with the first dependency; --dependency takes one only.
FetchStarts ==
    /\ job = NoJob
    /\ job' = [pc |-> "fetch", at |-> 1, last |-> Len(Order), commit |-> NoCommit]
    /\ UNCHANGED <<lock, checkout, depManifest, refVars, kills>>

FetchOneStarts ==
    /\ job = NoJob
    /\ \E i \in 1..Len(Order) :
          job' = [pc |-> "fetch", at |-> i, last |-> i, commit |-> NoCommit]
    /\ UNCHANGED <<lock, checkout, depManifest, refVars, kills>>

Dep == Order[job.at]

\* fetch_one reads the lock and decides: a repository at the locked commit or one that
\* may be updated, and a place where nothing is yet.  In every other state it refuses,
\* and that is the end of make deps.
DependencyTaken ==
    /\ job.pc = "fetch"
    /\ LET here == checkout[Dep]
           go(pc) == [job EXCEPT !.pc = pc, !.commit = lock[Dep]]
       IN  \/ /\ (here.dir = "git" /\ here.head = lock[Dep]) \/ UpdatePath(Dep)
              /\ job' = go("sparse")
           \/ here.dir = "absent" /\ job' = go("init")
           \/ Refused(Dep) /\ job' = NoJob
    /\ UNCHANGED <<lock, checkout, depManifest, refVars, kills>>

Goto(pc) == job' = [job EXCEPT !.pc = pc]

\* initialize_checkout: git init ...
RepositoryInitialised ==
    /\ job.pc = "init"
    /\ checkout' = [checkout EXCEPT ![Dep] = [Absent EXCEPT !.dir = "git"]]
    /\ Goto("remote")
    /\ UNCHANGED <<lock, depManifest, refVars, kills>>

\* ... and, two git config later, the origin.
OriginAdded ==
    /\ job.pc = "remote"
    /\ checkout' = [checkout EXCEPT ![Dep].origin = TRUE]
    /\ Goto("sparse")
    /\ UNCHANGED <<lock, depManifest, refVars, kills>>

\* Mutant: at the locked commit there is nothing more to fetch.
SparseConfigured_skips ==
    /\ job.pc = "sparse"
    /\ checkout' = [checkout EXCEPT ![Dep].sparse = job.commit]
    /\ Goto(IF checkout[Dep].head = job.commit THEN "verify" ELSE "checkout")
    /\ UNCHANGED <<lock, depManifest, refVars, kills>>

\* configure_sparse, in a new repository, before an update, and when the commit is right.
SparseConfigured ==
    /\ job.pc = "sparse"
    /\ checkout' = [checkout EXCEPT ![Dep].sparse = job.commit]
    /\ Goto(IF checkout[Dep].head = job.commit THEN "submodules" ELSE "checkout")
    /\ UNCHANGED <<lock, depManifest, refVars, kills>>

\* The locked commit is fetched and checked out.  A killed fetch
\* leaves nothing that matters; a killed checkout leaves a torn tree and the old HEAD.
CommitCheckedOut ==
    /\ job.pc = "checkout"
    /\ checkout' = [checkout EXCEPT ![Dep].head = job.commit, ![Dep].tree = job.commit]
    /\ Goto("submodules")
    /\ UNCHANGED <<lock, depManifest, refVars, kills>>

CheckoutKilled ==
    /\ job.pc = "checkout"
    /\ kills < MaxKills /\ kills' = kills + 1
    /\ checkout' = [checkout EXCEPT ![Dep].tree = Torn]
    /\ job' = NoJob
    /\ UNCHANGED <<lock, depManifest, refVars>>

\* git submodule update, to what the checked-out commit records.
SubmodulesUpdated ==
    /\ job.pc = "submodules"
    /\ checkout' = [checkout EXCEPT ![Dep].subs =
                       IF Dep \in WithSubmodules THEN checkout[Dep].head ELSE @]
    /\ Goto("verify")
    /\ UNCHANGED <<lock, depManifest, refVars, kills>>

\* What follows a dependency that is verified: the next one, or what the command does
\* after the last.
Onward(pc, after) == IF job.at < job.last THEN [job EXCEPT !.pc = pc, !.at = @ + 1] ELSE after

\* verify_one reads the lock again and records what it verified; when something differs
\* it ends the command instead.
Verified(onward) ==
    /\ IF Matches(Dep)
       THEN depManifest' = [depManifest EXCEPT ![Dep] = lock[Dep]] /\ job' = onward
       ELSE job' = NoJob /\ UNCHANGED depManifest
    /\ UNCHANGED <<lock, checkout, refVars, kills>>

DependencyVerified == job.pc = "verify" /\ Verified(Onward("fetch", NoJob))

\* make deps-check, alone or as the first half of make difftest-build.
DepsCheckStarts ==
    /\ job = NoJob
    /\ \E build \in BOOLEAN :
          job' = [pc |-> "check", at |-> 1, last |-> Len(Order), build |-> build]
    /\ UNCHANGED <<lock, checkout, depManifest, refVars, kills>>

\* build_spike.py, which is a process of its own.
BuildSpike(force) == [pc |-> "spike", force |-> force]

DependencyChecked ==
    /\ job.pc = "check"
    /\ Verified(Onward("check", IF job.build THEN BuildSpike(FALSE) ELSE NoJob))

-----------------------------------------------------------------------------
(***************************************************************************)
(* build_spike.py                                                          *)
(***************************************************************************)
\* desired_manifest: the commits in the lock files as they are now.
DesiredManifest == [spike |-> lock["spike"], ibex |-> lock["ibex"]]

\* is_current: the files are there and the fingerprint is the one wanted now.
IsCurrent ==
    /\ install # NoCommit /\ cosim # NoCosim
    /\ refManifest = DesiredManifest

\* Mutant: an installed Spike is always good enough.
SpikeInstallIsReusable_always == install # NoCommit

\* The manifest still there was written for the Spike that is wanted now.
SpikeInstallIsReusable ==
    install # NoCommit /\ refManifest.spike = DesiredManifest.spike

\* build_spike.py run by hand, with --force or without, checks nothing before.
BuildStartedByHand ==
    /\ job = NoJob
    /\ \E force \in BOOLEAN : job' = BuildSpike(force)
    /\ UNCHANGED <<lock, checkout, depManifest, refVars, kills>>

\* The repositories the build works on are at the commits the lock files name now.
CheckoutsAreLocked ==
    checkout["spike"].head = lock["spike"] /\ checkout["ibex"].head = lock["ibex"]

\* main: the lock files are read, now.  Nothing more is done when the model is current, or
\* a repository is missing; whether it is at the locked commit nobody asks.
ReferenceBuildStarts ==
    /\ job.pc = "spike"
    /\ LET reuse == ~job.force /\ SpikeInstallIsReusable
           goes  == /\ job.force \/ ~IsCurrent
                    /\ checkout["spike"].dir = "git" /\ checkout["ibex"].dir = "git"
       IN  job' = IF goes
                  THEN [pc |-> IF reuse THEN "copy" ELSE "remove", reuse |-> reuse,
                        desired |-> DesiredManifest,
                        sound |-> CheckoutsAreLocked /\ (reuse => sound)]
                  ELSE NoJob
    /\ UNCHANGED <<lock, checkout, depManifest, refVars, kills>>

\* What cannot be reused goes, with the manifest.
ReferenceRemoved ==
    /\ job.pc = "remove"
    /\ install' = NoCommit /\ cosim' = NoCosim /\ refManifest' = NoRef /\ sound' = TRUE
    /\ Goto("copy")
    /\ UNCHANGED <<lock, checkout, depManifest, kills>>

\* rmtree killed in the middle has removed any of the files, the manifest or others.
RemovalKilled ==
    /\ job.pc = "remove"
    /\ kills < MaxKills /\ kills' = kills + 1
    /\ install' \in {NoCommit} \cup (IF install = NoCommit THEN {} ELSE {install, Torn})
    /\ cosim' \in {NoCosim, cosim} /\ refManifest' \in {NoRef, refManifest}
    /\ sound' = (refManifest' = NoRef)
    /\ job' = NoJob
    /\ UNCHANGED <<lock, checkout, depManifest>>

\* prepare_ibex_cosim: the files there go, the checkout's are copied, then patched.  Where
\* nothing is checked out there is nothing to copy, and the script fails.
CosimCopied ==
    /\ job.pc = "copy"
    /\ IF checkout["ibex"].head = NoCommit
       THEN cosim' = NoCosim /\ job' = NoJob
       ELSE cosim' = [from |-> checkout["ibex"].head, patched |-> FALSE] /\ Goto("patch")
    /\ UNCHANGED <<lock, checkout, depManifest, install, refManifest, sound, kills>>

\* A kill after the removal and before the last file is copied.
CosimCopyKilled ==
    /\ job.pc = "copy"
    /\ kills < MaxKills /\ kills' = kills + 1
    /\ cosim' = NoCosim
    /\ job' = NoJob
    /\ UNCHANGED <<lock, checkout, depManifest, install, refManifest, sound>>

CosimPatched ==
    /\ job.pc = "patch"
    /\ cosim' = [cosim EXCEPT !.patched = TRUE]
    /\ Goto("build")
    /\ UNCHANGED <<lock, checkout, depManifest, install, refManifest, sound, kills>>

\* build_spike, unless the installation is reused; an empty repository cannot be built.
SpikeBuilt ==
    /\ job.pc = "build"
    /\ IF job.reuse \/ checkout["spike"].head # NoCommit
       THEN /\ install' = IF job.reuse THEN install ELSE checkout["spike"].head
            /\ Goto("record")
       ELSE job' = NoJob /\ UNCHANGED install
    /\ UNCHANGED <<lock, checkout, depManifest, cosim, refManifest, sound, kills>>

\* Killed, or failing, in make install.
InstallKilled ==
    /\ job.pc = "build" /\ ~job.reuse
    /\ kills < MaxKills /\ kills' = kills + 1
    /\ install' = Torn
    /\ job' = NoJob
    /\ UNCHANGED <<lock, checkout, depManifest, cosim, refManifest, sound>>

ReferenceRecorded ==
    /\ job.pc = "record"
    /\ refManifest' = job.desired /\ sound' = job.sound
    /\ job' = NoJob
    /\ UNCHANGED <<lock, checkout, depManifest, install, cosim, kills>>

\* Any command is killed between two steps, or one of its steps fails.
ScriptKilled ==
    /\ job # NoJob
    /\ kills < MaxKills /\ kills' = kills + 1
    /\ job' = NoJob
    /\ UNCHANGED <<lock, checkout, depManifest, refVars>>

-----------------------------------------------------------------------------
(***************************************************************************)
(* The developer.                                                          *)
(***************************************************************************)
LockEdited(d) ==
    /\ \E c \in Commits \ {lock[d]} :
          /\ Reverts \/ c = lock[d] + 1
          /\ lock' = [lock EXCEPT ![d] = c]
    /\ UNCHANGED <<checkout, depManifest, refVars, job, kills>>

\* Changes a checked-out file, reverts everything, puts files of his own or nothing
\* where the checkout was.
CheckoutEdited(d) ==
    /\ job = NoJob
    /\ checkout[d].dir = "git" /\ checkout[d].head # NoCommit
    /\ checkout' = [checkout EXCEPT ![d].edited = checkout[d].head]
    /\ UNCHANGED <<lock, depManifest, refVars, job, kills>>

CheckoutReset(d) ==
    /\ job = NoJob
    /\ checkout' = [checkout EXCEPT ![d].edited = NoCommit, ![d].tree = checkout[d].head,
                                    ![d].subs = IF @ = NoCommit THEN @ ELSE checkout[d].head]
    /\ UNCHANGED <<lock, depManifest, refVars, job, kills>>

CheckoutReplaced(d) ==
    /\ job = NoJob
    /\ \E c \in {Absent, Foreign} : checkout' = [checkout EXCEPT ![d] = c]
    /\ UNCHANGED <<lock, depManifest, refVars, job, kills>>

\* scripts/clean.py all: everything under build/.
CleanAll ==
    /\ job = NoJob
    /\ depManifest' = [d \in Deps |-> NoCommit]
    /\ install' = NoCommit /\ cosim' = NoCosim /\ refManifest' = NoRef /\ sound' = TRUE
    /\ UNCHANGED <<lock, checkout, job, kills>>

FetchStep ==
    \/ DependencyTaken \/ RepositoryInitialised \/ OriginAdded \/ SparseConfigured
    \/ CommitCheckedOut \/ SubmodulesUpdated \/ DependencyVerified

BuildStep ==
    \/ DependencyChecked \/ ReferenceBuildStarts \/ ReferenceRemoved
    \/ CosimCopied \/ CosimPatched \/ SpikeBuilt \/ ReferenceRecorded

Next ==
    \/ FetchStarts \/ FetchOneStarts \/ DepsCheckStarts \/ BuildStartedByHand
    \/ FetchStep \/ BuildStep
    \/ CheckoutKilled \/ RemovalKilled \/ CosimCopyKilled \/ InstallKilled \/ ScriptKilled
    \/ \E d \in Deps : LockEdited(d) \/ CheckoutEdited(d) \/ CheckoutReset(d) \/ CheckoutReplaced(d)
    \/ CleanAll

Spec == Init /\ [][Next]_vars

-----------------------------------------------------------------------------
TypeOK ==
    /\ lock \in [Deps -> Commits]
    /\ checkout \in [Deps -> [dir : {"absent", "foreign", "git"}, origin : BOOLEAN,
                              head : {NoCommit} \cup Commits, tree : 0..Torn,
                              sparse : {NoCommit} \cup Commits,
                              subs : {NoCommit} \cup Commits, edited : {NoCommit} \cup Commits]]
    /\ depManifest \in [Deps -> {NoCommit} \cup Commits]
    /\ install \in 0..Torn
    /\ cosim \in [from : {NoCommit} \cup Commits, patched : BOOLEAN]
    /\ refManifest \in [spike : {NoCommit} \cup Commits, ibex : {NoCommit} \cup Commits]
    /\ sound \in BOOLEAN /\ kills \in 0..MaxKills

\* What the developer changed in a checkout is never carried over to another commit by
\* make deps, so a checkout that is verified after an update holds only what was fetched
\* (fetch_one refuses to replace a modified checkout).
EditsStayWithTheirCommit ==
    \A d \in Deps : checkout[d].edited \in {NoCommit, checkout[d].head}

\* A reference model that is reused is the one the lock files name: Spike was built from
\* the locked commit and the co-simulation files are the locked ones, patched, whatever
\* builds were cut short before (build_spike.py is_current and spike_install_is_reusable).
\* Nothing in the code ensures it when the recorded build found the repositories at other
\* commits than the lock files named when it read them (a lock file edited after
\* deps-check, or no deps-check at all), or when the removal of an older build was killed.
CurrentReferenceIsPinned ==
    IsCurrent /\ sound =>
        install = lock["spike"] /\ cosim = [from |-> lock["ibex"], patched |-> TRUE]

\* make deps refuses, and only the developer can help.
Blocked(d) ==
    \/ checkout[d].dir = "foreign"
    \/ checkout[d].dir = "git" /\ ~checkout[d].origin
    \/ checkout[d].dir = "git" /\ checkout[d].head # lock[d] /\ Modified(checkout[d])

\* make deps is run again and again, and a command that is not killed goes on.
LiveSpec == Spec /\ WF_vars(FetchStep) /\ WF_vars(BuildStep) /\ SF_vars(FetchStarts)

\* However often make deps is interrupted, running it again brings the checkout of a
\* dependency to the locked commit, submodules included, unless the script has to refuse
\* it or one that it takes before it (fetch_dependencies.py main).
FetchResumes ==
    \A i \in 1..Len(Order) : []<>(Matches(Order[i]) \/ \E j \in 1..i : Blocked(Order[j]))

\* The records of checkouts and builds have their types, and no update carries what the
\* developer changed to another commit (fetch_dependencies.py fetch_one).
CheckoutInv == TypeOK /\ EditsStayWithTheirCommit
=============================================================================
