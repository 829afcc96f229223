-------------------------- MODULE ReferencesProofs --------------------------
(***************************************************************************)
(* For any set of dependencies and any number of commits and kills: no     *)
(* update carries the developer's edits to another commit, and a reference *)
(* model that is reused is the one the lock files name.                    *)
(***************************************************************************)
EXTENDS References, TLAPS

\* Where a fetch and a build of the reference model can be.
FetchPlaces == {"init", "remote", "sparse", "checkout", "submodules", "verify"}
BuildPlaces == {"remove", "copy", "patch", "build", "record"}

Places  == 1..Len(Order)
Takings == [pc : {"fetch"}, at : Places, last : Places, commit : {NoCommit} \cup Commits]
Fetches == [pc : FetchPlaces, at : Places, last : Places, commit : Commits]
Checks  == [pc : {"check"}, at : Places, last : Places, build : BOOLEAN]
Starts  == [pc : {"spike"}, force : BOOLEAN]
Builds  == [pc : BuildPlaces, reuse : BOOLEAN, desired : [spike : Commits, ibex : Commits],
            sound : BOOLEAN]

Checkouts == [dir : {"absent", "foreign", "git"}, origin : BOOLEAN,
              head : {NoCommit} \cup Commits, tree : 0..Torn, sparse : {NoCommit} \cup Commits,
              subs : {NoCommit} \cup Commits, edited : {NoCommit} \cup Commits]

JobTypeOK == job \in {NoJob} \cup Takings \cup Fetches \cup Checks \cup Starts \cup Builds

\* Until the commit is checked out there is nothing in the checkout that could be carried
\* over, or it is at that commit already.
FetchInv ==
    /\ job.pc \in {"remote", "checkout"} => checkout[Dep].edited = NoCommit
    /\ job.pc = "sparse" => \/ checkout[Dep].edited = NoCommit
                            \/ checkout[Dep].head = job.commit

CheckoutIInv == TypeOK /\ JobTypeOK /\ EditsStayWithTheirCommit /\ FetchInv

\* What a manifest names was locked once.  Where the build it records was sound, the
\* installed Spike is the one it names, and the co-simulation files are the patched ones
\* it names unless the lock has moved on.
RecordInv ==
    refManifest # NoRef =>
        /\ refManifest.spike # NoCommit /\ refManifest.ibex # NoCommit
        /\ refManifest.ibex <= lock["ibex"]
        /\ sound => /\ install = refManifest.spike
                    /\ \/ refManifest.ibex < lock["ibex"]
                       \/ cosim = [from |-> refManifest.ibex, patched |-> TRUE]

\* A sound build works on the checkouts of the commits it wants; until it records, the
\* manifest beside it is gone, or is of the same Spike and of an older co-simulation.
BuildInv ==
    job.pc \in BuildPlaces =>
        /\ job.desired.ibex <= lock["ibex"]
        /\ job.sound => /\ checkout["spike"].head = job.desired.spike
                        /\ checkout["ibex"].head = job.desired.ibex
        /\ job.pc = "remove" => ~job.reuse
        /\ job.pc # "remove" =>
             /\ sound /\ refManifest # NoRef => refManifest.ibex < lock["ibex"]
             /\ ~job.reuse => refManifest = NoRef
        /\ job.reuse /\ job.sound => install = job.desired.spike
        /\ job.pc = "patch" /\ job.sound => cosim.from = job.desired.ibex
        /\ job.pc \in {"build", "record"} /\ job.sound =>
             cosim = [from |-> job.desired.ibex, patched |-> TRUE]
        /\ job.pc = "record" /\ job.sound => install = job.desired.spike

ReferenceInv == CheckoutIInv /\ RecordInv /\ BuildInv

-----------------------------------------------------------------------------
\* A place where nothing is fetched yet holds no edits.
LEMMA AbsentFields == Absent \in Checkouts /\ Absent.edited = NoCommit
BY ReferencesAssumption DEF Absent, Checkouts, NoCommit, Torn, Commits

\* git init, and the developer's own files, change what kind of directory it is.
LEMMA DirSet ==
    ASSUME NEW c \in Checkouts, NEW x \in {"absent", "foreign", "git"}
    PROVE  [c EXCEPT !.dir = x] \in Checkouts /\ [c EXCEPT !.dir = x].edited = c.edited
BY DEF Checkouts

\* git remote add leaves the edits alone.
LEMMA OriginSet ==
    ASSUME NEW c \in Checkouts
    PROVE  [c EXCEPT !.origin = TRUE] \in Checkouts
           /\ [c EXCEPT !.origin = TRUE].edited = c.edited
BY DEF Checkouts

\* git checkout moves HEAD and the tree together.
LEMMA HeadSet ==
    ASSUME NEW c \in Checkouts, NEW h \in Commits
    PROVE  LET r == [c EXCEPT !.head = h, !.tree = h]
           IN  r \in Checkouts /\ r.edited = c.edited
<1>1. h \in 0..Torn
  BY ReferencesAssumption DEF Torn, Commits
<1>2. QED
  BY <1>1 DEF Checkouts

\* A reset of the checkout drops the edits and brings back what HEAD records.
LEMMA FilesReset ==
    ASSUME NEW c \in Checkouts
    PROVE  LET r == [c EXCEPT !.edited = NoCommit, !.tree = c.head,
                              !.subs = IF @ = NoCommit THEN @ ELSE c.head]
           IN  r \in Checkouts /\ r.edited = NoCommit
<1>1. c.head \in 0..Torn /\ NoCommit \in {NoCommit} \cup Commits
  BY ReferencesAssumption DEF Checkouts, NoCommit, Torn, Commits
<1>2. ASSUME NEW v \in {NoCommit} \cup Commits
      PROVE  LET r == [c EXCEPT !.edited = NoCommit, !.tree = c.head, !.subs = v]
             IN  r \in Checkouts /\ r.edited = NoCommit
  BY <1>1 DEF Checkouts
<1>3. QED
  BY <1>2 DEF Checkouts

\* Patching the co-simulation files leaves the commit they are from.
LEMMA PatchedSet ==
    ASSUME NEW c \in [from : {NoCommit} \cup Commits, patched : BOOLEAN]
    PROVE  /\ [c EXCEPT !.patched = TRUE] = [from |-> c.from, patched |-> TRUE]
           /\ [c EXCEPT !.patched = TRUE] \in [from : {NoCommit} \cup Commits, patched : BOOLEAN]
<1>1. ASSUME NEW b \in BOOLEAN
      PROVE  [c EXCEPT !.patched = b] = [from |-> c.from, patched |-> b]
  OBVIOUS
<1>2. [c EXCEPT !.patched = TRUE] = [from |-> c.from, patched |-> TRUE]
  BY <1>1
<1>3. QED
  BY <1>2

\* No build at all is a record of a build.
LEMMA NothingBuilt ==
    /\ NoCosim \in [from : {NoCommit} \cup Commits, patched : BOOLEAN]
    /\ NoRef \in [spike : {NoCommit} \cup Commits, ibex : {NoCommit} \cup Commits]
    /\ NoCommit \in 0..Torn /\ Torn \in 0..Torn /\ NoCommit \in {NoCommit} \cup Commits
<1>1. NoCosim \in [from : {NoCommit} \cup Commits, patched : BOOLEAN]
  BY DEF NoCosim
<1>2. NoRef \in [spike : {NoCommit} \cup Commits, ibex : {NoCommit} \cup Commits]
  BY DEF NoRef
<1>3. QED
  BY <1>1, <1>2, ReferencesAssumption DEF NoCommit, Torn

\* One checkout changes, to one without edits: the others keep theirs.
LEMMA CheckoutChanged ==
    ASSUME checkout \in [Deps -> Checkouts], EditsStayWithTheirCommit,
           NEW d \in Deps, NEW c \in Checkouts, c.edited = NoCommit,
           checkout' = [checkout EXCEPT ![d] = c]
    PROVE  /\ checkout' \in [Deps -> Checkouts] /\ EditsStayWithTheirCommit'
           /\ checkout'[d] = c
BY DEF EditsStayWithTheirCommit

\* The order names at least one dependency, and only dependencies.
LEMMA OrderFacts ==
    /\ Len(Order) \in Nat \ {0}
    /\ \A i \in Places : Order[i] \in Deps
<1>1. \E i \in 1..Len(Order) : Order[i] = "spike"
  BY ReferencesAssumption, OrderAssumption
<1>2. QED
  BY <1>1, OrderAssumption DEF Places

\* Of two commits of a lock, one that is not newer and not the same is older.
LEMMA StrictlyOlder == \A a, b \in Nat : a <= b /\ a # b => a < b
OBVIOUS

\* The first state, with nothing fetched or built, satisfies the invariant.
LEMMA ReferenceInitInv == Init => ReferenceInv
BY ReferencesAssumption DEF Init, ReferenceInv, CheckoutIInv, TypeOK, JobTypeOK, RecordInv,
    BuildInv, EditsStayWithTheirCommit, FetchInv, Absent, NoCosim, NoRef, NoJob, NoCommit,
    Commits, Torn, BuildPlaces, Dep

\* A command that goes on with a fetch keeps its dependency and commit.
LEMMA FetchMoves ==
    ASSUME NEW j \in Fetches, NEW x \in FetchPlaces
    PROVE  LET r == [j EXCEPT !.pc = x]
           IN  r \in Fetches /\ r.pc = x /\ r.at = j.at /\ r.commit = j.commit
BY DEF Fetches

\* And one that goes on to the next dependency starts it afresh.
LEMMA TakingMoves ==
    ASSUME NEW j \in Fetches, j.at < j.last
    PROVE  LET r == [j EXCEPT !.pc = "fetch", !.at = @ + 1]
           IN  r \in Takings
<1>1. j.at + 1 \in Places
  BY OrderFacts DEF Fetches, Places
<1>2. QED
  BY <1>1 DEF Fetches, Takings

LEMMA CheckMoves ==
    ASSUME NEW j \in Checks, j.at < j.last
    PROVE  LET r == [j EXCEPT !.pc = "check", !.at = @ + 1]
           IN  r \in Checks
<1>1. j.at + 1 \in Places
  BY OrderFacts DEF Checks, Places
<1>2. QED
  BY <1>1 DEF Checks

LEMMA BuildMoves ==
    ASSUME NEW j \in Builds, NEW x \in BuildPlaces
    PROVE  LET r == [j EXCEPT !.pc = x]
           IN  /\ r \in Builds /\ r.pc = x /\ r.reuse = j.reuse
               /\ r.desired = j.desired /\ r.sound = j.sound
BY DEF Builds

\* Where a command is says what kind of command it is.
LEMMA JobKinds ==
    ASSUME JobTypeOK
    PROVE  /\ job.pc = "fetch" => job \in Takings
           /\ job.pc \in FetchPlaces => job \in Fetches
           /\ job.pc = "check" => job \in Checks
           /\ job.pc = "spike" => job \in Starts
           /\ job.pc \in BuildPlaces => job \in Builds
           /\ job.pc \in {"fetch", "check"} \cup FetchPlaces => job.at \in Places /\ Dep \in Deps
<1>1. /\ job.pc = "fetch" => job \in Takings
      /\ job.pc \in FetchPlaces => job \in Fetches
      /\ job.pc = "check" => job \in Checks
      /\ job.pc = "spike" => job \in Starts
      /\ job.pc \in BuildPlaces => job \in Builds
  BY DEF JobTypeOK, Takings, Fetches, Checks, Starts, Builds, FetchPlaces, BuildPlaces, NoJob
<1>2. job.pc \in {"fetch", "check"} \cup FetchPlaces => job.at \in Places
  BY <1>1 DEF Takings, Fetches, Checks
<1>3. QED
  BY <1>1, <1>2, OrderFacts DEF Dep

\* No fetch is in the middle of one, so none can carry anything over.
LEMMA NotFetching ==
    ASSUME job' \in {NoJob} \cup Takings \cup Checks \cup Starts \cup Builds
    PROVE  JobTypeOK' /\ FetchInv'
BY DEF JobTypeOK, FetchInv, NoJob, Takings, Checks, Starts, Builds, BuildPlaces

\* Every command of a fetch, every kill and every edit keeps the edits with their commit.
LEMMA CheckoutPreserved == CheckoutIInv /\ [Next]_vars => CheckoutIInv'
<1> SUFFICES ASSUME CheckoutIInv, [Next]_vars PROVE CheckoutIInv'
  OBVIOUS
<1>k. /\ job.pc = "fetch" => job \in Takings
      /\ job.pc \in FetchPlaces => job \in Fetches
      /\ job.pc = "check" => job \in Checks
      /\ job.pc = "spike" => job \in Starts
      /\ job.pc \in BuildPlaces => job \in Builds
      /\ job.pc \in {"fetch", "check"} \cup FetchPlaces => job.at \in Places /\ Dep \in Deps
  BY JobKinds DEF CheckoutIInv
<1>t. /\ checkout \in [Deps -> Checkouts] /\ lock \in [Deps -> Commits]
      /\ EditsStayWithTheirCommit /\ FetchInv /\ TypeOK /\ JobTypeOK
  BY DEF CheckoutIInv, TypeOK, Checkouts
<1>e. ASSUME UNCHANGED <<checkout, job>> PROVE EditsStayWithTheirCommit' /\ FetchInv' /\ JobTypeOK'
  BY <1>t, <1>e DEF EditsStayWithTheirCommit, FetchInv, JobTypeOK, Dep
<1>n. \A j : j = NoJob => j \in {NoJob} \cup Takings \cup Checks \cup Starts \cup Builds
  OBVIOUS
<1>u. ASSUME UNCHANGED checkout PROVE EditsStayWithTheirCommit'
  BY <1>t, <1>u DEF EditsStayWithTheirCommit
<1> USE DEF CheckoutIInv
<1>1. CASE FetchStarts \/ FetchOneStarts \/ DepsCheckStarts \/ BuildStartedByHand
  <2>1. job' \in Takings \cup Checks \cup Starts
    BY <1>1, OrderFacts DEF FetchStarts, FetchOneStarts, DepsCheckStarts, BuildStartedByHand,
        BuildSpike, Takings, Checks, Starts, Places
  <2>2. UNCHANGED <<lock, checkout, depManifest, refVars, kills>>
    BY <1>1 DEF FetchStarts, FetchOneStarts, DepsCheckStarts, BuildStartedByHand
  <2>3. QED
    BY <1>t, <1>u, <2>1, <2>2, NotFetching DEF TypeOK, refVars
<1>2. CASE DependencyTaken
  <2>1. job \in Takings /\ Dep \in Deps /\ lock[Dep] \in Commits
    BY <1>2, <1>k, <1>t DEF DependencyTaken
  <2>2. UNCHANGED <<lock, checkout, depManifest, refVars, kills>>
    BY <1>2 DEF DependencyTaken
  <2>3. TypeOK' /\ EditsStayWithTheirCommit'
    BY <1>t, <1>u, <2>2 DEF TypeOK, refVars
  <2>4. CASE job' = [job EXCEPT !.pc = "sparse", !.commit = lock[Dep]]
             /\ ((checkout[Dep].dir = "git" /\ checkout[Dep].head = lock[Dep]) \/ UpdatePath(Dep))
    <3>1. job' \in Fetches /\ job'.pc = "sparse" /\ job'.at = job.at /\ job'.commit = lock[Dep]
      <4>1. job' = [job EXCEPT !.pc = "sparse", !.commit = lock[Dep]] /\ "sparse" \in FetchPlaces
        BY <2>4 DEF FetchPlaces
      <4> HIDE DEF CheckoutIInv
      <4>2. QED
        BY <2>1, <4>1 DEF Fetches, Takings
    <3>2. checkout[Dep].edited = NoCommit \/ checkout[Dep].head = lock[Dep]
      BY <2>4 DEF UpdatePath, Modified
    <3>3. QED
      BY <2>2, <2>3, <3>1, <3>2 DEF JobTypeOK, FetchInv, Dep
  <2>5. CASE job' = [job EXCEPT !.pc = "init", !.commit = lock[Dep]]
    <3>1. job' \in Fetches /\ job'.pc = "init"
      <4>1. job' = [job EXCEPT !.pc = "init", !.commit = lock[Dep]] /\ "init" \in FetchPlaces
        BY <2>5 DEF FetchPlaces
      <4> HIDE DEF CheckoutIInv
      <4>2. QED
        BY <2>1, <4>1 DEF Fetches, Takings
    <3>2. QED
      BY <2>3, <3>1 DEF JobTypeOK, FetchInv
  <2>6. CASE job' = NoJob
    BY <2>3, <2>6, NotFetching
  <2>7. QED
    BY <1>2, <2>4, <2>5, <2>6 DEF DependencyTaken
<1>3. CASE RepositoryInitialised
  <2> DEFINE c == [Absent EXCEPT !.dir = "git"]
  <2>1. c \in Checkouts /\ c.edited = NoCommit
    BY AbsentFields, DirSet
  <2>2. job \in Fetches /\ Dep \in Deps /\ checkout' = [checkout EXCEPT ![Dep] = c]
    BY <1>3, <1>k DEF RepositoryInitialised, FetchPlaces
  <2> HIDE DEF c
  <2>3. /\ checkout' \in [Deps -> Checkouts] /\ EditsStayWithTheirCommit'
        /\ checkout'[Dep].edited = NoCommit
    BY <1>t, <2>1, <2>2, CheckoutChanged
  <2>4. job' \in Fetches /\ job'.pc = "remote" /\ job'.at = job.at
    BY <1>3, <2>2, FetchMoves DEF RepositoryInitialised, Goto, FetchPlaces
  <2>5. TypeOK'
    BY <1>3, <1>t, <2>3 DEF RepositoryInitialised, TypeOK, Checkouts, refVars
  <2>6. QED
    BY <2>3, <2>4, <2>5 DEF JobTypeOK, FetchInv, Dep
<1>4. CASE OriginAdded
  <2> DEFINE c == [checkout[Dep] EXCEPT !.origin = TRUE]
  <2>1. job \in Fetches /\ Dep \in Deps /\ checkout[Dep] \in Checkouts
    BY <1>4, <1>k, <1>t DEF OriginAdded, FetchPlaces
  <2>2. c \in Checkouts /\ c.edited = NoCommit
    BY <1>4, <1>t, <2>1, OriginSet DEF OriginAdded, FetchInv
  <2>3. checkout' = [checkout EXCEPT ![Dep] = c]
    BY <1>4 DEF OriginAdded
  <2> HIDE DEF c
  <2>4. /\ checkout' \in [Deps -> Checkouts] /\ EditsStayWithTheirCommit'
        /\ checkout'[Dep].edited = NoCommit
    BY <1>t, <2>1, <2>2, <2>3, CheckoutChanged
  <2>5. job' \in Fetches /\ job'.pc = "sparse" /\ job'.at = job.at
    BY <1>4, <2>1, FetchMoves DEF OriginAdded, Goto, FetchPlaces
  <2>6. TypeOK'
    BY <1>4, <1>t, <2>4 DEF OriginAdded, TypeOK, Checkouts, refVars
  <2>7. QED
    BY <2>4, <2>5, <2>6 DEF JobTypeOK, FetchInv, Dep
<1>5. CASE SparseConfigured
  <2> DEFINE c == [checkout[Dep] EXCEPT !.sparse = job.commit]
             x == IF checkout[Dep].head = job.commit THEN "submodules" ELSE "checkout"
  <2>1. job \in Fetches /\ Dep \in Deps /\ checkout[Dep] \in Checkouts /\ job.commit \in Commits
    BY <1>5, <1>k, <1>t DEF SparseConfigured, FetchPlaces, Fetches
  <2>2. c \in Checkouts /\ c.edited = checkout[Dep].edited /\ c.head = checkout[Dep].head
    BY <2>1 DEF Checkouts
  <2>3. checkout' = [checkout EXCEPT ![Dep] = c]
    BY <1>5 DEF SparseConfigured
  <2> HIDE DEF c
  <2>4. /\ checkout' \in [Deps -> Checkouts] /\ EditsStayWithTheirCommit'
        /\ checkout'[Dep] = c
    BY <1>t, <2>1, <2>2, <2>3 DEF EditsStayWithTheirCommit
  <2>5. job' \in Fetches /\ job'.pc = x /\ job'.at = job.at
    <3>1. x \in FetchPlaces
      BY DEF FetchPlaces
    <3>2. job' = [job EXCEPT !.pc = x]
      BY <1>5 DEF SparseConfigured, Goto
    <3> HIDE DEF x
    <3>3. QED
      BY <2>1, <3>1, <3>2, FetchMoves
  <2>6. TypeOK'
    BY <1>5, <1>t, <2>4 DEF SparseConfigured, TypeOK, Checkouts, refVars
  <2>7. x = "checkout" => checkout[Dep].edited = NoCommit
    BY <1>5, <1>t DEF SparseConfigured, FetchInv
  <2>8. QED
    BY <2>2, <2>4, <2>5, <2>6, <2>7 DEF JobTypeOK, FetchInv, Dep
<1>6. CASE CommitCheckedOut
  <2> DEFINE c == [checkout[Dep] EXCEPT !.head = job.commit, !.tree = job.commit]
  <2>1. job \in Fetches /\ Dep \in Deps /\ checkout[Dep] \in Checkouts /\ job.commit \in Commits
    BY <1>6, <1>k, <1>t DEF CommitCheckedOut, FetchPlaces, Fetches
  <2>2. c \in Checkouts /\ c.edited = NoCommit
    BY <1>6, <1>t, <2>1, HeadSet DEF CommitCheckedOut, FetchInv
  <2>3. checkout' = [checkout EXCEPT ![Dep] = c]
    BY <1>6 DEF CommitCheckedOut
  <2> HIDE DEF c
  <2>4. checkout' \in [Deps -> Checkouts] /\ EditsStayWithTheirCommit'
    BY <1>t, <2>1, <2>2, <2>3, CheckoutChanged
  <2>5. job' \in Fetches /\ job'.pc = "submodules"
    BY <1>6, <2>1, FetchMoves DEF CommitCheckedOut, Goto, FetchPlaces
  <2>6. TypeOK'
    BY <1>6, <1>t, <2>4 DEF CommitCheckedOut, TypeOK, Checkouts, refVars
  <2>7. QED
    BY <2>4, <2>5, <2>6 DEF JobTypeOK, FetchInv
<1>7. CASE SubmodulesUpdated
  <2> DEFINE v == IF Dep \in WithSubmodules THEN checkout[Dep].head ELSE checkout[Dep].subs
             c == [checkout[Dep] EXCEPT !.subs = v]
  <2>1. job \in Fetches /\ Dep \in Deps /\ checkout[Dep] \in Checkouts
    BY <1>7, <1>k, <1>t DEF SubmodulesUpdated, FetchPlaces
  <2>2. v \in {NoCommit} \cup Commits
    BY <2>1 DEF Checkouts
  <2> HIDE DEF v
  <2>3. c \in Checkouts /\ c.edited = checkout[Dep].edited /\ c.head = checkout[Dep].head
    BY <2>1, <2>2 DEF Checkouts
  <2>4. checkout' = [checkout EXCEPT ![Dep] = c]
    BY <1>7 DEF SubmodulesUpdated, v
  <2> HIDE DEF c
  <2>5. checkout' \in [Deps -> Checkouts] /\ EditsStayWithTheirCommit'
    BY <1>t, <2>1, <2>3, <2>4 DEF EditsStayWithTheirCommit
  <2>6. job' \in Fetches /\ job'.pc = "verify"
    BY <1>7, <2>1, FetchMoves DEF SubmodulesUpdated, Goto, FetchPlaces
  <2>7. TypeOK'
    BY <1>7, <1>t, <2>5 DEF SubmodulesUpdated, TypeOK, Checkouts, refVars
  <2>8. QED
    BY <2>5, <2>6, <2>7 DEF JobTypeOK, FetchInv
<1>8. CASE DependencyVerified \/ DependencyChecked
  <2>1. Dep \in Deps /\ lock[Dep] \in Commits
    BY <1>8, <1>k, <1>t DEF DependencyVerified, DependencyChecked, FetchPlaces
  <2>2. depManifest' \in [Deps -> {NoCommit} \cup Commits]
        /\ UNCHANGED <<lock, checkout, refVars, kills>>
    BY <1>8, <1>t, <2>1 DEF DependencyVerified, DependencyChecked, Verified, TypeOK
  <2>3. job' \in {NoJob} \cup Takings \cup Checks \cup Starts \cup Builds
    <3>1. CASE DependencyVerified
      BY <3>1, <1>k, TakingMoves DEF DependencyVerified, Verified, Onward, FetchPlaces
    <3>2. CASE DependencyChecked
      <4>1. job \in Checks
        BY <3>2, <1>k DEF DependencyChecked
      <4>2. \/ job' \in {NoJob, BuildSpike(FALSE)}
            \/ job.at < job.last /\ job' = [job EXCEPT !.pc = "check", !.at = @ + 1]
        BY <3>2 DEF DependencyChecked, Verified, Onward
      <4>3. BuildSpike(FALSE) \in Starts
        BY DEF BuildSpike, Starts
      <4>4. QED
        BY <4>1, <4>2, <4>3, CheckMoves
    <3>3. QED
      BY <1>8, <3>1, <3>2
  <2>4. QED
    BY <1>t, <1>u, <2>2, <2>3, NotFetching DEF TypeOK, refVars
<1>9. CASE CheckoutKilled
  <2> DEFINE c == [checkout[Dep] EXCEPT !.tree = Torn]
  <2>1. Dep \in Deps /\ checkout[Dep] \in Checkouts /\ Torn \in 0..Torn
    BY <1>9, <1>k, <1>t, ReferencesAssumption DEF CheckoutKilled, FetchPlaces, Torn
  <2>2. c \in Checkouts /\ c.edited = NoCommit
    BY <1>9, <1>t, <2>1 DEF CheckoutKilled, FetchInv, Checkouts
  <2>3. checkout' = [checkout EXCEPT ![Dep] = c]
    BY <1>9 DEF CheckoutKilled
  <2> HIDE DEF c
  <2>4. checkout' \in [Deps -> Checkouts] /\ EditsStayWithTheirCommit'
    BY <1>t, <2>1, <2>2, <2>3, CheckoutChanged
  <2>5. TypeOK'
    BY <1>9, <1>t, <2>4, ReferencesAssumption DEF CheckoutKilled, TypeOK, Checkouts, refVars
  <2>6. QED
    BY <1>9, <2>4, <2>5, NotFetching DEF CheckoutKilled
<1>10. CASE ReferenceBuildStarts
  <2>1. job' \in {NoJob} \cup Builds
    <3>1. DesiredManifest \in [spike : Commits, ibex : Commits]
      BY <1>t, ReferencesAssumption DEF DesiredManifest
    <3>2. job \in Starts /\ job.force \in BOOLEAN
      BY <1>10, <1>k DEF ReferenceBuildStarts, Starts
    <3>3. ASSUME NEW r \in BOOLEAN, NEW b \in BOOLEAN, NEW x \in BuildPlaces
          PROVE  [pc |-> x, reuse |-> r, desired |-> DesiredManifest, sound |-> b] \in Builds
      BY <3>1 DEF Builds
    <3> DEFINE reuse == ~job.force /\ SpikeInstallIsReusable
               b == CheckoutsAreLocked /\ (reuse => sound)
               x == IF reuse THEN "copy" ELSE "remove"
    <3>4. /\ reuse \in BOOLEAN /\ b \in BOOLEAN /\ x \in BuildPlaces
      BY DEF BuildPlaces, SpikeInstallIsReusable
    <3>5. job' \in {NoJob, [pc |-> x, reuse |-> reuse, desired |-> DesiredManifest, sound |-> b]}
      BY <1>10 DEF ReferenceBuildStarts
    <3> HIDE DEF reuse, b, x
    <3>6. QED
      BY <3>3, <3>4, <3>5
  <2>2. QED
    BY <1>10, <1>t, <1>u, <2>1, NotFetching DEF ReferenceBuildStarts, TypeOK, refVars
<1>11. CASE ReferenceRemoved \/ CosimPatched
  <2>1. job \in Builds /\ UNCHANGED <<lock, checkout, depManifest, kills>>
    BY <1>11, <1>k DEF ReferenceRemoved, CosimPatched, BuildPlaces
  <2>2. job' = [job EXCEPT !.pc = "copy"] \/ job' = [job EXCEPT !.pc = "build"]
    BY <1>11 DEF ReferenceRemoved, CosimPatched, Goto
  <2>3. job' \in Builds
    BY <2>1, <2>2, BuildMoves DEF BuildPlaces
  <2>4. CASE ReferenceRemoved
    <3>1. TypeOK'
      BY <2>1, <2>4, <1>t, NothingBuilt DEF ReferenceRemoved, TypeOK
    <3>2. QED
      BY <1>u, <2>1, <2>3, <3>1, NotFetching
  <2>5. CASE CosimPatched
    <3>1. cosim' \in [from : {NoCommit} \cup Commits, patched : BOOLEAN]
      BY <2>5, <1>t, PatchedSet DEF CosimPatched, TypeOK
    <3>2. TypeOK'
      BY <2>1, <2>5, <1>t, <3>1 DEF CosimPatched, TypeOK
    <3>3. QED
      BY <1>u, <2>1, <2>3, <3>2, NotFetching
  <2>6. QED
    BY <1>11, <2>4, <2>5
<1>12. CASE CosimCopied
  <2>1. job \in Builds
    BY <1>12, <1>k DEF CosimCopied, BuildPlaces
  <2>2. job' \in {NoJob} \cup Builds
    BY <1>12, <2>1, BuildMoves DEF CosimCopied, Goto, BuildPlaces
  <2>3. checkout["ibex"].head \in {NoCommit} \cup Commits
    BY <1>t, ReferencesAssumption DEF Checkouts
  <2>4. TypeOK'
    <3>1. cosim' \in [from : {NoCommit} \cup Commits, patched : BOOLEAN]
      <4>1. [from |-> checkout["ibex"].head, patched |-> FALSE]
              \in [from : {NoCommit} \cup Commits, patched : BOOLEAN]
        BY <2>3
      <4>2. QED
        BY <1>12, <4>1, NothingBuilt, Zenon DEF CosimCopied
    <3>2. QED
      BY <1>12, <1>t, <3>1 DEF CosimCopied, TypeOK
  <2>5. QED
    BY <1>12, <1>u, <2>2, <2>4, NotFetching DEF CosimCopied
<1>13. CASE SpikeBuilt
  <2>1. job \in Builds
    BY <1>13, <1>k DEF SpikeBuilt, BuildPlaces
  <2>2. job' \in {NoJob} \cup Builds
    BY <1>13, <2>1, BuildMoves DEF SpikeBuilt, Goto, BuildPlaces
  <2>3. checkout["spike"].head \in 0..Torn
    BY <1>t, ReferencesAssumption DEF Checkouts, Commits, NoCommit, Torn
  <2>4. TypeOK'
    BY <1>13, <1>t, <2>3 DEF SpikeBuilt, TypeOK
  <2>5. QED
    BY <1>13, <1>u, <2>2, <2>4, NotFetching DEF SpikeBuilt
<1>14. CASE ReferenceRecorded
  <2>1. job \in Builds
    BY <1>14, <1>k DEF ReferenceRecorded, BuildPlaces
  <2>2. TypeOK'
    BY <1>14, <1>t, <2>1 DEF ReferenceRecorded, TypeOK, Builds
  <2>3. QED
    BY <1>14, <1>u, <2>2, NotFetching DEF ReferenceRecorded
<1>15. CASE RemovalKilled \/ CosimCopyKilled \/ InstallKilled \/ ScriptKilled
  <2>1. kills' \in 0..MaxKills /\ UNCHANGED <<lock, checkout, depManifest>>
    BY <1>15, <1>t, ReferencesAssumption DEF RemovalKilled, CosimCopyKilled, InstallKilled,
        ScriptKilled, TypeOK
  <2>2. /\ install' \in 0..Torn /\ sound' \in BOOLEAN
        /\ cosim' \in {cosim, NoCosim} /\ refManifest' \in {refManifest, NoRef}
    BY <1>15, <1>t, NothingBuilt DEF RemovalKilled, CosimCopyKilled, InstallKilled, ScriptKilled,
        TypeOK, refVars
  <2>3. TypeOK'
    BY <1>t, <2>1, <2>2, NothingBuilt DEF TypeOK
  <2>4. QED
    BY <1>15, <1>u, <2>1, <2>3, NotFetching DEF RemovalKilled, CosimCopyKilled, InstallKilled, ScriptKilled
<1>16. CASE \E d \in Deps : LockEdited(d)
  BY <1>16, <1>t, <1>e DEF LockEdited, TypeOK, refVars
<1>17. CASE \E d \in Deps : CheckoutEdited(d)
  <2>1. PICK d \in Deps : CheckoutEdited(d)
    BY <1>17
  <2> DEFINE c == [checkout[d] EXCEPT !.edited = checkout[d].head]
  <2>2. checkout[d] \in Checkouts
    BY <1>t
  <2>3. c \in Checkouts /\ c.edited = c.head
    BY <2>2 DEF Checkouts
  <2>4. checkout' = [checkout EXCEPT ![d] = c] /\ job' = NoJob
    BY <2>1 DEF CheckoutEdited
  <2> HIDE DEF c
  <2>5. checkout' \in [Deps -> Checkouts] /\ EditsStayWithTheirCommit'
    BY <1>t, <2>3, <2>4 DEF EditsStayWithTheirCommit
  <2>6. TypeOK'
    BY <2>1, <1>t, <2>5 DEF CheckoutEdited, TypeOK, Checkouts, refVars
  <2>7. QED
    BY <2>4, <2>5, <2>6, NotFetching
<1>18. CASE \E d \in Deps : CheckoutReset(d)
  <2>1. PICK d \in Deps : CheckoutReset(d)
    BY <1>18
  <2> DEFINE old == checkout[d]
             new == [old EXCEPT !.edited = NoCommit, !.tree = old.head,
                                !.subs = IF @ = NoCommit THEN @ ELSE old.head]
  <2>2. old \in Checkouts
    BY <1>t
  <2>3. new \in Checkouts /\ new.edited = NoCommit
    BY <2>2, FilesReset
  <2>4. checkout' = [checkout EXCEPT ![d] = new] /\ job' = NoJob
    BY <2>1 DEF CheckoutReset
  <2> HIDE DEF new
  <2>5. checkout' \in [Deps -> Checkouts] /\ EditsStayWithTheirCommit'
    BY <1>t, <2>3, <2>4, CheckoutChanged
  <2>6. TypeOK'
    BY <2>1, <1>t, <2>5 DEF CheckoutReset, TypeOK, Checkouts, refVars
  <2>7. QED
    BY <2>4, <2>5, <2>6, NotFetching
<1>19. CASE \E d \in Deps : CheckoutReplaced(d)
  <2>1. PICK d \in Deps, c \in {Absent, Foreign} : job' = NoJob
             /\ checkout' = [checkout EXCEPT ![d] = c]
    BY <1>19 DEF CheckoutReplaced
  <2>2. c \in Checkouts /\ c.edited = NoCommit
    BY ZenonT(30), AbsentFields, DirSet DEF Foreign
  <2>3. checkout' \in [Deps -> Checkouts] /\ EditsStayWithTheirCommit'
    BY <1>t, <2>1, <2>2, CheckoutChanged
  <2>4. TypeOK'
    BY <1>19, <1>t, <2>3 DEF CheckoutReplaced, TypeOK, Checkouts, refVars
  <2>5. QED
    BY <2>1, <2>3, <2>4, NotFetching
<1>20. CASE CleanAll
  <2>1. TypeOK' /\ UNCHANGED <<checkout, job>>
    BY <1>20, <1>t, ReferencesAssumption DEF CleanAll, TypeOK, NoCosim, NoRef, NoCommit, Torn
  <2>2. QED
    BY <1>e, <2>1
<1>21. CASE UNCHANGED vars
  BY <1>21, <1>t, <1>e DEF vars, TypeOK, refVars
<1>22. QED
  BY <1>1, <1>2, <1>3, <1>4, <1>5, <1>6, <1>7, <1>8, <1>9, <1>10, <1>11, <1>12, <1>13, <1>14,
      <1>15, <1>16, <1>17, <1>18, <1>19, <1>20, <1>21 DEF Next, FetchStep, BuildStep

\* A command that is not building, beside an unchanged reference model and a lock that has
\* not gone back, keeps the record.
LEMMA ReferenceUntouched ==
    ASSUME TypeOK, lock' \in [Deps -> Commits], lock["ibex"] <= lock'["ibex"], RecordInv, UNCHANGED refVars
    PROVE  RecordInv'
<1>1. lock["ibex"] \in Nat /\ lock'["ibex"] \in Nat /\ refManifest.ibex \in Nat
  BY ReferencesAssumption DEF TypeOK, Commits, NoCommit
<1>2. QED
  BY <1>1 DEF RecordInv, refVars

LEMMA NotBuilding == ASSUME job'.pc \notin BuildPlaces PROVE BuildInv'
BY DEF BuildInv

\* And every command of a build keeps the reference model pinned, when locks only go forward.
LEMMA ReferencePreserved ==
    ~Reverts /\ ReferenceInv /\ [Next]_vars => RecordInv' /\ BuildInv'
<1> SUFFICES ASSUME ~Reverts, ReferenceInv, [Next]_vars PROVE RecordInv' /\ BuildInv'
  OBVIOUS
<1>k. /\ job.pc = "fetch" => job \in Takings
      /\ job.pc \in FetchPlaces => job \in Fetches
      /\ job.pc = "check" => job \in Checks
      /\ job.pc = "spike" => job \in Starts
      /\ job.pc \in BuildPlaces => job \in Builds
  BY JobKinds DEF ReferenceInv, CheckoutIInv
<1>t. TypeOK /\ JobTypeOK /\ RecordInv /\ BuildInv
  BY DEF ReferenceInv, CheckoutIInv
<1>l. lock \in [Deps -> Commits] /\ lock["ibex"] \in Nat \ {0} /\ lock["spike"] \in Nat \ {0}
  BY <1>t, ReferencesAssumption DEF TypeOK, Commits
<1>m. refManifest.ibex \in Nat /\ refManifest.spike \in Nat
  BY <1>t, ReferencesAssumption DEF TypeOK, Commits, NoCommit
<1>r. ASSUME UNCHANGED <<lock, refVars>> PROVE RecordInv'
  BY <1>t, <1>r DEF RecordInv, refVars
<1>n. NoJob.pc \notin BuildPlaces
  BY DEF NoJob, BuildPlaces
<1>1. CASE FetchStarts \/ FetchOneStarts \/ DepsCheckStarts \/ BuildStartedByHand
  <2>1. job'.pc \notin BuildPlaces /\ UNCHANGED <<lock, refVars>>
    BY <1>1 DEF FetchStarts, FetchOneStarts, DepsCheckStarts, BuildStartedByHand, BuildSpike,
        BuildPlaces
  <2>2. QED
    BY <1>r, <2>1, NotBuilding
<1>2. CASE DependencyTaken
  <2>1. job \in Takings
    BY <1>2, <1>k DEF DependencyTaken
  <2>2. job'.pc \notin BuildPlaces /\ UNCHANGED <<lock, refVars>>
    BY <1>2, <1>n, <2>1 DEF DependencyTaken, BuildPlaces, Takings
  <2>3. QED
    BY <1>r, <2>2, NotBuilding
<1>3. CASE RepositoryInitialised \/ OriginAdded \/ SparseConfigured \/ CommitCheckedOut
           \/ SubmodulesUpdated
  <2>1. job \in Fetches /\ UNCHANGED <<lock, refVars>>
    BY <1>3, <1>k DEF RepositoryInitialised, OriginAdded, SparseConfigured, CommitCheckedOut,
        SubmodulesUpdated, FetchPlaces
  <2>2. \E x \in FetchPlaces : job' = [job EXCEPT !.pc = x]
    BY <1>3 DEF RepositoryInitialised, OriginAdded, SparseConfigured, CommitCheckedOut,
        SubmodulesUpdated, FetchPlaces, Goto
  <2>3. job'.pc \notin BuildPlaces
    BY <2>1, <2>2, FetchMoves DEF FetchPlaces, BuildPlaces
  <2>4. QED
    BY <1>r, <2>1, <2>3, NotBuilding
<1>4. CASE DependencyVerified \/ DependencyChecked
  <2>1. UNCHANGED <<lock, refVars>>
    BY <1>4 DEF DependencyVerified, DependencyChecked, Verified
  <2>2. job' \in {NoJob} \cup Takings \cup Checks \cup Starts
    <3>1. CASE DependencyVerified
      BY <3>1, <1>k, TakingMoves DEF DependencyVerified, Verified, Onward, FetchPlaces
    <3>2. CASE DependencyChecked
      <4>1. job \in Checks
        BY <3>2, <1>k DEF DependencyChecked
      <4>2. \/ job' \in {NoJob, BuildSpike(FALSE)}
            \/ job.at < job.last /\ job' = [job EXCEPT !.pc = "check", !.at = @ + 1]
        BY <3>2 DEF DependencyChecked, Verified, Onward
      <4>3. BuildSpike(FALSE) \in Starts
        BY DEF BuildSpike, Starts
      <4>4. QED
        BY <4>1, <4>2, <4>3, CheckMoves
    <3>3. QED
      BY <1>4, <3>1, <3>2
  <2>3. job'.pc \notin BuildPlaces
    BY <1>n, <2>2 DEF Takings, Checks, Starts, BuildPlaces
  <2>4. QED
    BY <1>r, <2>1, <2>3, NotBuilding
<1>5. CASE CheckoutKilled \/ ScriptKilled
  <2>1. job'.pc \notin BuildPlaces /\ UNCHANGED <<lock, refVars>>
    BY <1>5, <1>n DEF CheckoutKilled, ScriptKilled
  <2>2. QED
    BY <1>r, <2>1, NotBuilding
<1>6. CASE ReferenceBuildStarts
  <2>1. UNCHANGED <<lock, checkout, refVars>>
    BY <1>6 DEF ReferenceBuildStarts
  <2> DEFINE reuse == ~job.force /\ SpikeInstallIsReusable
             b == CheckoutsAreLocked /\ (reuse => sound)
             x == IF reuse THEN "copy" ELSE "remove"
             r == [pc |-> x, reuse |-> reuse, desired |-> DesiredManifest, sound |-> b]
  <2>2. job' = NoJob \/ (job' = r /\ (job.force \/ ~IsCurrent))
    BY <1>6 DEF ReferenceBuildStarts
  <2>3. /\ r.pc = x /\ r.reuse = reuse /\ r.sound = b
        /\ r.desired.spike = lock["spike"] /\ r.desired.ibex = lock["ibex"]
    BY DEF DesiredManifest
  <2>4. ASSUME job' = r, job.force \/ ~IsCurrent PROVE BuildInv'
    <3>1. /\ job'.pc = x /\ job'.reuse = reuse /\ job'.sound = b
          /\ job'.desired.spike = lock["spike"] /\ job'.desired.ibex = lock["ibex"]
      BY <2>3, <2>4
    <3>2. b => /\ checkout["spike"].head = lock["spike"] /\ checkout["ibex"].head = lock["ibex"]
      BY DEF CheckoutsAreLocked
    <3>3. ASSUME reuse, sound
          PROVE  install = lock["spike"] /\ refManifest.ibex < lock["ibex"]
      <4>1. refManifest.spike = lock["spike"] /\ install # NoCommit
        BY <3>3 DEF SpikeInstallIsReusable, DesiredManifest
      <4>2. refManifest # NoRef
        BY <4>1, <1>l DEF NoRef, NoCommit
      <4>3. install = lock["spike"] /\ refManifest.ibex <= lock["ibex"]
        BY <1>t, <3>3, <4>1, <4>2 DEF RecordInv
      <4>4. CASE refManifest.ibex = lock["ibex"]
        <5>1. cosim = [from |-> lock["ibex"], patched |-> TRUE]
          BY <1>t, <1>l, <3>3, <4>2, <4>4 DEF RecordInv
        <5>2. cosim # NoCosim
          BY <1>l, <5>1 DEF NoCosim, NoCommit
        <5>3. refManifest = DesiredManifest
          BY <1>t, <4>1, <4>4 DEF DesiredManifest, TypeOK
        <5>4. QED
          BY <2>4, <3>3, <4>1, <5>2, <5>3 DEF IsCurrent
      <4>5. QED
        BY <1>l, <1>m, <4>3, <4>4
    <3>4. reuse => SpikeInstallIsReusable
      OBVIOUS
    <3> HIDE DEF reuse, r
    <3>5. x = "copy" <=> reuse
      OBVIOUS
    <3>6. x = "remove" <=> ~reuse
      OBVIOUS
    <3>7. b /\ reuse => install = lock["spike"]
      BY <3>3
    <3>8. reuse /\ sound => refManifest.ibex < lock["ibex"]
      BY <3>3
    <3> HIDE DEF x, b
    <3>9. x \in {"copy", "remove"}
      BY <3>5, <3>6
    <3>10. QED
      BY <1>l, <2>1, <3>1, <3>2, <3>5, <3>6, <3>7, <3>8, <3>9 DEF BuildInv, refVars
  <2>5. QED
    BY <1>n, <1>r, <2>1, <2>2, <2>4, NotBuilding
<1>7. CASE ReferenceRemoved
  <2>1. job \in Builds /\ job.pc = "remove"
    BY <1>7, <1>k DEF ReferenceRemoved, BuildPlaces
  <2>2. /\ job'.pc = "copy" /\ job'.reuse = job.reuse
        /\ job'.desired = job.desired /\ job'.sound = job.sound
    BY <1>7, <2>1, BuildMoves DEF ReferenceRemoved, Goto, BuildPlaces
  <2>3. QED
    BY <1>7, <1>t, <2>1, <2>2 DEF ReferenceRemoved, RecordInv, BuildInv, BuildPlaces
<1>8. CASE RemovalKilled
  <2>1. sound' = (refManifest' = NoRef) /\ refManifest' \in {NoRef, refManifest} /\ lock' = lock
    BY <1>8 DEF RemovalKilled
  <2>2. refManifest' # NoRef => ~sound' /\ refManifest' = refManifest
    BY <2>1
  <2>3. RecordInv'
    BY <1>t, <2>1, <2>2 DEF RecordInv
  <2>4. QED
    BY <1>8, <1>n, <2>3, NotBuilding DEF RemovalKilled
<1>9. CASE CosimCopied \/ CosimCopyKilled
  <2>1. job \in Builds /\ job.pc = "copy" /\ UNCHANGED <<lock, checkout, install, refManifest, sound>>
    BY <1>9, <1>k DEF CosimCopied, CosimCopyKilled, BuildPlaces
  <2>2. RecordInv'
    BY <1>t, <2>1 DEF RecordInv, BuildInv, BuildPlaces
  <2>3. CASE job' = NoJob
    BY <1>n, <2>2, <2>3, NotBuilding
  <2>4. CASE job' = [job EXCEPT !.pc = "patch"]
             /\ cosim' = [from |-> checkout["ibex"].head, patched |-> FALSE]
    <3>1. /\ job'.pc = "patch" /\ job'.reuse = job.reuse
          /\ job'.desired = job.desired /\ job'.sound = job.sound
      BY <2>1, <2>4, BuildMoves DEF BuildPlaces
    <3>2. cosim'.from = checkout["ibex"].head
      BY <2>4
    <3>3. QED
      BY <1>t, <2>1, <2>2, <3>1, <3>2 DEF BuildInv, BuildPlaces
  <2>5. QED
    BY <1>9, <2>3, <2>4 DEF CosimCopied, CosimCopyKilled, Goto
<1>10. CASE CosimPatched
  <2>1. job \in Builds /\ job.pc = "patch" /\ UNCHANGED <<lock, checkout, install, refManifest, sound>>
    BY <1>10, <1>k DEF CosimPatched, BuildPlaces
  <2>2. /\ job'.pc = "build" /\ job'.reuse = job.reuse
        /\ job'.desired = job.desired /\ job'.sound = job.sound
    BY <1>10, <2>1, BuildMoves DEF CosimPatched, Goto, BuildPlaces
  <2>3. cosim' = [from |-> cosim.from, patched |-> TRUE]
    BY <1>10, <1>t, PatchedSet DEF CosimPatched, TypeOK
  <2>4. RecordInv'
    BY <1>t, <2>1 DEF RecordInv, BuildInv, BuildPlaces
  <2>5. QED
    BY <1>t, <2>1, <2>2, <2>3, <2>4 DEF BuildInv, BuildPlaces
<1>11. CASE SpikeBuilt \/ InstallKilled
  <2>1. job \in Builds /\ job.pc = "build" /\ UNCHANGED <<lock, checkout, cosim, refManifest, sound>>
    BY <1>11, <1>k DEF SpikeBuilt, InstallKilled, BuildPlaces
  <2>2. job.reuse => install' = install
    BY <1>11 DEF SpikeBuilt, InstallKilled
  <2>3. RecordInv'
    BY <1>t, <2>1, <2>2 DEF RecordInv, BuildInv, BuildPlaces
  <2>4. CASE job' = NoJob
    BY <1>n, <2>3, <2>4, NotBuilding
  <2>5. CASE job' = [job EXCEPT !.pc = "record"]
             /\ install' = IF job.reuse THEN install ELSE checkout["spike"].head
    <3>1. /\ job'.pc = "record" /\ job'.reuse = job.reuse
          /\ job'.desired = job.desired /\ job'.sound = job.sound
      BY <2>1, <2>5, BuildMoves DEF BuildPlaces
    <3>2. QED
      BY <1>t, <2>1, <2>3, <2>5, <3>1 DEF BuildInv, BuildPlaces
  <2>6. QED
    BY <1>11, <2>4, <2>5 DEF SpikeBuilt, InstallKilled, Goto
<1>12. CASE ReferenceRecorded
  <2>1. job \in Builds /\ job.pc = "record"
    BY <1>12, <1>k DEF ReferenceRecorded, BuildPlaces
  <2>2. job.desired.spike \in Nat \ {0} /\ job.desired.ibex \in Nat \ {0}
    BY <2>1, ReferencesAssumption DEF Builds, Commits
  <2>3. /\ job.desired.ibex <= lock["ibex"]
        /\ job.sound => install = job.desired.spike
                        /\ cosim = [from |-> job.desired.ibex, patched |-> TRUE]
    BY <1>t, <2>1 DEF BuildInv, BuildPlaces
  <2>4. /\ refManifest' = job.desired /\ sound' = job.sound
        /\ UNCHANGED <<lock, install, cosim>> /\ job' = NoJob
    BY <1>12 DEF ReferenceRecorded
  <2>5. RecordInv'
    BY <2>2, <2>3, <2>4 DEF RecordInv, NoCommit
  <2>6. QED
    BY <1>n, <2>4, <2>5, NotBuilding
<1>13. CASE \E d \in Deps : LockEdited(d)
  <2>1. UNCHANGED <<checkout, refVars, job>> /\ lock' \in [Deps -> Commits]
        /\ lock["ibex"] <= lock'["ibex"]
    BY <1>13, <1>l, ReferencesAssumption DEF LockEdited, Commits
  <2>2. RecordInv'
    BY <1>t, <2>1, ReferenceUntouched
  <2>3. lock'["ibex"] \in Nat
    BY <2>1, ReferencesAssumption DEF Commits
  <2>4. job.pc \in BuildPlaces => job.desired.ibex \in Nat
    BY <1>k, ReferencesAssumption DEF Builds, Commits
  <2>5. BuildInv'
    BY <1>t, <1>l, <1>m, <2>1, <2>3, <2>4 DEF BuildInv, refVars
  <2>6. QED
    BY <2>2, <2>5
<1>14. CASE \E d \in Deps : CheckoutEdited(d) \/ CheckoutReset(d) \/ CheckoutReplaced(d)
  <2>1. UNCHANGED <<lock, refVars>> /\ job' = NoJob
    BY <1>14 DEF CheckoutEdited, CheckoutReset, CheckoutReplaced
  <2>2. QED
    BY <1>n, <1>r, <2>1, NotBuilding
<1>15. CASE CleanAll
  BY <1>15, <1>n, NotBuilding DEF CleanAll, RecordInv
<1>16. CASE UNCHANGED vars
  BY <1>16, <1>t DEF vars, refVars, RecordInv, BuildInv
<1>17. QED
  BY <1>1, <1>2, <1>3, <1>4, <1>5, <1>6, <1>7, <1>8, <1>9, <1>10, <1>11, <1>12, <1>13, <1>14,
      <1>15, <1>16 DEF Next, FetchStep, BuildStep

-----------------------------------------------------------------------------
\* The records of checkouts and builds have their types, and make deps never carries what
\* the developer changed to another commit, however it is interrupted
\* (fetch_dependencies.py fetch_one).
THEOREM EditsStay == Spec => []CheckoutInv
<1>1. Init => CheckoutIInv
  BY ReferenceInitInv DEF ReferenceInv
<1>2. CheckoutIInv => CheckoutInv
  BY DEF CheckoutIInv, CheckoutInv
<1>3. QED
  BY <1>1, <1>2, CheckoutPreserved, PTL DEF Spec

\* If the lock files never go back to an earlier commit, a reference model that is_current
\* accepts is the one they name: Spike of the locked commit and the locked co-simulation
\* files, patched, whatever builds were cut short before (build_spike.py); provided that
\* the build it records found the repositories at the commits the lock files named when
\* it read them, as it does after deps-check unless a lock file is edited in between.
THEOREM ReusedReferenceIsPinned ==
    ASSUME ~Reverts PROVE Spec => []CurrentReferenceIsPinned
<1>1. ReferenceInv /\ [Next]_vars => ReferenceInv'
  BY CheckoutPreserved, ReferencePreserved DEF ReferenceInv
<1>2. ReferenceInv => CurrentReferenceIsPinned
  <2> SUFFICES ASSUME ReferenceInv, IsCurrent, sound
               PROVE  install = lock["spike"] /\ cosim = [from |-> lock["ibex"], patched |-> TRUE]
    BY DEF CurrentReferenceIsPinned
  <2>1. refManifest.spike = lock["spike"] /\ refManifest.ibex = lock["ibex"]
    BY DEF IsCurrent, DesiredManifest
  <2>2. lock["ibex"] \in Nat \ {0}
    BY ReferencesAssumption DEF ReferenceInv, CheckoutIInv, TypeOK, Commits
  <2>3. refManifest # NoRef
    BY <2>1, <2>2 DEF NoRef, NoCommit
  <2>4. QED
    BY <2>1, <2>2, <2>3 DEF ReferenceInv, RecordInv
<1>3. QED
  BY <1>1, <1>2, ReferenceInitInv, PTL DEF Spec
=============================================================================
