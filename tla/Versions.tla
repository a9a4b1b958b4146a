------------------------------- MODULE Versions -----------------------------
(***************************************************************************)
(* The version command (main.rs: calculate_version; version.rs, git.rs,    *)
(* channels.rs) in the release jobs of README.md: a job checks a branch    *)
(* out, asks for the next version and publishes it as a tag.  Commits,     *)
(* merges and other jobs happen in between.                                *)
(*                                                                         *)
(* A branch is a sequence of names, and its state the set of commits that  *)
(* can be reached from it; a tag keeps the set its commit had.             *)
(***************************************************************************)
EXTENDS Naturals, FiniteSets, Sequences, SequencesExt, FiniteSetsExt

CONSTANTS
  Branches,     \* the branches of the repository
  Channels,     \* [channels]: records of a pattern, whether it ends in *, and a config
  Overrides,    \* what may be given as --channel
  NoChannel,    \* no override; and the channel of a stable version
  Messages,     \* commits: the type of the subject, and where it says "breaking"
  FirstTags,    \* the tags there may be at first
  Jobs,         \* the release jobs
  Waiting,      \* a job that has not calculated a version
  MaxCommits,   \* bounds the commits made
  MaxTags       \* bounds the tags published

VARIABLES
  messages,     \* the commits, in the order they were made
  heads,        \* the commits of each branch
  tags,         \* the tags published
  jobs          \* the tag each release job is about to push

versionVars == <<messages, heads, tags, jobs>>

Main == <<"main">>

Prerelease(base, channel, number) == [base |-> base, channel |-> channel, number |-> number]

Stable(base) == Prerelease(base, NoChannel, 0)

Tag(version, commits, branch) == [version |-> version, commits |-> commits, branch |-> branch]

-----------------------------------------------------------------------------

(* channels.rs, version.rs and git.rs *)

(***************************************************************************)
(* resolve_channel: the channels a branch may get.  Patterns are kept in a *)
(* hash map, so that of several that match any may be found first.         *)
(***************************************************************************)
ResolveChannel(branch) ==
  LET Exact == {c \in Channels : ~ c.glob /\ c.pattern = branch}
      Globs == {c \in Channels : c.glob /\ IsPrefix(c.pattern, branch)}
  IN  {c.config : c \in IF Exact # {} THEN Exact ELSE Globs}

ConfigsOf(branch, override) ==
  IF override = NoChannel THEN ResolveChannel(branch)
  ELSE {[channel |-> override, prerelease |-> override # "production"]}

\* Whether version a comes before b, both without prerelease.
Lower(a, b) ==
  \E i \in 1 .. 3 : a[i] < b[i] /\ \A k \in 1 .. i - 1 : a[k] = b[k]

(***************************************************************************)
(* get_latest_production_tag: the highest, wherever it is.                 *)
(***************************************************************************)
ProductionTags(seen) == {t \in seen : t.version.channel = NoChannel}

LatestProductionTag(seen) ==
  CHOOSE t \in ProductionTags(seen) :
    \A u \in ProductionTags(seen) : ~ Lower(t.version.base, u.version.base)

\* Without one, versions start from 0.0.0 and all commits count.
Nothing == Tag(Stable(<<0, 0, 0>>), {}, Main)

Latest(seen) == IF ProductionTags(seen) = {} THEN Nothing ELSE LatestProductionTag(seen)

\* Faulty: of the commits since then only the last one.
LatestCommitSince(commits, seen) ==
  LET since == commits \ Latest(seen).commits
  IN  {c \in since : \A d \in since : d <= c}

CommitsSince(commits, seen) == commits \ Latest(seen).commits

(***************************************************************************)
(* calculate_next_version of one subject: 0 for no release, then patch,    *)
(* minor and major.  Only subjects are read, not the bodies.               *)
(***************************************************************************)
Bump(message) ==
  IF message.breaking = "subject" THEN 3
  ELSE CASE message.type = "feat" -> 2
         [] message.type = "fix"  -> 1
         [] OTHER                 -> 0

Bumped(base, bump) ==
  [i \in 1 .. 3 |-> IF i < 4 - bump THEN base[i] ELSE IF i = 4 - bump THEN base[i] + 1 ELSE 0]

\* Faulty: how many there are.
NumberOfPrereleases(seen, base, channel) ==
  Cardinality({t \in seen : t.version.base = base /\ t.version.channel = channel})

\* Faulty: the highest without a gap below it.
LastBeforeGap(seen, base, channel) ==
  LET numbers == {0} \cup {t.version.number : t \in {t \in seen : /\ t.version.base = base
                                                               /\ t.version.channel = channel}}
  IN  Min({n \in numbers : n + 1 \notin numbers})

(***************************************************************************)
(* get_existing_prerelease_count: the highest number, not how many.        *)
(***************************************************************************)
ExistingPrereleaseCount(seen, base, channel) ==
  Max({0} \cup {t.version.number : t \in {t \in seen : /\ t.version.base = base
                                                       /\ t.version.channel = channel}})

(***************************************************************************)
(* One branch publishes versions without a channel, and a channel has a    *)
(* name.                                                                   *)
(***************************************************************************)
ASSUME ChannelsAssumption ==
  \A b \in Branches, o \in Overrides \cup {NoChannel} : \A config \in ConfigsOf(b, o) :
    /\ config.prerelease \in BOOLEAN
    /\ config.channel # NoChannel
    /\ config.prerelease \/ b = Main

Bases == [1 .. 3 -> Nat]

(***************************************************************************)
(* The tags there are at first are of the first commit, which asks for no  *)
(* release: those of main, and prereleases at most a patch above them.     *)
(***************************************************************************)
ASSUME FirstTagsAssumption ==
  \A first \in FirstTags :
    /\ IsFiniteSet(first)
    /\ \A t \in first :
         /\ t = Tag(Prerelease(t.version.base, t.version.channel, t.version.number), {1}, t.branch)
         /\ t.version.base \in Bases /\ t.version.number \in Nat /\ t.branch \in Branches
         /\ IF t.version.channel = NoChannel
            THEN t.version.number = 0 /\ t.branch = Main
            ELSE \E r \in IF ProductionTags(first) = {} THEN {Nothing} ELSE ProductionTags(first) :
                   t.version.base = Bumped(r.version.base, 1)
    /\ \A t, u \in first : t.version = u.version => t = u

-----------------------------------------------------------------------------

InitVersions ==
  /\ messages = <<[type |-> "other", breaking |-> "no"]>>
  /\ heads = [b \in Branches |-> {1}]
  /\ tags \in FirstTags
  /\ jobs = [j \in Jobs |-> Waiting]

(***************************************************************************)
(* What happens around the program.  Branches without a channel stay as    *)
(* they are: what is done there counts only once it is merged.             *)
(***************************************************************************)
Commit(b) ==
  /\ Len(messages) < MaxCommits /\ ResolveChannel(b) # {}
  /\ \E m \in Messages : messages' = Append(messages, m)
  /\ heads' = [heads EXCEPT ![b] = @ \cup {Len(messages')}]
  /\ UNCHANGED <<tags, jobs>>

Merge(from, to) ==
  /\ ~ heads[from] \subseteq heads[to] /\ ResolveChannel(to) # {}
  /\ heads' = [heads EXCEPT ![to] = @ \cup heads[from]]
  /\ UNCHANGED <<messages, tags, jobs>>

(***************************************************************************)
(* calculate_version, of the commits and tags that the job checked out.    *)
(* No commits are an error, as is a branch without a channel, and none     *)
(* that warrants a release is the answer that there is nothing to release. *)
(***************************************************************************)
Calculate(j) ==
  /\ jobs[j] = Waiting
  /\ \E branch \in Branches, override \in Overrides \cup {NoChannel} :
       \/ ConfigsOf(branch, override) = {} /\ UNCHANGED jobs
       \/ \E config \in ConfigsOf(branch, override) :
            LET since   == CommitsSince(heads[branch], tags)
                bump    == Max({0} \cup {Bump(messages[c]) : c \in since})
                base    == Bumped(Latest(tags).version.base, bump)
                number  == ExistingPrereleaseCount(tags, base, config.channel) + 1
                version == IF config.prerelease THEN Prerelease(base, config.channel, number)
                           ELSE Stable(base)
            IN  jobs' = IF since = {} \/ bump = 0 THEN jobs
                        ELSE [jobs EXCEPT ![j] = Tag(version, heads[branch], branch)]
  /\ UNCHANGED <<messages, heads, tags>>

(***************************************************************************)
(* The job pushes the tag, which is refused if there is one of this name.  *)
(***************************************************************************)
PushTag(j) ==
  /\ jobs[j] # Waiting /\ Cardinality(tags) < MaxTags
  /\ LET job == jobs[j]
     IN  tags' = IF job.version \in {t.version : t \in tags} THEN tags
                 ELSE tags \cup {job}
  /\ jobs' = [jobs EXCEPT ![j] = Waiting]
  /\ UNCHANGED <<messages, heads>>

NextVersions ==
  \/ \E b \in Branches : Commit(b)
  \/ \E from, to \in Branches : Merge(from, to)
  \/ \E j \in Jobs : Calculate(j) \/ PushTag(j)

SpecVersions == InitVersions /\ [][NextVersions]_versionVars

-----------------------------------------------------------------------------

\* In the order of semantic versions: a prerelease comes before its release.
Precedes(a, b) ==
  \/ Lower(a.base, b.base)
  \/ a.base = b.base /\ a.channel # NoChannel /\ b.channel = NoChannel
  \/ a.base = b.base /\ a.channel # NoChannel /\ a.channel = b.channel /\ a.number < b.number

(***************************************************************************)
(* A version that was calculated is above every production version and     *)
(* every version of its own channel and branch that were there to see, so  *)
(* that a job is refused only if it was raced.                             *)
(***************************************************************************)
CalculatedIsHighest ==
  [][\A j \in Jobs : jobs[j] = Waiting /\ jobs'[j] # Waiting =>
       \A t \in tags :
         \/ t.version.channel = NoChannel
         \/ t.version.channel = jobs'[j].version.channel /\ t.branch = jobs'[j].branch
         => Precedes(t.version, jobs'[j].version)]_versionVars

\* What version says compared with a lower one: 1 to 3 for patch to major.
Step(from, to) == 4 - Min({i \in 1 .. 3 : from[i] # to[i]})

(***************************************************************************)
(* Semantic versioning across all releases, in whatever order the jobs     *)
(* published them: what a release of main has over a lower one makes as    *)
(* big a step as the biggest of its commits wants (README.md:503-511).     *)
(***************************************************************************)
Production(t) == t.version.channel = NoChannel /\ t.branch = Main

VersionsFollowSemVer ==
  \A u, v \in {t \in tags : Production(t)} :
    Lower(u.version.base, v.version.base) =>
      \A c \in v.commits \ u.commits :
        Bump(messages[c]) <= Step(u.version.base, v.version.base)

(***************************************************************************)
(* A higher prerelease of the same version, channel and branch has all the *)
(* commits of a lower one, whichever jobs ran at the same time.            *)
(***************************************************************************)
PrereleasesAdvance ==
  \A u, v \in tags :
      /\ u.branch = v.branch /\ u.version.channel # NoChannel
      /\ [u.version EXCEPT !.number = 0] = [v.version EXCEPT !.number = 0]
      /\ u.version.number < v.version.number
      => u.commits \subseteq v.commits

(***************************************************************************)
(* "A BREAKING CHANGE footer on any type produces a major bump"            *)
(* (README.md:507).                                                        *)
(***************************************************************************)
BreakingFooterIsMajor ==
  \A u, v \in {t \in tags : Production(t)} :
    Lower(u.version.base, v.version.base) =>
      \A c \in v.commits \ u.commits :
        messages[c].breaking # "no" => Step(u.version.base, v.version.base) = 3

=============================================================================
