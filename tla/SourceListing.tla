----------------------------- MODULE SourceListing -----------------------------
(***************************************************************************)
(* How a build learns what its sources are: connectors list and fetch over *)
(* requests that fail and are retried, while the sources move, and what    *)
(* the build never saw is swept.  Source: kb-builder connectors/*,         *)
(* application/build_runner.py, application/invalidation.py, build.py.     *)
(*                                                                         *)
(* The session commits with every changed source; rows of unchanged ones   *)
(* are touched and wait for the next commit.  A second builder may write   *)
(* while this one runs (the lock can be lost, BuildLifecycle).             *)
(*                                                                         *)
(* Abstractions.  Contents are numbers, 0 is none.  Documents stand for    *)
(* all path sources of a pinned tree; code is graphified as a whole, in    *)
(* IncrementalBuild.  The requests that find the head of a wiki are one.   *)
(***************************************************************************)
EXTENDS Integers, FiniteSets, Sequences, SequencesExt

CONSTANTS
  Blobs, Pages, Cards, Shas,     \* documents, wiki pages, cards; Shas: sequence of commits
  FeedPlans,                     \* configurations: sequences of "docs", "wiki", "cards", "commits"
  Acls,                          \* values of acl_teams
  TreeCap, CardCap, Batch,       \* limits of the services: a tree, a query, ids per request
  Window,                        \* max_commits
  MaxRetries,
  MaxMoves, MaxOutages, MaxListings   \* bounds: edits, faults, builds

Items == Blobs \union Pages \union Cards \union ToSet(Shas)

Feeds == {"docs", "wiki", "cards", "commits"}

FeedOf(s) == CASE s \in Blobs -> "docs" [] s \in Pages -> "wiki" [] s \in Cards -> "cards"
             [] OTHER -> "commits"

ASSUME ListingAssumption ==
  /\ Shas \in Seq(ToSet(Shas)) /\ Shas # <<>>
  /\ \A plan \in FeedPlans : plan \in Seq(Feeds) /\ plan # <<>>
  /\ Blobs \intersect (Pages \union Cards \union ToSet(Shas)) = {}
  /\ Pages \intersect (Cards \union ToSet(Shas)) = {} /\ Cards \intersect ToSet(Shas) = {}
  /\ MaxRetries \in Nat /\ TreeCap \in Nat /\ CardCap \in Nat /\ Window \in Nat
  /\ Batch \in Nat \ {0} /\ Acls # {}

VARIABLES
  remote,      \* the services: [trees, pages, head, cards, log]
  config,      \* sources.yaml: [plan, acl, hidden]
  rows, sess,  \* source_item: committed, and as the session sees it
  lrun,        \* the progress of the build
  other,       \* the transaction of another builder
  clock, moves, outages, listings

listingVars == <<remote, config, rows, sess, lrun, other, clock, moves, outages, listings>>

--------------------------------------------------------------------------------
(* The services *)

Pick(S, n) == {T \in SUBSET S : Cardinality(T) = IF Cardinality(S) < n THEN Cardinality(S) ELSE n}

CurrentTree == Last(remote.trees)
Committed == {Shas[i] : i \in 1..remote.log}

ContentNow(s) ==
  CASE s \in Blobs -> CurrentTree[s] [] s \in Pages -> remote.pages[s]
    [] s \in Cards -> remote.cards[s] [] OTHER -> IF s \in Committed THEN 1 ELSE 0

VersionNow(s) ==
  CASE s \in Blobs -> Len(remote.trees) [] s \in Pages -> remote.head
    [] s \in Cards -> remote.cards[s] [] OTHER -> 1

\* Only documents are read at the version that was listed.
TextOf(ref) ==
  IF ref.src \in Blobs THEN remote.trees[ref.ver][ref.src] ELSE ContentNow(ref.src)

--------------------------------------------------------------------------------
(* source_item rows *)

\* made: the content that the artifacts of the source were made from.
NoItem == [hash |-> 0, made |-> 0, ver |-> 0, acl |-> CHOOSE a \in Acls : TRUE, live |-> FALSE, at |-> 0]

AclFor(s) == lrun.cfg.acl[FeedOf(s)]

Touched(g, s) ==
  IF g[s] = NoItem THEN g ELSE [g EXCEPT ![s].at = lrun.started, ![s].acl = AclFor(s)]

ItemStored(g, ref) ==
  [g EXCEPT ![ref.src] = [hash |-> TextOf(ref), made |-> TextOf(ref), ver |-> ref.ver,
                          acl |-> AclFor(ref.src), live |-> TRUE, at |-> lrun.started]]

--------------------------------------------------------------------------------
(* Requests *)

AtRest == [pc |-> "idle", status |-> "none"]
Working == lrun.pc # "idle"
Feed == Head(lrun.plan)

FirstStep(feed) == IF feed \in {"docs", "wiki"} THEN "head" ELSE "list"

Opened ==
  /\ ~Working /\ listings < MaxListings
  /\ listings' = listings + 1 /\ clock' = clock + 1
  /\ lrun' = [pc |-> FirstStep(Head(config.plan)), status |-> "running", plan |-> config.plan,
              cfg |-> config, started |-> clock + 1, tries |-> 0, at |-> 0, want |-> {},
              refs |-> {}, seen |-> {}, cut |-> {}, failed |-> {}, moved |-> {}, wrote |-> {},
              fresh |-> {}]
  /\ sess' = rows
  /\ UNCHANGED <<remote, config, rows, other, moves, outages>>

InFlight == Working /\ lrun.pc # "sweep" /\ Feed # "commits"

\* (mutant) a listing that cannot be had is an empty one
ListsNothing(r) == [r EXCEPT !.pc = "fetch", !.tries = 0, !.want = {}, !.refs = {}]

GivesUp(r) == [r EXCEPT !.pc = "idle", !.status = "failed"]

RollsBack == sess' = rows

\* A transport error or a retryable status: retried a number of times.
Retry ==
  /\ InFlight /\ outages < MaxOutages /\ lrun.tries < MaxRetries
  /\ lrun' = [lrun EXCEPT !.tries = @ + 1]
  /\ outages' = outages + 1
  /\ UNCHANGED <<remote, config, rows, sess, other, clock, moves, listings>>

\* The retries are exhausted, or the error is permanent: nobody catches HttpFetchError.
RequestFails ==
  /\ InFlight /\ outages < MaxOutages
  /\ lrun' = GivesUp(lrun)
  /\ RollsBack
  /\ outages' = outages + 1
  /\ UNCHANGED <<remote, config, rows, other, clock, moves, listings>>

\* The version that the listing is stamped with.
ResolveHead ==
  /\ Working /\ lrun.pc = "head"
  /\ lrun' = [lrun EXCEPT !.pc = "list", !.tries = 0,
                !.at = IF Feed = "docs" THEN Len(remote.trees) ELSE remote.head]
  /\ UNCHANGED <<remote, config, rows, sess, other, clock, moves, outages, listings>>

\* What the path filter leaves of a listing, and what the service left out of it.
WithListing(kept, left) ==
  [lrun EXCEPT !.pc = "fetch", !.tries = 0, !.cut = @ \union left,
               !.refs = {[src |-> s, ver |-> lrun.at] : s \in kept \ lrun.cfg.hidden}]

\* A large tree is truncated.
ListTree ==
  /\ Working /\ lrun.pc = "list" /\ Feed = "docs"
  /\ LET present == {b \in Blobs : remote.trees[lrun.at][b] # 0}
     IN  \E kept \in Pick(present, TreeCap) : lrun' = WithListing(kept, present \ kept)
  /\ UNCHANGED <<remote, config, rows, sess, other, clock, moves, outages, listings>>

\* Pages are listed as they are now, under the version resolved before.
ListPages ==
  /\ Working /\ lrun.pc = "list" /\ Feed = "wiki"
  /\ lrun' = WithListing({p \in Pages : remote.pages[p] # 0}, {})
  /\ UNCHANGED <<remote, config, rows, sess, other, clock, moves, outages, listings>>

\* WIQL: ids first, up to a cap.
ListIds ==
  /\ Working /\ lrun.pc = "list" /\ Feed = "cards"
  /\ LET present == {k \in Cards : remote.cards[k] # 0}
     IN  \E kept \in Pick(present, CardCap) :
           lrun' = [lrun EXCEPT !.pc = IF kept = {} THEN "fetch" ELSE "revs", !.tries = 0,
                                !.want = kept, !.cut = @ \union (present \ kept)]
  /\ UNCHANGED <<remote, config, rows, sess, other, clock, moves, outages, listings>>

\* Then the revisions, in batches; a card without one is skipped.
ListRevisions ==
  /\ Working /\ lrun.pc = "revs"
  /\ \E ids \in Pick(lrun.want, Batch) : \E bad \in SUBSET ids :
       LET rest == lrun.want \ ids
           good == {k \in ids \ bad : remote.cards[k] # 0}
       IN  /\ outages + Cardinality(bad) <= MaxOutages
           /\ outages' = outages + Cardinality(bad)
           /\ lrun' = [lrun EXCEPT !.pc = IF rest = {} THEN "fetch" ELSE "revs", !.tries = 0,
                         !.want = rest, !.cut = @ \union bad,
                         !.refs = @ \union {[src |-> k, ver |-> remote.cards[k]] : k \in good}]
  /\ UNCHANGED <<remote, config, rows, sess, other, clock, moves, listings>>

\* The newest commits of the workspace; a rev-parse that fails means it is no repository.
ListCommits ==
  /\ Working /\ lrun.pc = "list" /\ Feed = "commits"
  /\ \/ LET recent == {Shas[i] : i \in {j \in 1..remote.log : j > remote.log - Window}}
        IN  lrun' = [lrun EXCEPT !.pc = "fetch", !.cut = @ \union (Committed \ recent),
                                 !.refs = {[src |-> s, ver |-> 1] : s \in recent}]
        /\ UNCHANGED outages
     \/ /\ outages < MaxOutages /\ outages' = outages + 1
        /\ lrun' = [lrun EXCEPT !.pc = "fetch", !.cut = @ \union Committed, !.refs = {}]
  /\ UNCHANGED <<remote, config, rows, sess, other, clock, moves, listings>>

--------------------------------------------------------------------------------
(* Sources *)

Listed == IF Working /\ lrun.pc = "fetch" THEN lrun.refs ELSE {}

After(ref) == [lrun EXCEPT !.tries = 0, !.refs = @ \ {ref}]
AfterSeen(ref) == [After(ref) EXCEPT !.seen = @ \union {ref.src}]

\* What was listed is gone when it is read: the error ends the build.
FetchFindsNothing(ref) ==
  /\ TextOf(ref) = 0
  /\ lrun' = GivesUp(lrun)
  /\ RollsBack
  /\ UNCHANGED <<remote, config, rows, other, clock, moves, outages, listings>>

\* An unchanged source is touched; the next commit of the session takes it along.
FetchUnchanged(ref) ==
  /\ TextOf(ref) # 0 /\ sess[ref.src].hash = TextOf(ref)
  /\ sess' = Touched(sess, ref.src)
  /\ lrun' = AfterSeen(ref)
  /\ UNCHANGED <<remote, config, rows, other, clock, moves, outages, listings>>

FetchChanged(ref) ==
  /\ TextOf(ref) # 0 /\ sess[ref.src].hash # TextOf(ref)
  /\ sess' = ItemStored(sess, ref)
  /\ rows' = sess'
  /\ lrun' = AfterSeen(ref)
  /\ UNCHANGED <<remote, config, other, clock, moves, outages, listings>>

\* (mutant) the row is written before the work is done
HashAdvances(ref) == [ItemStored(rows, ref) EXCEPT ![ref.src].made = rows[ref.src].made]

\* A source that fails rolls the session back to the last commit, and is touched itself.
AfterFailure(ref) == Touched(rows, ref.src)

FetchedSourceFails(ref) ==
  /\ TextOf(ref) # 0 /\ sess[ref.src].hash # TextOf(ref)
  /\ outages < MaxOutages
  /\ rows' = AfterFailure(ref)
  /\ sess' = rows'
  /\ lrun' = [(IF rows[ref.src] = NoItem THEN After(ref) ELSE AfterSeen(ref))
                EXCEPT !.failed = @ \union {ref.src}]
  /\ outages' = outages + 1
  /\ UNCHANGED <<remote, config, other, clock, moves, listings>>

NextFeed ==
  /\ Working /\ lrun.pc = "fetch" /\ Listed = {}
  /\ lrun' = [lrun EXCEPT !.plan = Tail(@), !.at = 0,
                !.pc = IF Len(lrun.plan) = 1 THEN "sweep" ELSE FirstStep(lrun.plan[2])]
  /\ UNCHANGED <<remote, config, rows, sess, other, clock, moves, outages, listings>>

\* _vanished_live_sources
ItemsGone == {s \in Items : sess[s].live /\ s \notin lrun.seen /\ sess[s].at < lrun.started}

SweepVanished ==
  /\ Working /\ lrun.pc = "sweep"
  /\ rows' = [s \in Items |-> IF s \in ItemsGone THEN [sess[s] EXCEPT !.live = FALSE] ELSE sess[s]]
  /\ sess' = rows'
  /\ lrun' = [lrun EXCEPT !.pc = "idle", !.status = "completed"]
  /\ UNCHANGED <<remote, config, other, clock, moves, outages, listings>>

\* The finalize raises, or the process dies.
BuildBreaks ==
  /\ Working /\ outages < MaxOutages
  /\ lrun' = [lrun EXCEPT !.pc = "idle", !.status = "failed"]
  /\ RollsBack
  /\ outages' = outages + 1
  /\ UNCHANGED <<remote, config, rows, other, clock, moves, listings>>

--------------------------------------------------------------------------------
(* The others *)

Noted(items) == IF Working THEN [lrun EXCEPT !.moved = @ \union items] ELSE AtRest

Moves(next, items) ==
  /\ moves < MaxMoves /\ moves' = moves + 1
  /\ remote' = next
  /\ lrun' = Noted(items)
  /\ UNCHANGED <<config, rows, sess, other, clock, outages, listings>>

Push == \E b \in Blobs : \E c \in 0..2 :
  /\ c # CurrentTree[b]
  /\ Moves([remote EXCEPT !.trees = Append(@, [CurrentTree EXCEPT ![b] = c])], {b})

EditPage == \E p \in Pages : \E c \in 0..2 :
  /\ c # remote.pages[p]
  /\ Moves([remote EXCEPT !.pages[p] = c, !.head = @ + 1], {p})

EditCard == \E k \in Cards :
  /\ remote.cards[k] # 0
  /\ \E rev \in {0, remote.cards[k] + 1} : Moves([remote EXCEPT !.cards[k] = rev], {k})

CommitLocally ==
  /\ remote.log < Len(Shas)
  /\ Moves([remote EXCEPT !.log = @ + 1], {Shas[remote.log + 1]})

\* sources.yaml is read when a build begins.
Reconfigure ==
  /\ moves < MaxMoves /\ moves' = moves + 1
  /\ \/ \E f \in DOMAIN config.acl : \E a \in Acls \ {config.acl[f]} :
          config' = [config EXCEPT !.acl[f] = a]
     \/ \E s \in Blobs \union Pages : config' = [config EXCEPT !.hidden = @ \union {s}]
  /\ lrun' = Noted({})
  /\ UNCHANGED <<remote, rows, sess, other, clock, outages, listings>>

NoOther == [src |-> "none", at |-> 0]

\* now() of a transaction is the time of its beginning.
OtherBegins(s) ==
  /\ other = NoOther /\ outages < MaxOutages /\ Working
  /\ FeedOf(s) \in ToSet(config.plan) /\ ContentNow(s) # 0
  /\ clock' = clock + 1 /\ outages' = outages + 1
  /\ other' = [src |-> s, at |-> clock + 1]
  /\ UNCHANGED <<remote, config, rows, sess, lrun, moves, listings>>

\* It waits for the rows that the session has written.
OtherCommits ==
  LET s == other.src
      row == [hash |-> ContentNow(s), made |-> ContentNow(s), ver |-> VersionNow(s), acl |-> config.acl[FeedOf(s)],
              live |-> TRUE, at |-> other.at]
  IN  /\ other # NoOther /\ ContentNow(s) # 0 /\ sess[s] = rows[s]
      /\ rows' = [rows EXCEPT ![s] = row]
      /\ sess' = [sess EXCEPT ![s] = row]
      /\ other' = NoOther
      /\ lrun' = IF ~Working THEN AtRest
                 ELSE [lrun EXCEPT !.wrote = @ \union {s},
                         !.fresh = IF other.at > lrun.started THEN @ \union {s} ELSE @]
      /\ UNCHANGED <<remote, config, clock, moves, outages, listings>>

OtherFails ==
  /\ other # NoOther
  /\ other' = NoOther
  /\ UNCHANGED <<remote, config, rows, sess, lrun, clock, moves, outages, listings>>

ListingInit ==
  /\ \E tree \in [Blobs -> 0..1] :
       remote = [trees |-> <<tree>>, pages |-> [p \in Pages |-> 1], head |-> 1,
                 cards |-> [k \in Cards |-> 1], log |-> 1]
  /\ \E plan \in FeedPlans :
       config = [plan |-> plan, acl |-> [f \in ToSet(plan) |-> NoItem.acl], hidden |-> {}]
  /\ rows = [s \in Items |-> NoItem] /\ sess = rows
  /\ lrun = AtRest /\ other = NoOther
  /\ clock = 0 /\ moves = 0 /\ outages = 0 /\ listings = 0

ListingNext ==
  \/ Opened \/ Retry \/ RequestFails
  \/ ResolveHead \/ ListTree \/ ListPages \/ ListIds \/ ListRevisions \/ ListCommits
  \/ NextFeed \/ SweepVanished \/ BuildBreaks
  \/ Push \/ EditPage \/ EditCard \/ CommitLocally \/ Reconfigure
  \/ OtherCommits \/ OtherFails
  \/ \E s \in Items : OtherBegins(s)
  \/ \E ref \in Listed : FetchFindsNothing(ref) \/ FetchUnchanged(ref) \/ FetchChanged(ref)
                           \/ FetchedSourceFails(ref)

ListingSpec == ListingInit /\ [][ListingNext]_listingVars
--------------------------------------------------------------------------------
(* Properties *)

\* A source_version names the content that was recorded with it: a document is read at the
\* commit its listing was taken from, whatever is pushed meanwhile (GitHubRestBackend.fetch_text).
VersionNamesContent ==
  \A b \in Blobs : rows[b] # NoItem => remote.trees[rows[b].ver][b] = rows[b].hash

\* A source is only swept when it is gone, moved while the build ran, was excluded, or was left
\* out of a partial listing, or another builder wrote it meanwhile; an outage never sweeps one,
\* nor is one swept that another builder began to write after this build had started (_request,
\* _process_sources, _vanished_live_sources).
OnlyTheGoneAreSwept ==
  [][\A s \in Items : rows[s].live /\ ~rows'[s].live =>
       /\ s \notin lrun.fresh
       /\ \/ ContentNow(s) = 0
          \/ s \in lrun.moved \union lrun.cut \union lrun.cfg.hidden \union lrun.wrote]_listingVars

\* A completed build recorded what it could: what did not move, failed, or get left out is as
\* the services have it, also after builds that failed half way (_process_sources).
CompletedBuildMirrors ==
  lrun.status = "completed" =>
    \A s \in Items \ (lrun.moved \union lrun.cut \union lrun.failed \union lrun.wrote) :
      IF FeedOf(s) \notin DOMAIN lrun.cfg.acl \/ s \in lrun.cfg.hidden \/ ContentNow(s) = 0
      THEN ~rows[s].live
      ELSE rows[s].hash = ContentNow(s) /\ rows[s].made = ContentNow(s)

\* An ACL that sources.yaml changed lands on what was seen, changed or not, when no source
\* failed in that build (_touch_last_seen).
AclLandsUndisturbed ==
  lrun.status = "completed" /\ lrun.failed = {} =>
    \A s \in lrun.seen \ lrun.wrote : rows[s].acl = AclFor(s)

\* Rows say what the services held, at the version and under the ACL they name.
RowsMirrorTheSources == VersionNamesContent /\ CompletedBuildMirrors /\ AclLandsUndisturbed

\* build_runner.py:550, "an ACL-only config change (an access revocation) must land even when
\* content_hash is unchanged".
AclFollowsConfig ==
  lrun.status = "completed" =>
    \A s \in lrun.seen \ lrun.wrote : rows[s].acl = AclFor(s)

\* ado_work_item_backend.py:13, a card is rendered so that "Same rev => same content_hash": what
\* is recorded under a revision is that revision.
CardVersionNamesContent == \A k \in Cards : rows[k] # NoItem => rows[k].hash = rows[k].ver

\* invalidation.py:202, a source that another writer wrote while this build ran is not swept.
OtherWritersAreSpared ==
  [][\A s \in Items : rows[s].live /\ ~rows'[s].live => s \notin lrun.wrote]_listingVars
================================================================================
