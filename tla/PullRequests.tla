---------------------------- MODULE PullRequests ----------------------------
(***************************************************************************)
(* The pull requests of one GitHub repository as the app keeps them:       *)
(* PullRequestStore mirrors the open ones in a database table and asks     *)
(* GitHub only for what was updated since the latest update it has seen;   *)
(* PullRequestCoordinator caches the list it retrieved last.               *)
(*                                                                         *)
(* A row is a pull request as GitHub last described it: `at` is its        *)
(* updated_at, to the second, and `rev` tells two descriptions of one      *)
(* second apart.  A listing is read in one piece, apart from the failures  *)
(* and the page ends that GitHubFails and TiesSplit allow.                 *)
(***************************************************************************)
EXTENDS Naturals, FiniteSets

CONSTANTS PR,           \* pull request numbers
          Reader,       \* calls of getAllPullRequests
          NoRow, NoList,
          GitHubFails,  \* whether a request may fail
          TiesSplit,    \* whether a page may end between equal updated_at
          MaxClock,     \* bound: seconds that pass
          MaxRevs       \* bound: changes made on GitHub

ASSUME ConstantsOK ==
  /\ GitHubFails \in BOOLEAN /\ TiesSplit \in BOOLEAN
  /\ MaxClock \in Nat \ {0} /\ MaxRevs \in Nat

\* The head repository of an orphan has been deleted.
State == {"open", "orphan", "closed"}
Row   == [state : State, at : 1 .. MaxClock, rev : 1 .. MaxRevs]

ASSUME NoRowIsNoRow == NoRow \notin Row

List == [PR -> Row \cup {NoRow}]
Empty == [p \in PR |-> NoRow]

ASSUME NoListIsNoList == NoList \notin List

VARIABLES
  remote, clock, revs,  \* GitHub
  table, lastUpdated,   \* PullRequestDatabase; 0 when there is no date
  at, list,             \* the refresh operation and what it was answered
  before, silent,       \* history: the table when the operation began; an
                        \* operation changed it and told nobody
  prCache,              \* PullRequestCoordinator's cache
  pc, got               \* the readers

github  == <<remote, clock, revs>>
db      == <<table, lastUpdated>>
readers == <<pc, got>>
vars    == <<github, db, at, list, before, silent, prCache, readers>>

Init ==
  /\ remote = Empty /\ clock = 1 /\ revs = 0
  /\ table = Empty /\ lastUpdated = 0
  /\ at = "idle" /\ list = Empty /\ before = Empty /\ silent = FALSE
  /\ prCache = NoList
  /\ pc = [r \in Reader |-> "idle"] /\ got = [r \in Reader |-> Empty]

-----------------------------------------------------------------------------
(* GitHub.                                                                 *)

Listed(l) == {p \in PR : l[p] # NoRow}

Modify(p, s) ==
  /\ revs < MaxRevs
  /\ revs' = revs + 1
  /\ remote' = [remote EXCEPT ![p] =
                  [state |-> s, at |-> clock, rev |-> revs + 1]]
  /\ UNCHANGED <<clock, db, at, list, before, silent, prCache, readers>>

PassSecond ==
  /\ clock < MaxClock /\ clock' = clock + 1
  /\ UNCHANGED <<remote, revs, db, at, list, before, silent, prCache, readers>>

-----------------------------------------------------------------------------
(* PullRequestStore.                                                       *)

\* refreshPullRequests with no operation running; with one it joins that.
Refresh ==
  /\ at = "idle"
  /\ at' = IF lastUpdated = 0 THEN "open" ELSE "updated"
  /\ before' = table
  /\ UNCHANGED <<github, db, list, silent, prCache, readers>>

\* The operation ends without an emission.
Finish ==
  /\ at' = "idle" /\ list' = Empty
  /\ silent' = (silent \/ table # before)
  /\ UNCHANGED <<github, db, before, prCache, readers>>

Listing(S) ==
  /\ at' = "store"
  /\ list' = [p \in PR |-> IF p \in S THEN remote[p] ELSE NoRow]
  /\ UNCHANGED <<github, db, before, silent, prCache, readers>>

\* fetchAllOpenPullRequests: fetchAll suppresses the error of a page and
\* returns the pages before it.  A network error it does not suppress.
FetchOpen ==
  /\ at = "open"
  /\ LET Open == {p \in Listed(remote) : remote[p].state # "closed"}
     IN \/ Listing(Open)
        \/ GitHubFails /\ \E S \in SUBSET Open : Listing(S)
        \/ GitHubFails /\ Finish

\* Mutant: only what is newer than the date.
MutantSince(ties) == {{}}
\* Pages are read, the latest update first, until one ends with a pull
\* request no newer than the date.
Since(ties) ==
  IF TiesSplit THEN {S \in SUBSET ties : S # {} \/ ties = {}} ELSE {ties}

FetchUpdated ==
  /\ at = "updated"
  /\ LET Newer == {p \in Listed(remote) : remote[p].at > lastUpdated}
         Ties  == {p \in Listed(remote) : remote[p].at = lastUpdated}
     IN \E S \in Since(Ties) : Listing(Newer \cup S)

\* A network error ends the operation.
FetchUpdatedFails == at = "updated" /\ GitHubFails /\ Finish

\* Mutant: the date is cleared, the rows are kept.
MutantDropAll ==
  /\ at = "updated"
  /\ lastUpdated' = 0
  /\ at' = "open"
  /\ UNCHANGED <<github, table, list, before, silent, prCache, readers>>
\* GitHub refused, or there is too much to load: start from scratch.
DropAll ==
  /\ at = "updated"
  /\ table' = Empty /\ lastUpdated' = 0
  /\ at' = "open"
  /\ UNCHANGED <<github, list, before, silent, prCache, readers>>

\* Mutant: the date of the refresh, rather than the latest one listed.
MutantLatest(l) == {clock}
\* The latest updated_at of a listing.
Latest(l) == {t \in {l[p].at : p \in Listed(l)} :
                \A p \in Listed(l) : l[p].at <= t}

\* What becomes of a row of the table.
Stored(p) == IF list[p] = NoRow THEN table[p]
             ELSE IF list[p].state = "open" THEN list[p] ELSE NoRow

\* Nothing was listed, or one pull request that is stored already.
NothingNew ==
  \/ Listed(list) = {}
  \/ \E p \in PR : /\ Listed(list) = {p}
                   /\ list[p].state = "open" /\ table[p] = list[p]

\* storePullRequests
StoreRows ==
  /\ at = "store" /\ ~NothingNew
  /\ table' = [p \in PR |-> Stored(p)]
  /\ lastUpdated' \in Latest(list)
  /\ at' = "emit"
  /\ UNCHANGED <<github, list, before, silent, prCache, readers>>

StoreNothing == at = "store" /\ NothingNew /\ Finish

\* The list is read from the table, and emitted; the coordinator keeps it.
EmitList ==
  /\ at = "emit"
  /\ prCache' = table
  /\ at' = "idle" /\ list' = Empty /\ silent' = FALSE
  /\ UNCHANGED <<github, db, before, readers>>

RefreshStep ==
  \/ FetchOpen \/ FetchUpdated \/ FetchUpdatedFails \/ DropAll
  \/ StoreRows \/ StoreNothing \/ EmitList

-----------------------------------------------------------------------------
(* getPullRequestsFor: the cache is checked, the table read, the cache set.*)

ReadTable(r) ==
  /\ pc[r] = "idle" /\ prCache = NoList
  /\ got' = [got EXCEPT ![r] = table]
  /\ pc' = [pc EXCEPT ![r] = "read"]
  /\ UNCHANGED <<github, db, at, list, before, silent, prCache>>

SetCache(r) ==
  /\ pc[r] = "read"
  /\ prCache' = got[r]
  /\ pc' = [pc EXCEPT ![r] = "idle"]
  /\ got' = [got EXCEPT ![r] = Empty]
  /\ UNCHANGED <<github, db, at, list, before, silent>>

-----------------------------------------------------------------------------
Next ==
  \/ \E p \in PR, s \in State : Modify(p, s)
  \/ PassSecond
  \/ Refresh \/ RefreshStep
  \/ \E r \in Reader : ReadTable(r) \/ SetCache(r)

Spec == Init /\ [][Next]_vars

-----------------------------------------------------------------------------
(* Properties.                                                             *)

\* The variables have the shape the actions rely on.
TypeOK ==
  /\ remote \in List /\ table \in List /\ list \in List /\ before \in List
  /\ \A p \in PR : table[p] # NoRow => table[p].state = "open"
  /\ clock \in 1 .. MaxClock /\ revs \in 0 .. MaxRevs
  /\ lastUpdated \in 0 .. MaxClock
  /\ at \in {"idle", "open", "updated", "store", "emit"}
  /\ silent \in BOOLEAN
  /\ prCache \in List \cup {NoList}
  /\ pc \in [Reader -> {"idle", "read"}] /\ got \in [Reader -> List]

\* A first fetch asks for the open pull requests alone, and prunes nothing: it
\* is made only with an empty table, whatever failed before.
NoDateNoRows == lastUpdated = 0 => table = Empty

Quiet == at = "idle" /\ \A r \in Reader : pc[r] = "idle"

\* "When this method returns false it's safe to say that nothing has been
\* changed in the pull requests table": silence means no change.
SilentMeansUnchanged == ~silent

\* The cache "contains the last set of PRs retrieved": when nothing is under
\* way and no change was kept silent, it is what the table holds.
CacheIsLatest == Quiet /\ ~silent /\ prCache # NoList => prCache = table
=============================================================================
