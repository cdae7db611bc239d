---------------------------- MODULE ProjectTree -----------------------------
(***************************************************************************)
(* Paged listings and cancellable searches of a project                    *)
(* (maestro-project/src/listing.rs and search.rs behind                    *)
(* maestrod/src/project.rs), while other programs change the tree.  A file *)
(* is its name and the number of matches the searched pattern has in it.   *)
(***************************************************************************)
EXTENDS Naturals, Sequences, FiniteSets

CONSTANTS PageEntries,     \* ListingOptions::maximum_entries
          MaximumResults,  \* SearchOptions::maximum_results
          MaxFiles,        \* bound on the directory's entries
          MaxChanges       \* bound on the changes of other programs

VARIABLES
  tree,      \* the directory's files in the walker's order: <<[name, matches]>>
  changes,   \* changes made so far
  listing,   \* the client's paged listing: [at, cursor, shown, since]
  search,    \* the running ProjectSearch
  active     \* ProjectManager.active_searches: the flag, or <<>>

vars == <<tree, changes, listing, search, active>>

NoSearch == [at |-> "idle", walker |-> <<>>, left |-> 0, matches |-> 0, skipped |-> 0,
             limit |-> FALSE, cancelled |-> FALSE]
NoListing == [at |-> "idle", cursor |-> 0, shown |-> <<>>, since |-> 0]

Init ==
  /\ changes = 0
  /\ \E n \in 0..MaxFiles : \E f \in [1..n -> 0..2] :
       tree = [k \in 1..n |-> [name |-> k, matches |-> f[k]]]
  /\ listing = NoListing /\ search = NoSearch /\ active = <<>>

-----------------------------------------------------------------------------
(* Other programs add and remove files of the directory.                   *)

Change ==
  /\ changes < MaxChanges /\ changes' = changes + 1
  /\ \/ \E k \in DOMAIN tree : tree' = SubSeq(tree, 1, k - 1) \o SubSeq(tree, k + 1, Len(tree))
     \/ /\ Len(tree) < MaxFiles
        /\ tree' = <<[name |-> MaxFiles + changes + 1, matches |-> 1]>> \o tree
  /\ UNCHANGED <<listing, search, active>>

-----------------------------------------------------------------------------
(* DirectoryService::list, one page per request.  The check after the walk *)
(* compares the identity of one open directory with itself.                *)

ListBegins ==
  /\ listing.at # "paging"
  /\ listing' = [NoListing EXCEPT !.at = "paging", !.since = changes]
  /\ UNCHANGED <<tree, changes, search, active>>

PageEnd(cursor) == IF cursor + PageEntries < Len(tree) THEN cursor + PageEntries ELSE Len(tree)
PageFrom(cursor) == SubSeq(tree, cursor + 1, PageEnd(cursor))

\* A slip: the entry after a full page is taken for the last one.
MoreOffByOne(cursor) == Len(tree) > cursor + PageEntries + 1

\* One entry more than the page was read: the page is truncated.
More(cursor) == Len(tree) > cursor + PageEntries

ListPage ==
  /\ listing.at = "paging"
  /\ LET page == PageFrom(listing.cursor) IN
     listing' = [listing EXCEPT !.shown = @ \o page, !.cursor = @ + Len(page),
                                !.at = IF More(listing.cursor) THEN "paging" ELSE "listed"]
  /\ UNCHANGED <<tree, changes, search, active>>

\* The directory or an entry cannot be read.
ListFails ==
  /\ listing.at = "paging" /\ listing' = [listing EXCEPT !.at = "failed"]
  /\ UNCHANGED <<tree, changes, search, active>>

-----------------------------------------------------------------------------
(* ProjectManager::search and RepositorySearch::run.                       *)

Searching(s) == search' = s /\ UNCHANGED <<tree, changes, listing>>

\* The flag is registered under the search's id, then the walk starts.
SearchBegins ==
  /\ search.at \in {"idle", "found", "failed"}
  /\ Searching([NoSearch EXCEPT !.at = "walking", !.walker = tree])
  /\ active' = <<FALSE>>

Flagged == active # <<>> /\ active[1]
Stop(s) == [s EXCEPT !.at = "ending"]

\* One entry of the walk: cancelled, over, skipped (binary, too large,
\* changed while read, not readable) or searched.
Walk ==
  /\ search.at = "walking"
  /\ LET rest == [search EXCEPT !.walker = Tail(@)] IN
     IF search.walker = <<>> THEN Searching(Stop(search))
     ELSE IF Flagged THEN Searching(Stop([search EXCEPT !.cancelled = TRUE]))
     ELSE \/ Searching([rest EXCEPT !.at = "matching", !.left = search.walker[1].matches])
          \/ Searching([rest EXCEPT !.skipped = @ + 1])
  /\ UNCHANGED active

\* The walk cannot go on: an unsafe path of the tree.
WalkFails ==
  /\ search.at = "walking" /\ search.walker # <<>>
  /\ Searching([search EXCEPT !.at = "failing"]) /\ UNCHANGED active

AtLimit == search.matches = MaximumResults

\* search_file: the flag is read before every line and after every match, the
\* limit before a match is taken.
Match ==
  /\ search.at = "matching"
  /\ IF Flagged THEN Searching(Stop([search EXCEPT !.cancelled = TRUE]))
     ELSE IF search.left = 0 THEN Searching([search EXCEPT !.at = "walking"])
     ELSE IF AtLimit THEN Searching(Stop([search EXCEPT !.limit = TRUE]))
     ELSE Searching([search EXCEPT !.left = @ - 1, !.matches = @ + 1])
  /\ UNCHANGED active

\* The flag is unregistered whatever the search's result is.
SearchEnds ==
  /\ search.at \in {"ending", "failing"}
  /\ Searching([search EXCEPT !.at = IF @ = "ending" THEN "found" ELSE "failed"])
  /\ active' = <<>>

\* cancel_search: sets the flag of a registered search, else does nothing.
CancelSearch ==
  /\ active' = IF active = <<>> THEN active ELSE <<TRUE>>
  /\ UNCHANGED <<tree, changes, listing, search>>

Next == \/ Change \/ ListBegins \/ ListPage \/ ListFails
        \/ SearchBegins \/ Walk \/ WalkFails \/ Match \/ SearchEnds \/ CancelSearch

Spec == Init /\ [][Next]_vars

-----------------------------------------------------------------------------
(* Properties.                                                             *)

\* The pages of a listing show every entry of the directory once, unless the
\* directory changed between them (DirectoryService::list).
PagesComplete ==
  listing.at = "listed" /\ listing.since = changes => listing.shown = tree

\* A search that reports neither its limit, nor a cancellation, nor skipped
\* files found every match of the tree it walked; one that reports the limit
\* found exactly that many and left at least one (RepositorySearch::run).
SearchHonest ==
  search.at = "found" =>
    /\ search.matches <= MaximumResults
    /\ search.limit => search.matches = MaximumResults /\ search.left > 0
    /\ ~search.limit /\ ~search.cancelled => search.walker = <<>> /\ search.left = 0

\* Both of the above: what a client is told of the tree is complete or says
\* that it is not.
TreeReported == PagesComplete /\ SearchHonest

-----------------------------------------------------------------------------
(* What makes it inductive.                                                *)

Files == [name : Nat, matches : Nat]
Searches ==
  [at : {"idle", "walking", "matching", "ending", "failing", "found", "failed"},
   walker : Seq(Files), left : Nat, matches : Nat, skipped : Nat, limit : BOOLEAN,
   cancelled : BOOLEAN]
TypeOK ==
  /\ tree \in Seq(Files) /\ changes \in Nat
  /\ listing \in [at : {"idle", "paging", "listed", "failed"}, cursor : Nat,
                  shown : Seq(Files), since : Nat]
  /\ search \in Searches

\* While the directory has not changed, the pages shown are its beginning.
PagesSoFar ==
  /\ listing.since <= changes
  /\ listing.at = "paging" /\ listing.since = changes =>
       /\ listing.cursor <= Len(tree)
       /\ listing.shown = SubSeq(tree, 1, listing.cursor)

\* No match is left behind while the walk goes on.
SearchSoFar ==
  /\ search.matches <= MaximumResults
  /\ search.at = "walking" => search.left = 0
  /\ search.at \in {"walking", "matching"} => ~search.limit
  /\ search.at = "ending" =>
       /\ search.limit => search.matches = MaximumResults /\ search.left > 0
       /\ ~search.limit /\ ~search.cancelled => search.walker = <<>> /\ search.left = 0

IInv == TypeOK /\ PagesSoFar /\ SearchSoFar /\ TreeReported
=============================================================================
