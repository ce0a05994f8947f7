---------------------------- MODULE StoreListing ----------------------------
(***************************************************************************)
(* The listing of the app store: a search text debounced by 300 ms, the    *)
(* filters, the pages of the infinite query for each search and filter,    *)
(* the sentinel that asks for the next page, and the featured              *)
(* applications over the list.                                             *)
(*                                                                         *)
(* The query library keeps the pages of every filter seen (staleTime is    *)
(* five minutes), fetches a filter at most once at a time and writes an    *)
(* answer under the filter it was asked for.  The search field and the     *)
(* filters are part of the list: no list, no field.                        *)
(*                                                                         *)
(* Abstractions.  Category and sort are one choice; an application matches *)
(* a text and a choice or not; the server lists the newest first and reads *)
(* its list when the answer arrives.                                       *)
(***************************************************************************)
EXTENDS Integers, Sequences, FiniteSets, SequencesExt, Lists

CONSTANTS
    StoreApp,
    NewestApp,     \* the application a sync of the catalog adds
    Text,          \* what can be typed; "" is the empty search
    Choice,        \* "all" and the choices that keep some
    Matching,      \* the applications of a text or a choice
    PAGE_SIZE,
    MaxChanges     \* bound: catalog changes and failures

ASSUME ListingAssumption ==
    /\ IsFiniteSet(StoreApp) /\ NewestApp \in StoreApp /\ "" \in Text /\ "all" \in Choice
    /\ Matching \in [Text \union Choice -> SUBSET StoreApp]
    /\ Matching[""] = StoreApp /\ Matching["all"] = StoreApp
    /\ PAGE_SIZE \in Nat \ {0} /\ MaxChanges \in Nat

VARIABLES
    catalog,    \* the server's applications, newest first
    view,       \* StoreListing's state, its debounce timer and FeaturedApplications'
    pages,      \* the cached query of every filter
    fetch,      \* the fetch of a filter: "no", of all its pages, of the next one
    changes

listingVars == <<catalog, view, pages, fetch, changes>>

Filter == Text \X Choice
Current(v) == <<v.debounced, v.choice>>
Results(f) == Filtered(catalog, Matching[f[1]] \intersect Matching[f[2]])

Unseen == [got |-> <<>>, total |-> 0, status |-> "pending", stale |-> FALSE, drift |-> FALSE]
Opened == [page |-> "listing", search |-> "", debounced |-> "", typing |-> FALSE,
           choice |-> "all", featured |-> 0]

flattenPages(p) == FlattenSeq(p.got)
hasNextPage(p) == p.got # <<>> /\ Len(flattenPages(p)) < p.total

\* The list is rendered, and with it the field, the filters and the sentinel.
Listed(v, ps) ==
    v.page = "listing" /\ ps[Current(v)].status = "success" /\ flattenPages(ps[Current(v)]) # <<>>

Least(m, n) == IF m < n THEN m ELSE n
getFeaturedApplications(p) == SubSeq(flattenPages(p), 1, Least(2, Len(flattenPages(p))))

\* Without data, or when it went stale, a query that comes into view fetches.
Observed(v, ps, fs) ==
    LET f == Current(v) IN
    IF v.page = "listing" /\ fs[f] = "no" /\ (ps[f].got = <<>> \/ ps[f].stale)
    THEN [fs EXCEPT ![f] = "all"] ELSE fs

\* FeaturedApplications keeps its index while it stays mounted; with fewer
\* applications than that it returns before its last hooks, which React
\* answers with an error: the route shows its ErrorBoundary.
Rendering(v, ps) ==
    /\ view' = IF ~Listed(v, ps) THEN [v EXCEPT !.featured = 0]
               ELSE IF v.featured >= Len(getFeaturedApplications(ps[Current(v)]))
               THEN [v EXCEPT !.page = "error", !.featured = 0] ELSE v
    /\ pages' = [f \in Filter |-> IF v.page = "listing" /\ f = Current(v) /\ ps[f].got = <<>>
                                  THEN Unseen ELSE ps[f]]

ListingInit ==
    /\ catalog = SetToSeq(StoreApp \ {NewestApp})
    /\ view = Opened
    /\ pages = [f \in Filter |-> Unseen]
    /\ fetch = Observed(Opened, pages, [f \in Filter |-> "no"])
    /\ changes = 0

-----------------------------------------------------------------------------
(* The user. *)

ShowListing(v) == Rendering(v, pages) /\ fetch' = Observed(v, pages, fetch)

Type ==
    /\ Listed(view, pages)
    /\ \E t \in Text \ {view.search} :
          view' = [view EXCEPT !.search = t, !.typing = TRUE]
    /\ UNCHANGED <<catalog, pages, fetch, changes>>

DebounceSearch ==
    /\ view.page = "listing" /\ view.typing
    /\ ShowListing([view EXCEPT !.debounced = view.search, !.typing = FALSE])
    /\ UNCHANGED <<catalog, changes>>

ChooseFilter ==
    /\ Listed(view, pages)
    /\ \E c \in Choice \ {view.choice} : ShowListing([view EXCEPT !.choice = c])
    /\ UNCHANGED <<catalog, changes>>

\* The arrows, a drag of more than 80 pixels, a tab.
GoToFeatured ==
    /\ Listed(view, pages)
    /\ \E i \in 0..Len(getFeaturedApplications(pages[Current(view)])) - 1 :
          i # view.featured /\ view' = [view EXCEPT !.featured = i]
    /\ UNCHANGED <<catalog, pages, fetch, changes>>

\* The sentinel is on the screen.
FetchNextPage ==
    /\ Listed(view, pages) /\ hasNextPage(pages[Current(view)])
    /\ fetch[Current(view)] = "no"
    /\ fetch' = [fetch EXCEPT ![Current(view)] = "next"]
    /\ UNCHANGED <<catalog, view, pages, changes>>

\* An application is opened, the window is closed, and the way back.
LeaveListing ==
    /\ view.page # "away"
    /\ view' = [Opened EXCEPT !.page = "away"]
    /\ UNCHANGED <<catalog, pages, fetch, changes>>

OpenListing == view.page = "away" /\ ShowListing(Opened) /\ UNCHANGED <<catalog, changes>>

-----------------------------------------------------------------------------
(* The query. *)

PageAt(f, offset) ==
    SubSeq(Results(f), offset + 1, Least(offset + PAGE_SIZE, Len(Results(f))))

\* The first n pages, fewer when there is no more.
RefetchedPages(f, n) ==
    LET whole == {k \in 1..n : k = 1 \/ (k - 1) * PAGE_SIZE < Len(Results(f))} IN
    [i \in 1..Cardinality(whole) |-> PageAt(f, (i - 1) * PAGE_SIZE)]

\* Mutant: the answer is written under the filter shown by then.
ArrivesInView(f) ==
    [pages EXCEPT ![Current(view)] =
        [@ EXCEPT !.total = Len(Results(f)), !.status = "success",
                  !.got = RefetchedPages(f, IF @ = <<>> THEN 1 ELSE Len(@)),
                  !.stale = FALSE, !.drift = FALSE]]

\* What the answer for filter f makes of its pages.
Arrives(f) ==
    LET p == pages[f]
        q == [p EXCEPT !.total = Len(Results(f)), !.status = "success",
                       !.got = IF fetch[f] = "all"
                               THEN RefetchedPages(f, IF p.got = <<>> THEN 1 ELSE Len(p.got))
                               ELSE Append(p.got, PageAt(f, Len(flattenPages(p)))),
                       !.stale = FALSE,
                       !.drift = fetch[f] = "next" /\ p.drift]
    IN [pages EXCEPT ![f] = q]

PagesArrive ==
    /\ \E f \in Filter : /\ fetch[f] # "no"
                         /\ Rendering(view, Arrives(f))
                         /\ fetch' = [fetch EXCEPT ![f] = "no"]
    /\ UNCHANGED <<catalog, changes>>

\* After one retry: isError, with or without pages from before.
FetchFails ==
    /\ changes < MaxChanges /\ changes' = changes + 1
    /\ \E f \in Filter :
          /\ fetch[f] # "no"
          /\ fetch' = [fetch EXCEPT ![f] = "no"]
          /\ pages' = [pages EXCEPT ![f].status = "error"]
          /\ view' = IF f = Current(view) THEN [view EXCEPT !.featured = 0] ELSE view
    /\ UNCHANGED catalog

\* applicationsQueryKey is invalidated after a mutation or a sync: the
\* filter in view fetches all its pages again, in place of the fetch under
\* way; the others do when they come into view.
Invalidate ==
    /\ pages' = [f \in Filter |-> [pages[f] EXCEPT !.stale = pages[f].got # <<>>]]
    /\ fetch' = IF view.page = "listing" THEN [fetch EXCEPT ![Current(view)] = "all"] ELSE fetch

\* The catalog gets another application; the button's answer or an
\* operation's end invalidates the lists, the server's own sync does not.
SyncCatalog ==
    /\ changes < MaxChanges /\ changes' = changes + 1
    /\ NewestApp \notin ToSet(catalog) /\ catalog' = <<NewestApp>> \o catalog
    /\ pages' = [f \in Filter |-> [pages[f] EXCEPT !.drift = pages[f].got # <<>>]]
    /\ UNCHANGED <<view, fetch>>

InvalidateListing ==
    /\ \E f \in Filter : pages[f].got # <<>> /\ ~pages[f].stale
    /\ Invalidate
    /\ UNCHANGED <<catalog, view, changes>>

ListingNext ==
    \/ Type \/ DebounceSearch \/ ChooseFilter \/ GoToFeatured \/ FetchNextPage
    \/ LeaveListing \/ OpenListing \/ PagesArrive \/ FetchFails \/ SyncCatalog
    \/ InvalidateListing

ListingSpec == ListingInit /\ [][ListingNext]_listingVars

-----------------------------------------------------------------------------
ListingTypeOK ==
    /\ view.page \in {"listing", "error", "away"} /\ view.typing \in BOOLEAN
    /\ view.search \in Text /\ Current(view) \in Filter
    /\ view.featured \in {0, 1}
    /\ \A f \in Filter : /\ pages[f].status \in {"pending", "success", "error"}
                         /\ fetch[f] \in {"no", "all", "next"}
                         /\ \A k \in 1..Len(pages[f].got) : ToSet(pages[f].got[k]) \subseteq StoreApp

\* Once the typing has settled, the cards are the beginning of what the
\* server lists for the text and the filters on the screen, in its order and
\* each once, whatever the order of the answers; unless the catalog has
\* changed since these pages were fetched, and when there is no next page
\* they are all of it.
CardsAreTheResults ==
    Listed(view, pages) /\ ~view.typing /\ ~pages[Current(view)].drift =>
        LET cards == flattenPages(pages[Current(view)])
            all == Results(<<view.search, view.choice>>) IN
        IsPrefix(cards, all) /\ (hasNextPage(pages[Current(view)]) \/ cards = all)

=============================================================================
