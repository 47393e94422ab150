------------------------------ MODULE StoreCache ------------------------------
(* The copies of eBay's active listings and recent orders that the store pages  *)
(* show (ebay-inventory-management-service.ts, ebay-order-management-service.ts). *)
(* A refresh walks through the sites and their pages, writes every row with its  *)
(* start as the stamp, and then removes the rows with an older one.  A page       *)
(* holds one entry here, and every entry is of one connection.                    *)
EXTENDS Naturals, FiniteSets

CONSTANTS
    Key,         \* what a refresh asks for: "all" the connections, or one of them
    Entry,       \* listings or orders, numbered in the order in which eBay lists them
    Sites,       \* the number of sites of a connection
    MaxStarts,   \* bound on the sites begun
    MaxChanges   \* bound on what appears or goes at eBay, on edits, errors and restarts

StoreCacheAssumption ==
    /\ Entry \subseteq Nat /\ IsFiniteSet(Entry)
    /\ Sites \in Nat \ {0} /\ {MaxStarts, MaxChanges} \subseteq Nat

VARIABLES
    kind,      \* which of the two caches it is
    listed,    \* what eBay lists on each site
    cache,     \* the stamp of each row of the cache, 0 for no row
    home,      \* the marketplace a row was created with
    refresh,   \* syncEbayStoreInventory or syncEbayStoreOrders under each key
    clock,     \* counts the starts
    changes

vars == <<kind, listed, cache, home, refresh, clock, changes>>

Site == 1 .. Sites
Kinds == {"listings", "orders"}
Off == [at |-> "off"]

(* inventoryRowSourceKey names the site; an order has one row for all of them. *)
RowOf(site, e) == <<IF kind = "listings" THEN site ELSE 1, e>>
Row == Site \X Entry

TypeOK ==
    /\ kind \in Kinds
    /\ listed \in [Site -> SUBSET Entry]
    /\ cache \in [Row -> 0 .. MaxStarts]
    /\ home \in [Row -> Site]
    /\ \A k \in Key : refresh[k] = Off \/
         /\ refresh[k].at \in {"fetch", "save", "prune", "pruned", "failed"}
         /\ refresh[k].site \in Site
         /\ refresh[k].stamp \in 1 .. clock
    /\ clock \in 0 .. MaxStarts
    /\ changes \in 0 .. MaxChanges

(* The start of a behaviour: an empty cache.                                  *)
Init ==
    /\ kind \in Kinds
    /\ listed \in [Site -> SUBSET Entry]
    /\ cache = [x \in Row |-> 0]
    /\ home = [x \in Row |-> 1]
    /\ refresh = [k \in Key |-> Off]
    /\ clock = 0
    /\ changes = 0

Running(k) == refresh[k] # Off
Change == changes < MaxChanges /\ changes' = changes + 1

-----------------------------------------------------------------------------
(* What eBay does: an entry appears on a site or leaves it.                   *)
Appear(site, e) ==
    /\ Change /\ e \notin listed[site]
    /\ listed' = [listed EXCEPT ![site] = @ \cup {e}]
    /\ UNCHANGED <<kind, cache, home, refresh, clock>>

Leave(site, e) ==
    /\ Change /\ e \in listed[site]
    /\ listed' = [listed EXCEPT ![site] = @ \ {e}]
    /\ refresh' = [k \in Key |-> IF Running(k) /\ refresh[k].site = site
                                 THEN [refresh[k] EXCEPT !.calm = FALSE] ELSE refresh[k]]
    /\ UNCHANGED <<kind, cache, home, clock>>

-----------------------------------------------------------------------------
(* A site's task: the listings take a new stamp for each, the orders keep that  *)
(* of the whole refresh.  held, got, calm and alone are ghosts: what the site    *)
(* listed at the start, what was fetched since the stamp, whether nothing left    *)
(* the site and whether no other refresh ran.                                      *)
TaskOn(site, stamp, got, alone) ==
    [at |-> "fetch", site |-> site, page |-> 1, stamp |-> stamp, entry |-> 0, more |-> FALSE,
     held |-> listed[site], got |-> got, calm |-> TRUE, alone |-> alone]

Overlapped(k, task) ==
    [j \in Key |-> IF j = k THEN task ELSE IF Running(j) THEN [refresh[j] EXCEPT !.alone = FALSE] ELSE Off]

Tick == clock < MaxStarts /\ clock' = clock + 1

(* startEbayStoreInventoryCacheRefresh and its twin for orders: a key that is  *)
(* being refreshed is not refreshed again; another key is.                    *)
Begin(k) ==
    /\ ~Running(k)
    /\ Tick
    /\ refresh' = Overlapped(k, TaskOn(1, clock + 1, {}, \A j \in Key : ~Running(j)))
    /\ UNCHANGED <<kind, listed, cache, home, changes>>

StartListings(k) == kind = "listings" /\ Begin(k)
StartOrders(k) == kind = "orders" /\ Begin(k)

Go(k, fields) == refresh' = [refresh EXCEPT ![k] = fields]

(* A page: the entry at its place in what eBay lists at that moment.           *)
Place(e, site) == Cardinality({x \in listed[site] : x <= e})

FetchPage(k) ==
    /\ refresh[k].at = "fetch"
    /\ LET f == refresh[k]
           onPage == {e \in listed[f.site] : Place(e, f.site) = f.page}
       IN IF onPage = {}
          THEN Go(k, [f EXCEPT !.at = "prune"])
          ELSE \E e \in onPage :
                 Go(k, [f EXCEPT !.at = "save", !.entry = e, !.got = @ \cup {e},
                                 !.more = f.page < Cardinality(listed[f.site])])
    /\ UNCHANGED <<kind, listed, cache, home, clock, changes>>

(* The upsert by source key gives the row its stamp; marketplace is written     *)
(* only with a new row.                                                       *)
Save(k) ==
    /\ refresh[k].at = "save"
    /\ LET f == refresh[k]
           row == RowOf(f.site, f.entry)
       IN /\ cache' = [cache EXCEPT ![row] = f.stamp]
          /\ home' = [home EXCEPT ![row] = IF cache[row] = 0 THEN f.site ELSE @]
          /\ Go(k, [f EXCEPT !.at = IF f.more THEN "fetch" ELSE "prune", !.page = @ + 1])
    /\ UNCHANGED <<kind, listed, clock, changes>>

SaveListing(k) == kind = "listings" /\ Save(k)
SaveOrder(k) == kind = "orders" /\ Save(k)

(* The rows of the site that the refresh did not stamp are deleted.           *)
OutdatedOrSame(row, k) == cache[row] <= refresh[k].stamp   \* mutant: the rows just written are removed, too
Outdated(row, k) == cache[row] < refresh[k].stamp

Prune(k) ==
    /\ refresh[k].at = "prune"
    /\ cache' = [x \in Row |-> IF home[x] = refresh[k].site /\ Outdated(x, k) THEN 0 ELSE cache[x]]
    /\ home' = [x \in Row |-> IF cache'[x] = 0 THEN 1 ELSE home[x]]
    /\ Go(k, [refresh[k] EXCEPT !.at = "pruned"])
    /\ UNCHANGED <<kind, listed, clock, changes>>

PruneListings(k) == kind = "listings" /\ Prune(k)
PruneOrders(k) == kind = "orders" /\ Prune(k)

(* On with the next site, or the end of the refresh.                          *)
AtEnd(k) == refresh[k].at \in {"pruned", "failed"}

NextListingSite(k) ==
    /\ kind = "listings" /\ AtEnd(k) /\ refresh[k].site < Sites
    /\ Tick
    /\ Go(k, TaskOn(refresh[k].site + 1, clock + 1, {}, refresh[k].alone))
    /\ UNCHANGED <<kind, listed, cache, home, changes>>

NextOrderSite(k) ==
    /\ kind = "orders" /\ AtEnd(k) /\ refresh[k].site < Sites
    /\ Go(k, TaskOn(refresh[k].site + 1, refresh[k].stamp, refresh[k].got, refresh[k].alone))
    /\ UNCHANGED <<kind, listed, cache, home, clock, changes>>

Finish(k) ==
    /\ AtEnd(k) /\ refresh[k].site = Sites
    /\ Go(k, Off)
    /\ UNCHANGED <<kind, listed, cache, home, clock, changes>>

(* An error leaves the site's rows as they are: nothing of it is deleted.      *)
FailSite(k) ==
    /\ refresh[k].at \in {"fetch", "save"}
    /\ Change
    /\ Go(k, [refresh[k] EXCEPT !.at = "failed"])
    /\ UNCHANGED <<kind, listed, cache, home, clock>>

(* The API process restarts: its refreshes and their progress are forgotten.   *)
Restart ==
    /\ Change
    /\ \E k \in Key : Running(k)
    /\ refresh' = [k \in Key |-> Off]
    /\ UNCHANGED <<kind, listed, cache, home, clock>>

-----------------------------------------------------------------------------
(* updateEbayStoreInventoryItem: eBay first, then whatever rows there are get   *)
(* the moment as their stamp.                                                 *)
Edit(site, e) ==
    /\ kind = "listings" /\ Change
    /\ cache[RowOf(site, e)] # 0 /\ clock > 0
    /\ cache' = [cache EXCEPT ![RowOf(site, e)] = clock]
    /\ refresh' = [k \in Key |-> IF Running(k) /\ refresh[k].site = site
                                 THEN [refresh[k] EXCEPT !.got = @ \cup {e}] ELSE refresh[k]]
    /\ UNCHANGED <<kind, listed, home, clock>>

Next ==
    \/ \E site \in Site, e \in Entry : Appear(site, e) \/ Leave(site, e) \/ Edit(site, e)
    \/ \E k \in Key :
        \/ StartListings(k) \/ StartOrders(k) \/ FetchPage(k) \/ SaveListing(k) \/ SaveOrder(k)
        \/ PruneListings(k) \/ PruneOrders(k) \/ NextListingSite(k) \/ NextOrderSite(k)
        \/ Finish(k) \/ FailSite(k)
    \/ Restart

Spec == Init /\ [][Next]_vars

-----------------------------------------------------------------------------
\* When a refresh that nothing overlapped has pruned a site, the site's rows are entries
\* it was shown (or that were edited meanwhile), so what left eBay before it started is
\* gone; and if nothing left the site while its pages were read, every entry that the
\* site listed throughout is in the cache.
RefreshIsFaithful ==
    \A k \in Key :
        LET f == refresh[k]
        IN Running(k) /\ f.at = "pruned" /\ f.alone =>
             /\ \A x \in Row : cache[x] # 0 /\ home[x] = f.site => x[2] \in f.got
             /\ f.calm => \A e \in f.held : cache[RowOf(f.site, e)] # 0
=============================================================================
