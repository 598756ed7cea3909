------------------------------ MODULE Catalogue ------------------------------
(***************************************************************************)
(* The catalogue of advertisements: an advertisement is published at an     *)
(* address, which is found or created, and readers go through the pages of  *)
(* a search, with or without a place to search around.                      *)
(*                                                                          *)
(* The address is the one of departure (no search looks at the location of  *)
(* the other); a spot stands for the coordinates, which are unique.  A      *)
(* search is in the default order, the latest advertisement first.          *)
(***************************************************************************)
EXTENDS Contacts, SequencesExt

CONSTANTS
  Ads,
  Spots,      \* coordinates; two of them are never near each other
  MaxLimit,   \* 50 in AdvertisementsService.findAll
  Limits      \* sizes of page that are asked for

ASSUME CatalogueAssumption ==
  /\ MaxLimit \in Nat \ {0} /\ Limits \subseteq Nat \ {0}
  /\ Nil \notin Spots \union Nat \union Seq(Ads)

VARIABLES
  place,    \* rows of addresses, with or without their geographic point
  ad,       \* rows of advertisements
  board,    \* the advertisements ever inserted, the latest first (createdAt)
  scan      \* one reader, who asks for page after page

catalogue == <<place, ad, board, scan>>

NoAd == [status |-> "absent", spot |-> Nil, author |-> Nil]

\* base: the search at the start; shaken: an OPEN row left, or one came between
\* the two queries of one page; still: nothing changed.
NoScan == [at |-> "idle", near |-> Nil, limit |-> 1, page |-> 1, ids |-> {},
           rows |-> Nil, total |-> Nil, got |-> << >>, base |-> << >>,
           shaken |-> FALSE, still |-> TRUE]

CatalogueInit ==
  /\ place = [s \in Spots |-> "absent"]
  /\ ad = [a \in Ads |-> NoAd]
  /\ board = << >>
  /\ scan = NoScan

----------------------------------------------------------------------------
\* The elements of a sequence that are in ids: the k-th of them is the one with
\* k of them up to it.  This is SelectSeq, in a form that can be reasoned about.
Hits(s, ids)    == {i \in DOMAIN s : s[i] \in ids}
Rank(s, ids, i) == Cardinality({j \in Hits(s, ids) : j <= i})
Select(s, ids)  ==
  [k \in 1..Cardinality(Hits(s, ids)) |->
     s[CHOOSE i \in Hits(s, ids) : Rank(s, ids, i) = k]]

----------------------------------------------------------------------------
(* Publication: createWithAddresses *)

Publish(w, a, u, s) ==
  /\ Arrives("publish")
  /\ Live(u) /\ ad[a] = NoAd
  /\ \A v \in Workers : task[v].row # a
  /\ Start(w, [Free EXCEPT !.at = "place_find", !.user = u, !.row = a,
                           !.addr = s])
  /\ UNCHANGED <<load, contacts, catalogue>>

\* createIfNotExist looks for the coordinates before it inserts them.
FindPlace(w) ==
  /\ Doing(w, "place_find")
  /\ Then(w, IF place[task[w].addr] = "absent" THEN "place_insert" ELSE "ad_insert")
  /\ UNCHANGED <<load, contacts, catalogue>>

\* Fault: an address that another request created is taken to be located.
InsertPlaceOnly(w) ==
  /\ Doing(w, "place_insert")
  /\ place' = [place EXCEPT ![task[w].addr] = "plain"]
  /\ Then(w, "ad_insert")
  /\ UNCHANGED <<load, contacts, ad, board, scan>>

\* A violation of the unique key means that another request was faster.
InsertPlace(w) ==
  LET s == task[w].addr
  IN /\ Doing(w, "place_insert")
     /\ IF place[s] = "absent"
        THEN place' = [place EXCEPT ![s] = "plain"] /\ Then(w, "place_locate")
        ELSE place' = place /\ Then(w, "ad_insert")
     /\ UNCHANGED <<load, contacts, ad, board, scan>>

\* setLocation, a statement of its own.
LocatePlace(w) ==
  /\ Doing(w, "place_locate")
  /\ place' = [place EXCEPT ![task[w].addr] = "located"]
  /\ scan' = [scan EXCEPT !.still = FALSE]
  /\ Then(w, "ad_insert")
  /\ UNCHANGED <<load, contacts, ad, board>>

\* What searches show: the rows that are there and neither taken nor expired.
OpenAds == {a \in Ads : ad[a].status = "OPEN"}

\* The search of the reader changes under it: which rows come, which go.
Shaken ==
  scan' = [scan EXCEPT !.still = FALSE,
             !.shaken = \/ @
                         \/ ~(OpenAds \subseteq OpenAds')
                         \/ scan.at = "half"]

InsertAd(w) ==
  LET a == task[w].row
  IN /\ Doing(w, "ad_insert")
     /\ IF Live(task[w].user)
        THEN /\ ad' = [ad EXCEPT ![a] = [status |-> "OPEN",
                         spot |-> task[w].addr, author |-> task[w].user]]
             /\ board' = <<a>> \o board
             /\ Shaken
        ELSE UNCHANGED <<ad, board, scan>>
     /\ Answer(w)
     /\ UNCHANGED <<load, contacts, place>>

\* What becomes of an advertisement, and of the search of the reader.
Becomes(a, status) ==
  /\ ad' = [ad EXCEPT ![a].status = status]
  /\ Shaken
  /\ UNCHANGED <<load, task, contacts, place, board>>

\* Its mission is accepted, or its arrival date passes.
Withdraw(a) ==
  Arrives("withdraw") /\ ad[a].status = "OPEN" /\ Becomes(a, "away")

\* Its mission is cancelled or arbitrated, or its author postpones the arrival:
\* it is back where it was, among rows that came before and after it.
Reopen(a) ==
  Arrives("withdraw") /\ ad[a].status = "away" /\ Becomes(a, "OPEN")

EraseAd(a) ==
  /\ Arrives("delete_ad")
  /\ ad[a].status \in {"OPEN", "away"}
  /\ Becomes(a, "erased")

----------------------------------------------------------------------------
(* Search: searchPublic and findAll *)

Min2(a, b) == IF a <= b THEN a ELSE b
Ceil(a, b) == (a + b - 1) \div b

SafeLimit == Min2(scan.limit, MaxLimit)

\* Fault: the rows that are skipped are counted with the limit as asked.
SkipAsAsked == (scan.page - 1) * scan.limit

Skip  == (scan.page - 1) * SafeLimit
Pages == Ceil(scan.total, SafeLimit)

\* findNearbyIds joins the advertisements with the located addresses.
NearbyIds(s) == {a \in Ads : ad[a].spot = s /\ place[s] = "located"}

\* The rows that match, the latest first.
Matches(ids) == Select(board, ids \intersect OpenAds)

IdsFor(near) == IF near = Nil THEN Ads ELSE NearbyIds(near)

\* The reader asks for a first page.
Search(near, limit) ==
  /\ Arrives("search")
  /\ scan.at = "idle"
  /\ scan' = [NoScan EXCEPT !.at = "asked", !.near = near, !.limit = limit,
                            !.base = Matches(IdsFor(near))]
  /\ UNCHANGED <<load, task, contacts, place, ad, board>>

\* The identifiers around a place are read before the page.
ReadNearby ==
  /\ scan.at = "asked"
  /\ scan' = [scan EXCEPT !.at = "page", !.ids = IdsFor(scan.near)]
  /\ UNCHANGED <<load, task, contacts, place, ad, board>>

\* findMany and count run side by side: either may see an older table.
ReadRows ==
  /\ scan.at \in {"page", "half"} /\ scan.rows = Nil
  /\ scan' = [scan EXCEPT
       !.at = IF scan.total = Nil THEN "half" ELSE "answer",
       !.rows = LET all == Matches(scan.ids)
                IN SubSeq(all, Skip + 1, Min2(Skip + SafeLimit, Len(all)))]
  /\ UNCHANGED <<load, task, contacts, place, ad, board>>

ReadCount ==
  /\ scan.at \in {"page", "half"} /\ scan.total = Nil
  /\ scan' = [scan EXCEPT !.at = IF scan.rows = Nil THEN "half" ELSE "answer",
                          !.total = Len(Matches(scan.ids))]
  /\ UNCHANGED <<load, task, contacts, place, ad, board>>

\* The reader goes on while meta.pages says that there is a next page.
NextPage ==
  /\ scan.at = "answer"
  /\ scan' = [scan EXCEPT !.at = IF scan.page < Pages THEN "asked" ELSE "read",
                          !.page = IF scan.page < Pages THEN @ + 1 ELSE @,
                          !.got = @ \o scan.rows, !.rows = Nil, !.total = Nil]
  /\ UNCHANGED <<load, task, contacts, place, ad, board>>

----------------------------------------------------------------------------
\* A reader who follows the pages of a search that does not change reads each
\* row once, in order.  While rows only come, new ones in front or reopened ones
\* in between, a row may come twice but none is missed, unless one lands between
\* the two queries of a page (AdvertisementsService.findAll).
PagesCoverSearch ==
  scan.at = "read" =>
    /\ scan.still => scan.got = scan.base
    /\ ~scan.shaken => ToSet(scan.base) \subseteq ToSet(scan.got)

\* An advertisement whose departure has coordinates is found by a search
\* around them, or a request that is being served is about to make it so: the
\* two statements that create an address are not one.  A restart between them
\* leaves the address without its point for good.
SearchableOrOwed ==
  "restart" \notin load.kinds =>
    \A a \in Ads : ad[a].status = "OPEN" /\ a \notin NearbyIds(ad[a].spot) =>
      \E w \in Workers : Doing(w, "place_locate") /\ task[w].addr = ad[a].spot
=============================================================================
