------------------------------ MODULE Paginators ------------------------------
(***************************************************************************)
(* A message that shows a collection page by page.  mountPaginator holds   *)
(* the items and the page in memory until its collector ends; the          *)
(* persistent paginator holds nothing, has the page to go to in the ids of *)
(* its buttons, survives restarts, and reads a source that changes under it*)
(* twice when the page asked for is not there.  Pages are counted from 1.  *)
(***************************************************************************)
EXTENDS Integers

CONSTANTS
    Totals,             \* how many items may be mounted, naturals
    PageSize,           \* at least 1
    Openings,           \* the pages asked for at first, any integers
    MaxPages,           \* the most pages of a source, a natural
    Flips,              \* the clicks that may be handled at once
    Uncounted           \* a count of pages that is not a finite number

ASSUME PagingAssumption ==
    /\ Totals \subseteq Nat /\ PageSize \in Nat \ {0} /\ MaxPages \in Nat
    /\ Openings \subseteq Int /\ Flips \subseteq Int

VARIABLES
    book,               \* what is shown, and how many items or pages it has now
    page,               \* the state store of a mounted paginator
    collecting,         \* its collector: on, ending or off
    shown,              \* the message
    flips               \* flips[c]: a click being handled

pagingVars == <<book, page, collecting, shown, flips>>

FIRST_PAGE == 1
AtLeast(n, least) == IF n < least THEN least ELSE n

PageCount(total) == AtLeast((total + PageSize - 1) \div PageSize, FIRST_PAGE)
NormalisedCount(count) == IF count = Uncounted THEN FIRST_PAGE ELSE AtLeast(count, FIRST_PAGE)

ClampPage(p, count) == IF AtLeast(p, FIRST_PAGE) > count THEN count ELSE AtLeast(p, FIRST_PAGE)

(* The two buttons, as they are enabled; a single page has none.           *)
Buttons(p, count) ==
    {[by |-> d, to |-> ClampPage(p + d, count)] :
        d \in {d \in {-1, 1} : count > 1 /\ (d = -1 => p > FIRST_PAGE) /\ (d = 1 => p < count)}}

Render(p, count) == [page |-> p, buttons |-> Buttons(p, count)]
NoPage == Render(FIRST_PAGE, 1)

(* History of a click: how many pages there were when its page was read,   *)
(* whether the source counted them, and whether it changed since the first *)
(* of two reads.                                                           *)
Free == [at |-> "free", asked |-> FIRST_PAGE, view |-> NoPage, pages |-> 1, counted |-> TRUE, moved |-> FALSE]

HoldsItems == book.kind = "items"
Fetched(f, reported) ==
    [f EXCEPT !.at = "answering", !.asked = FIRST_PAGE, !.view = Render(f.asked, NormalisedCount(reported)),
              !.pages = AtLeast(book.size, FIRST_PAGE), !.counted = reported # Uncounted]
FlipBecomes(c, f) == flips' = [flips EXCEPT ![c] = f]

(* mountPaginator, or the first render of a persistent one.                *)
PagingInit ==
    /\ book \in {[kind |-> "none", size |-> 0]}
                \cup {[kind |-> "items", size |-> n] : n \in Totals}
                \cup {[kind |-> "source", size |-> n] : n \in 0 .. MaxPages}
    /\ \E first \in Openings :
          /\ page = IF HoldsItems THEN ClampPage(first, PageCount(book.size)) ELSE FIRST_PAGE
          /\ shown = IF HoldsItems THEN Render(page, PageCount(book.size)) ELSE NoPage
          /\ flips = [c \in Flips |->
                         IF book.kind = "source" /\ \A d \in Flips : c <= d
                         THEN [Free EXCEPT !.at = "reading", !.asked = AtLeast(first, FIRST_PAGE)] ELSE Free]
    /\ collecting = IF HoldsItems /\ PageCount(book.size) > 1 THEN "on" ELSE "off"

-------------------------------------------------------------------------------
(* A click on a mounted paginator: the page follows from the store, which  *)
(* another click may have moved since the message was drawn.               *)
Flip(c) ==
    LET count == PageCount(book.size) IN
    /\ collecting = "on" /\ flips[c].at = "free"
    /\ \E b \in shown.buttons : page' = ClampPage(page + b.by, count)
    /\ FlipBecomes(c, [Free EXCEPT !.at = "answering", !.view = Render(page', count), !.pages = count])
    /\ UNCHANGED <<book, collecting, shown>>

EndPaging == collecting = "on" /\ collecting' = "ending" /\ UNCHANGED <<book, page, shown, flips>>

DisableOnEnd ==
    /\ collecting = "ending" /\ collecting' = "off"
    /\ shown' \in {[shown EXCEPT !.buttons = {}], shown}
    /\ UNCHANGED <<book, page, flips>>

-------------------------------------------------------------------------------
(* handleClick, of a button of the message as it is or once was, or of one *)
(* that an older build made, whose page cannot be read; then loadPage.     *)
Choose(c) ==
    /\ book.kind = "source" /\ flips[c].at = "free"
    /\ \E asked \in FIRST_PAGE .. MaxPages :
          FlipBecomes(c, [Free EXCEPT !.at = "reading", !.asked = asked])
    /\ UNCHANGED <<book, page, collecting, shown>>

(* Faulty: whatever was asked for is shown.                                *)
FetchAsAsked(c, reported) ==
    /\ flips[c].at = "reading"
    /\ FlipBecomes(c, Fetched(flips[c], reported))
    /\ UNCHANGED <<book, page, collecting, shown>>

FetchPage(c, reported) ==
    LET f == flips[c]
        there == ClampPage(f.asked, NormalisedCount(reported))
    IN  /\ f.at = "reading"
        /\ FlipBecomes(c, IF there = f.asked THEN Fetched(f, reported)
                          ELSE [f EXCEPT !.at = "again", !.asked = there])
        /\ UNCHANGED <<book, page, collecting, shown>>

FetchAgain(c, reported) ==
    /\ flips[c].at = "again"
    /\ FlipBecomes(c, Fetched(flips[c], reported))
    /\ UNCHANGED <<book, page, collecting, shown>>

(* The acknowledgement or a read fails: logged by the component router.    *)
FetchFails(c) ==
    /\ flips[c].at \in {"reading", "again"}
    /\ FlipBecomes(c, Free)
    /\ UNCHANGED <<book, page, collecting, shown>>

(* The edit of the message lands, or fails, in any order.                  *)
Land(c) ==
    /\ flips[c].at = "answering"
    /\ shown' \in {flips[c].view, shown}
    /\ FlipBecomes(c, Free)
    /\ UNCHANGED <<book, page, collecting>>

SourceChanges ==
    /\ book.kind = "source"
    /\ \E n \in 0 .. MaxPages \ {book.size} : book' = [book EXCEPT !.size = n]
    /\ flips' = [c \in Flips |-> [flips[c] EXCEPT !.moved = @ \/ flips[c].at = "again"]]
    /\ UNCHANGED <<page, collecting, shown>>

(* The process starts again; the messages stay.                            *)
Restart ==
    /\ book.kind # "none"
    /\ flips' = [c \in Flips |-> Free] /\ collecting' = "off"
    /\ UNCHANGED <<book, page, shown>>

PagingNext ==
    \/ \E c \in Flips : Flip(c) \/ Choose(c) \/ FetchFails(c) \/ Land(c)
    \/ \E c \in Flips, reported \in {book.size, Uncounted} : FetchPage(c, reported) \/ FetchAgain(c, reported)
    \/ EndPaging \/ DisableOnEnd
    \/ SourceChanges
    \/ Restart

PagingSpec == PagingInit /\ [][PagingNext]_pagingVars

-------------------------------------------------------------------------------
(* However fast the buttons are clicked, however late the edits land, and  *)
(* whatever the source became since: the page shown was there when it was  *)
(* read, its buttons lead only to pages that were, and one of several pages*)
(* is no dead end while a collector answers; unless the source changed     *)
(* between the two reads of a click (loadPage, page-state.ts).             *)
SoundPage(view, last, navigable) ==
    /\ view.page \in FIRST_PAGE .. last
    /\ \A b \in view.buttons : b.to \in FIRST_PAGE .. last \ {view.page}
    /\ navigable /\ last > 1 => view.buttons # {}

PagesSound ==
    /\ HoldsItems => SoundPage(shown, PageCount(book.size), collecting = "on")
    /\ \A c \in Flips :
          flips[c].at = "answering" /\ ~flips[c].moved
          => SoundPage(flips[c].view, flips[c].pages, flips[c].counted)

===============================================================================
