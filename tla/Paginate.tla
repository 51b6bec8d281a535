------------------------------- MODULE Paginate -------------------------------
(***************************************************************************)
(* Auto-pagination: the loop of paginate.rs with the Accumulator and the   *)
(* resume tokens of awsc-protocol's pagination.rs, over the runs a user    *)
(* chains by giving the NextToken of one as --starting-token of the next.  *)
(*                                                                         *)
(* The service (external) holds a list cut into pages, some of them empty; *)
(* its token for page n is n, and no token at all is page 1.  A call fails *)
(* or answers.  Only the primary result key is kept: the others are merged *)
(* in full and take no part in the control.                                *)
(***************************************************************************)
EXTENDS Naturals, Sequences

CONSTANTS
  PageLists,          (* the lists to page through: sequences of lengths   *)
  Limits,             (* the values of --max-items; Unlimited is none      *)
  MaxRuns             (* bound: runs a user chains                         *)

Unlimited == 1000
NoToken == [page |-> 0, skip |-> 0]

VARIABLES
  pageAt,             (* "idle", "page", or "over": the user has it all    *)
  pages,              (* the lengths of the service's pages                *)
  token,              (* the resume token of this run, then of the next    *)
  limit,              (* --max-items of this run                           *)
  request,            (* the page the input asks for                       *)
  current,            (* current_tokens: the page that is believed to be   *)
                      (* the one just answered                             *)
  pagesSeen,          (* Accumulator::pages_seen                           *)
  results,            (* Accumulator::results of the primary key           *)
  runs,               (* bound: runs begun                                 *)
  printed,            (* history: the items of the runs that succeeded     *)
  rewound             (* history: a resumed run was cut inside the page it *)
                      (* resumed from, and that page is not the first      *)

pageVars == <<pageAt, pages, token, limit, request, current, pagesSeen,
              results, runs, printed, rewound>>

(* An item is the page it is in and its place there. *)
Items(n) == [i \in 1 .. pages[n] |-> <<n, i>>]
IsItem(n, i) == n \in 1 .. Len(pages) /\ i \in 1 .. pages[n]
Precedes(x, y) == x[1] < y[1] \/ (x[1] = y[1] /\ x[2] < y[2])

PageInit ==
  /\ pageAt = "idle"
  /\ pages \in PageLists
  /\ token = [page |-> 1, skip |-> 0]
  /\ limit = Unlimited
  /\ request = 1 /\ current = 1
  /\ pagesSeen = 0
  /\ results = <<>>
  /\ runs = 0
  /\ printed = <<>>
  /\ rewound = FALSE

-----------------------------------------------------------------------------
(* The command starts.  The token is decoded into the input and the number *)
(* of items to skip, but current_tokens starts as null whatever it says.   *)
Begin ==
  /\ pageAt = "idle"
  /\ runs < MaxRuns
  /\ limit' \in Limits
  /\ request' = token.page
  /\ current' = 1
  /\ pagesSeen' = 0
  /\ results' = <<>>
  /\ runs' = runs + 1
  /\ pageAt' = "page"
  /\ UNCHANGED <<pages, token, printed, rewound>>

(* next_token: the page that follows, if there is one. *)
NextPage == IF request < Len(pages) THEN [page |-> request + 1, skip |-> 0] ELSE NoToken

(* What add_page keeps of the page just answered, before the limit. *)
Fresh ==
  LET skip == IF pagesSeen = 0 THEN token.skip ELSE 0
  IN  SubSeq(Items(request), skip + 1, pages[request])

Remaining == IF limit > Len(results) THEN limit - Len(results) ELSE 0
Cut == Len(Fresh) > Remaining
Kept == IF Cut THEN SubSeq(Fresh, 1, Remaining) ELSE Fresh

(* A mutant: offsets do not compose. *)
OffsetOfThisRun == Remaining

(* truncation_offset, for a page that is the first of its run or not. *)
Offset == Remaining + IF pagesSeen = 0 THEN token.skip ELSE 0

(* The run ends: it prints what it collected, and the token to resume from *)
(* unless the list is exhausted.                                           *)
FinishRun(next) ==
  /\ printed' = printed \o results \o Kept
  /\ token' = next
  /\ pageAt' = IF next = NoToken THEN "over" ELSE "idle"
  /\ UNCHANGED <<pages, limit, request, current, runs>>

Page ==
  /\ pageAt = "page"
  /\ results' = results \o Kept
  /\ pagesSeen' = pagesSeen + 1

(* The limit fell inside the page: the token names the page it was cut in. *)
CutPage ==
  /\ Page
  /\ Cut
  /\ FinishRun([page |-> current, skip |-> Offset])
  /\ rewound' = (rewound \/ (pagesSeen = 0 /\ request # 1))

(* The limit fell on the end of the page: the token is the next page's. *)
LastPage ==
  /\ Page
  /\ ~Cut
  /\ Len(results) + Len(Kept) >= limit \/ NextPage = NoToken
  /\ FinishRun(NextPage)
  /\ UNCHANGED rewound

MorePages ==
  /\ Page
  /\ ~Cut
  /\ Len(results) + Len(Kept) < limit
  /\ NextPage # NoToken
  /\ request' = NextPage.page
  /\ current' = NextPage.page
  /\ UNCHANGED <<pageAt, pages, token, limit, runs, printed, rewound>>

(* A call fails: nothing of the run is printed, and the user still has the *)
(* token it began with.                                                    *)
FailPage ==
  /\ pageAt = "page"
  /\ pageAt' = "idle"
  /\ UNCHANGED <<pages, token, limit, request, current, pagesSeen, results,
                 runs, printed, rewound>>

Loop == CutPage \/ LastPage \/ MorePages \/ FailPage
PageNext == Begin \/ Loop

PageSpec == PageInit /\ [][PageNext]_pageVars

(* Every call is answered or fails. *)
PageFairSpec == PageSpec /\ WF_pageVars(Loop)

-----------------------------------------------------------------------------
(* The items printed are a beginning of the list: items, in order, none    *)
(* left out before another; and in the end they are all of them.           *)
Printed(n, i) == \E k \in 1 .. Len(printed) : printed[k] = <<n, i>>
Exact ==
  /\ \A k \in 1 .. Len(printed) : IsItem(printed[k][1], printed[k][2])
  /\ \A k, l \in 1 .. Len(printed) : k < l => Precedes(printed[k], printed[l])
  /\ \A n \in 1 .. Len(pages) : \A i \in 1 .. pages[n] :
       pageAt = "over" \/ (\E k \in 1 .. Len(printed) : Precedes(<<n, i>>, printed[k]))
         => Printed(n, i)

(* The runs of a chain print the list once, in order and without a gap,    *)
(* wherever their limits cut it and whichever calls fail ("the resumed run *)
(* must skip them. Dropping that offset silently re-returns items") -- so  *)
(* long as no run is cut inside the page it resumed from, the first page   *)
(* excepted.                                                               *)
ResumeExact == ~rewound => Exact

(* The same, with no exception ("Offsets compose, so a resume of a resume  *)
(* points at the right item").                                             *)
ResumeOfResume == Exact

(* Each run ends: this is so again and again. *)
PageOver == pageAt # "page"
===============================================================================
