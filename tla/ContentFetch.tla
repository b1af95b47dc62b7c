---------------------------- MODULE ContentFetch ----------------------------
(***************************************************************************)
(* A request that gathers content from a provider: it enumerates pages,     *)
(* then fetches the items it found with a few workers at once.              *)
(*                                                                         *)
(* Notes, questions and images of a range of verses come from one search    *)
(* of Aquifer, a manifest for offline use from several, the chapter of a    *)
(* YouVersion Bible from its list of passages, and the list of YouVersion   *)
(* Bibles from pages alone.  The providers are modelled from how their      *)
(* clients are used: they answer, or throttle, or fail, as often as they    *)
(* like.                                                                    *)
(***************************************************************************)
EXTENDS Naturals, FiniteSets, Sequences, SequencesExt, FiniteSetsExt, TLC

CONSTANTS
    Library,      \* the pages of each search, a sequence of sequences of items
    Calls,        \* what may be asked: [kind, searches], searches being a sequence
    Assets,       \* items with the URL of an asset
    Verses,       \* passages that are verses, among the numbers that name passages
    PageSize,     \* items of a page that is not the last
    MaxPages,     \* AQUIFER_MAX_SEARCH_PAGES and MAX_BIBLES_PAGES
    Concurrency,  \* HYDRATE_CONCURRENCY and PASSAGE_CONCURRENCY
    MaxRetries,   \* MAX_429_RETRIES
    None

VARIABLES
    request,      \* [pc, call, items, truncated, answer]
    search,       \* [nth, page, found]: the search, its pages so far and what they had
    pool          \* [hits, next, flight, slot, expired]: the workers and their results

vars == <<request, search, pool>>

(* Does the handler use the workers, and the 429s of YouVersion?            *)
Hydrates(kind) == kind # "bibles"
Retrying == request.call.kind = "chapter"
Pages == Library[request.call.searches[search.nth]]
Fresh == [nth |-> 1, page |-> 0, found |-> <<>>]
Still == [hits |-> <<>>, next |-> 1, flight |-> <<>>, slot |-> <<>>, expired |-> FALSE]

Answers(with) == request' = [request EXCEPT !.pc = "answered", !.answer = with]

-----------------------------------------------------------------------------
Begin(call) ==
    /\ request.pc = "idle"
    /\ request' = [pc |-> "searching", call |-> call, items |-> <<>>, truncated |-> FALSE, answer |-> None]
    /\ search' = Fresh /\ pool' = Still

AskResources == \E call \in Calls : call.kind \in {"notes", "images", "manifest"} /\ Begin(call)
AskYouVersion == \E call \in Calls : call.kind \in {"chapter", "bibles"} /\ Begin(call)

(* An item may be found by several verses; a manifest keeps it for each.    *)
First(hits) == FoldLeft(LAMBDA seen, hit : IF Contains(seen, hit) THEN seen ELSE Append(seen, hit), <<>>, hits)
Hits(kind, found) ==
    CASE kind = "manifest" -> found
      [] kind = "chapter" -> SelectSeq(found, LAMBDA p : p \in Verses)
      [] OTHER -> First(found)

(* The workers start together, each with its first item.                    *)
Workers(hits) ==
    LET n == Min({Concurrency, Len(hits)})
    IN [hits |-> hits, next |-> n + 1, flight |-> [i \in 1 .. n |-> [at |-> "fetching", attempt |-> 0]],
        slot |-> [i \in 1 .. Len(hits) |-> None], expired |-> FALSE]

(* Is it certain that no page is left?  Aquifer says so by its count or by  *)
(* a short page, YouVersion by a page without a token for the next.         *)
(* Mutant of Proved: the last page that is asked for ends the search.       *)
ProvedByCeiling ==
    \/ search.page + 1 >= Len(Pages) \/ search.page + 1 = MaxPages
    \/ request.call.kind # "bibles" /\ Len(Pages[search.page + 1]) < PageSize
Proved ==
    \/ search.page + 1 >= Len(Pages)
    \/ request.call.kind # "bibles" /\ Len(Pages[search.page + 1]) < PageSize

PageFails ==
    /\ request.pc = "searching"
    /\ Answers("error")
    /\ UNCHANGED <<search, pool>>

(* A Bible without this book or chapter has no verses in it.                *)
NoChapter ==
    /\ request.pc = "searching" /\ Retrying
    /\ Answers("ok")
    /\ UNCHANGED <<search, pool>>

Page ==
    LET found == search.found \o Pages[search.page + 1]
        done == Proved \/ search.page + 1 = MaxPages
    IN /\ request.pc = "searching"
       /\ search' = [search EXCEPT !.page = @ + 1, !.found = found]
       /\ \/ ~done /\ UNCHANGED <<request, pool>>
          \/ /\ done /\ Hydrates(request.call.kind)
             /\ request' = [request EXCEPT !.pc = "fetching", !.truncated = @ \/ ~Proved]
             /\ pool' = Workers(Hits(request.call.kind, found))
          \/ /\ done /\ ~Hydrates(request.call.kind)
             /\ request' = [request EXCEPT !.pc = "answered", !.answer = IF Proved THEN "ok" ELSE "error",
                               !.items = IF Proved THEN found ELSE <<>>]
             /\ UNCHANGED pool

-----------------------------------------------------------------------------
(* The workers.  One that has a result takes the next item at once, and     *)
(* gives it up at once when the time of the chapter is over.                *)
Flying == DOMAIN pool.flight
Begins(attempt) == [at |-> IF pool.expired THEN "refused" ELSE "fetching", attempt |-> attempt]

(* Mutant of Filled: the results are kept in the order they come in.        *)
FilledInTurn(i, outcome) ==
    LET full == {j \in DOMAIN pool.slot : pool.slot[j] # None}
    IN [pool.slot EXCEPT ![Cardinality(full) + 1] = [item |-> pool.hits[i], ok |-> outcome]]
Filled(i, outcome) == [pool.slot EXCEPT ![i] = [item |-> pool.hits[i], ok |-> outcome]]

Ends(i, outcome) ==
    LET left == [j \in Flying \ {i} |-> pool.flight[j]]
        more == pool.next <= Len(pool.hits)
    IN /\ pool' = [pool EXCEPT !.slot = Filled(i, outcome), !.next = IF more THEN @ + 1 ELSE @,
                       !.flight = IF more THEN left @@ pool.next :> Begins(0) ELSE left]
       /\ UNCHANGED <<request, search>>

Fetching(i) == request.pc = "fetching" /\ i \in Flying

Fetched(i) ==
    /\ Fetching(i) /\ pool.flight[i].at = "fetching"
    /\ Ends(i, TRUE)

Fails(i) ==
    /\ Fetching(i) /\ pool.flight[i].at \in {"fetching", "refused"}
    /\ Ends(i, FALSE)

(* YouVersion answers 429: the worker sleeps and asks again, so many times. *)
Throttled(i) ==
    /\ Fetching(i) /\ Retrying
    /\ pool.flight[i].at = "fetching" /\ pool.flight[i].attempt < MaxRetries
    /\ pool' = [pool EXCEPT !.flight[i] = [at |-> "sleeping", attempt |-> @.attempt + 1]]
    /\ UNCHANGED <<request, search>>

Wakes(i) ==
    /\ Fetching(i) /\ pool.flight[i].at = "sleeping"
    /\ pool' = [pool EXCEPT !.flight[i] = Begins(@.attempt)]
    /\ UNCHANGED <<request, search>>

(* CHAPTER_TOTAL_TIMEOUT_MS *)
Expires ==
    /\ request.pc = "fetching" /\ Retrying /\ ~pool.expired
    /\ pool' = [pool EXCEPT !.expired = TRUE]
    /\ UNCHANGED <<request, search>>

-----------------------------------------------------------------------------
(* All workers are done.  A section with nothing but failures is an error,  *)
(* and so is a manifest with one; a chapter has the verses that came.       *)
Got == SelectSeq(pool.slot, LAMBDA s : s.ok)
Refused ==
    LET failed == Len(pool.slot) - Len(Got) IN
    /\ failed > 0 /\ request.call.kind # "chapter"
    /\ request.call.kind = "manifest" \/ Len(Got) = 0
HasAsset(item) == item \in Assets
Ascending(verses) == SortSeq(verses, LAMBDA m, n : m < n)
Items ==
    LET all == [n \in 1 .. Len(Got) |-> Got[n].item] IN
    CASE request.call.kind = "images" -> SelectSeq(all, HasAsset)
      [] request.call.kind = "chapter" -> Ascending(all)
      [] OTHER -> all

Collect ==
    LET last == search.nth = Len(request.call.searches) IN
    /\ request.pc = "fetching" /\ Flying = {}
    /\ IF Refused THEN Answers("error") /\ UNCHANGED search
       ELSE /\ request' = [request EXCEPT !.items = @ \o Items, !.pc = IF last THEN "answered" ELSE "searching",
                              !.answer = IF last THEN "ok" ELSE None]
            /\ search' = IF last THEN search ELSE [Fresh EXCEPT !.nth = search.nth + 1]
    /\ pool' = Still

-----------------------------------------------------------------------------
Init ==
    /\ request = [pc |-> "idle", call |-> None, items |-> <<>>, truncated |-> FALSE, answer |-> None]
    /\ search = Fresh /\ pool = Still

Work == \E i \in Flying : Fetched(i) \/ Fails(i) \/ Throttled(i) \/ Wakes(i)
Search == Page \/ PageFails \/ NoChapter
(* What node continues with when a provider has answered or is given up.   *)
Proceed == Search \/ Work \/ Collect
Next == AskResources \/ AskYouVersion \/ Proceed \/ Expires

Gathering == request.pc \in {"searching", "fetching"}

Spec == Init /\ [][Next]_vars

-----------------------------------------------------------------------------
TypeOK ==
    /\ request.pc \in {"idle", "searching", "fetching", "answered"}
    /\ request.answer \in {None, "ok", "error"}
    /\ search.page \in 0 .. MaxPages /\ pool.next \in 1 .. Len(pool.hits) + 1
    /\ Cardinality(Flying) <= Concurrency

(* An answer says what it has: a list of Bibles is whole, and so is a       *)
(* manifest that is not truncated, in the order of its searches; what       *)
(* range of verses has is in the order of the search, each item once, and   *)
(* empty only if there was nothing to show; the verses of a chapter ascend. *)
(* Neither failures nor the order in which workers end change that          *)
(* (translation-resources.service.ts, youversion.client.ts).                *)
Everything(s) == FlattenSeq(Library[s])
Ok(kind) == request.pc = "answered" /\ request.answer = "ok" /\ request.call.kind = kind
Succession(items, all) ==
    \A m, n \in DOMAIN items : m < n => \E k, l \in DOMAIN all : k < l /\ all[k] = items[m] /\ all[l] = items[n]
AnswersMeanIt ==
    /\ Ok("bibles") => request.items = Everything(request.call.searches[1])
    /\ Ok("manifest") =>
        LET all == FlattenSeq([k \in DOMAIN request.call.searches |-> Everything(request.call.searches[k])]) IN
        /\ Succession(request.items, all)
        /\ (request.items = all) = ~request.truncated
    /\ \A kind \in {"notes", "images"} : Ok(kind) =>
        LET all == Everything(request.call.searches[1]) IN
        /\ Succession(request.items, all) /\ IsInjective(request.items)
        /\ request.items = <<>> => (all = <<>> \/ (kind = "images" /\ \E i \in ToSet(all) : ~HasAsset(i)))
    /\ Ok("chapter") =>
        /\ ToSet(request.items) \subseteq Verses \cap ToSet(Everything(request.call.searches[1]))
        /\ \A m, n \in DOMAIN request.items : m < n => request.items[m] < request.items[n]
=============================================================================
