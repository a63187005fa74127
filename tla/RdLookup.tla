------------------------------ MODULE RdLookup ------------------------------
(***************************************************************************)
(* The lookups of the resource directory (aiocoap, cli/rd.py): candidates, *)
(* filters that are evaluated when the loop over the query is over, pages. *)
(* A filter is a generator expression that reads search_key and matches    *)
(* then, and so each uses what the loop left there.                        *)
(***************************************************************************)
EXTENDS Integers, Sequences, FiniteSets, SequencesExt

CONSTANTS
  Candidates,  \* a sequence of what can be found: href, and values per attribute
  Criteria,    \* [key, accepts]: the values that equal it, or start with it where it has a *
  Pages,       \* values of page and count: numbers, None, Text or Twice
  MaxCriteria

VARIABLE query  \* the criteria in their order, and where page and count stand

None == -1
Text == -2
Twice == -3  \* two values
BadRequest == "4.00"
InternalServerError == "5.00"

NoQuery == [criteria |-> <<>>, page |-> None, count |-> None, last |-> FALSE]
InitQuery ==
  /\ query \in [criteria : {<<>>}, page : Pages, count : Pages, last : BOOLEAN]
Search ==
  \E c \in Criteria :
    /\ Len(query.criteria) < MaxCriteria
    /\ \A i \in DOMAIN query.criteria :  \* query_split gathers the values of a key
         query.criteria[i].key = c.key => \A j \in i .. Len(query.criteria) : query.criteria[j].key = c.key
    /\ query' = [query EXCEPT !.criteria = Append(@, c)]

-----------------------------------------------------------------------------
\* The key the loop ends with is that of the last parameter, be it page or count.
Paged(q) == q.page # None \/ q.count # None
SearchKey(q) == IF Paged(q) /\ q.last THEN "count" ELSE Last(q.criteria).key
Values(c, key) == IF key \in DOMAIN c.attributes THEN c.attributes[key] ELSE {}
Passes(q, criterion, c) ==
  IF criterion.key = "href" THEN c.href \in Last(q.criteria).accepts
  ELSE Values(c, SearchKey(q)) \cap Last(q.criteria).accepts # {}
Filtered(q) == SelectSeq(Candidates, LAMBDA c : \A i \in DOMAIN q.criteria : Passes(q, q.criteria[i], c))

\* _paginate
\* Mutant: a page ends with the first of the next.
FirstOfBeyond(page, count) == page * (count + 1)
FirstOf(page, count) == page * count
Shortest(a, b) == IF a < b THEN a ELSE b
Paginated(found, page, count) ==
  LET rest == IF page = None THEN found
              ELSE SubSeq(found, FirstOf(page, count) + 1, Len(found))
  IN IF count = None THEN rest ELSE SubSeq(rest, 1, Shortest(count, Len(rest)))

Lookup(q) ==
  IF Twice \in {q.page, q.count} THEN BadRequest
  ELSE IF q.page # None /\ q.count = None  \* int(None) is a TypeError
    THEN IF q.page = Text THEN BadRequest ELSE InternalServerError
  ELSE IF Text \in {q.page, q.count} THEN BadRequest
  ELSE Paginated(Filtered(q), q.page, q.count)

-----------------------------------------------------------------------------
\* What meets all criteria.
Meets(c, criterion) ==
  IF criterion.key = "href" THEN c.href \in criterion.accepts
  ELSE Values(c, criterion.key) \cap criterion.accepts # {}
Wanted(q) == {i \in DOMAIN Candidates : \A j \in DOMAIN q.criteria : Meets(Candidates[i], q.criteria[j])}

\* A lookup by one criterion, after page and count, finds each match on exactly one page.
PagesPartition ==
  LET q == query
      page(n) == Lookup([q EXCEPT !.page = n])
  IN Len(q.criteria) <= 1 /\ ~ q.last /\ q.count > 0 =>
       \A i \in DOMAIN Candidates :
         Cardinality({n \in 0 .. Len(Candidates) : Candidates[i] \in ToSet(page(n))})
           = IF i \in Wanted(q) THEN 1 ELSE 0

\* "filtered last": page and count apply to what meets the criteria.
FilteredLast == ~ Paged(query) \/ Len(query.criteria) # 1
                  \/ Filtered(query) = SelectSeq(Candidates, LAMBDA c : Meets(c, query.criteria[1]))
==============================================================================
