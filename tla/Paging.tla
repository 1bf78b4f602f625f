------------------------------- MODULE Paging --------------------------------
(***************************************************************************)
(* The paged proposal list of frontend/src/App.tsx and the controls of     *)
(* components/Pagination.tsx.  The page kept in the state may lie beyond   *)
(* the last page when the filtered list shrinks; what is shown is clamped, *)
(* what the buttons change is not.                                         *)
(***************************************************************************)
EXTENDS Integers, Sequences, FiniteSets, FiniteSetsExt, SequencesExt

CONSTANTS
  PAGE_SIZE,
  MaxList      \* bound on the length of the filtered list

ASSUME PagingAssumption == PAGE_SIZE \in Nat \ {0} /\ MaxList \in Nat

VARIABLES
  filtered,    \* length of the filtered list
  page         \* the page kept in the state

paging_vars == <<filtered, page>>

totalPages_Floor(n) == Max({1, n \div PAGE_SIZE})
totalPages(n) == Max({1, (n + PAGE_SIZE - 1) \div PAGE_SIZE})
safePage == Min({page, totalPages(filtered)})

\* pagedProposals: the positions of the list on page p.
Slice(p) == {i \in 1..filtered : (p - 1) * PAGE_SIZE < i /\ i <= p * PAGE_SIZE}

\* Pagination's "start-end of totalCount".
Summary == <<IF filtered = 0 THEN 0 ELSE (safePage - 1) * PAGE_SIZE + 1,
             Min({safePage * PAGE_SIZE, filtered})>>

\* buildPageNumbers, with 0 for the null that marks a gap.  Pagination shows
\* the numbers only to a caller that passes onPage; App passes none.
PageWindow_NoLast(c, total) == {1} \cup (Max({1, c - 1})..Min({total, c + 1}))
PageWindow(c, total) == {1, total} \cup (Max({1, c - 1})..Min({total, c + 1}))
Ascending(s) == \A i, j \in DOMAIN s : i < j => s[i] < s[j]
\* The window in order: at most the first, the last and three around c.
Sorted(window) == CHOOSE s \in SeqOf(window, 5) : ToSet(s) = window /\ Ascending(s)
\* What a turn of the loop pushes; the loop has a turn for each number.
Pushed(s, i) ==
  IF i > Len(s) THEN <<>>
  ELSE IF i > 1 /\ s[i] - s[i - 1] > 1 THEN <<0, s[i]>> ELSE <<s[i]>>
buildPageNumbers(c, total) ==
  LET s == Sorted(PageWindow(c, total))
  IN  IF total <= 1 THEN <<>>
      ELSE Pushed(s, 1) \o Pushed(s, 2) \o Pushed(s, 3) \o Pushed(s, 4) \o Pushed(s, 5)

PagingInit == filtered = 0 /\ page = 1

\* Another search text or state filter: the effect resets the page.
SetFilter(n) ==
  filtered' = n /\ page' = 1

\* The list is loaded again: it may grow, and under a filter shrink.
SetProposals(n) ==
  /\ filtered' = n
  /\ UNCHANGED page

onPrev ==
  /\ safePage > 1
  /\ page' = Max({1, page - 1})
  /\ UNCHANGED filtered

NextPage == Min({totalPages(filtered), page + 1})
onNext ==
  /\ safePage < totalPages(filtered)
  /\ page' = NextPage
  /\ UNCHANGED filtered

PagingNext ==
  \/ onPrev \/ onNext
  \/ \E n \in 0..MaxList : SetFilter(n) \/ SetProposals(n)
PagingSpec == PagingInit /\ [][PagingNext]_paging_vars
-----------------------------------------------------------------------------
(* Every proposal of the filtered list is on exactly one of the pages the  *)
(* buttons can reach, the page shown holds one unless the list is empty,   *)
(* and the summary names exactly its first and last                        *)
(* (App.tsx totalPages, safePage, pagedProposals; Pagination.tsx).         *)
PagesPartitionList ==
  /\ \A i \in 1..filtered :
       Cardinality({p \in 1..totalPages(filtered) : i \in Slice(p)}) = 1
  /\ filtered > 0 => /\ Slice(safePage) # {}
                     /\ Summary = <<Min(Slice(safePage)), Max(Slice(safePage))>>

(* The page numbers offered are increasing and at most five, hold the      *)
(* first, the last, the current page and its neighbours, and a gap mark    *)
(* stands exactly where numbers are skipped (Pagination.tsx                *)
(* buildPageNumbers and its comment).                                      *)
PageNumbersRight ==
  LET total == totalPages(filtered)
      nums == buildPageNumbers(safePage, total)
      numbered == {i \in DOMAIN nums : nums[i] # 0}
  IN  total > 1 =>
        /\ {1, total, safePage} \subseteq ToSet(nums)
        /\ {safePage - 1, safePage + 1} \cap (1..total) \subseteq ToSet(nums)
        /\ Cardinality(numbered) <= 5
        /\ \A i, j \in numbered : i < j => nums[i] < nums[j]
        /\ \A i \in DOMAIN nums :
             nums[i] = 0 => {i - 1, i + 1} \subseteq numbered
                              /\ nums[i + 1] > nums[i - 1] + 1
        /\ \A i \in 1..(Len(nums) - 1) :
             {i, i + 1} \subseteq numbered => nums[i + 1] = nums[i] + 1

(* The pages partition the list and the page numbers offered lead to them  *)
(* (App.tsx:184-192, Pagination.tsx).                                      *)
PagesRight == PagesPartitionList /\ PageNumbersRight
=============================================================================
