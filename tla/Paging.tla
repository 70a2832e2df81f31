------------------------------- MODULE Paging -------------------------------
(***************************************************************************)
(* The lists of the HTTP API (internal/server) over the store: a client    *)
(* asks for a page, then follows has_next while rows are added and, in the *)
(* list of incidents, move to the front or, under a filter, leave.         *)
(***************************************************************************)
EXTENDS Capacity, Sequences

CONSTANTS
    MaxInt,                                 \* the largest int of the platform
    DefaultPageSize, MaxPageSize,           \* defaultPageSize, maxPageSize
    DefaultListLimit, MaxListLimit,         \* of the store
    MaxRows                                 \* bound on the rows of the list

ASSUME PagingAssumption ==
    /\ MaxInt \in Nat \ {0} /\ MaxPageSize \in Nat \ {0}
    /\ MaxPageSize < MaxInt
    /\ DefaultPageSize \in 1 .. MaxPageSize
    /\ DefaultListLimit \in Nat \ {0}
    /\ MaxListLimit = MaxPageSize + 1
    /\ MaxRows \in Nat

VARIABLES
    list,       \* the rows in the order of the query, newest first
    page,       \* the page on display: number, perPage, offset
    more,       \* has_next
    known,      \* the rows a walk that began at the first page has to see
    seen        \* the rows it has seen

pagingVars == <<list, page, more, known, seen>>

\* An int of the platform, in two's complement.
MachineInt(n) == ((n + MaxInt + 1) % (2 * (MaxInt + 1))) - (MaxInt + 1)

\* What a client can send: nothing, or a number that Atoi can read.
Missing == -1
Parameters == 0 .. MaxInt \union {Missing}

\* positiveInt; 0 stands for its error.
PositiveInt(value, fallback) == IF value = Missing THEN fallback ELSE value

\* A slip: the offset is not compared with the largest int.
AcceptedUnchecked(number, perPage) ==
    LET n == PositiveInt(number, 1)
        k == PositiveInt(perPage, DefaultPageSize)
    IN  n > 0 /\ k > 0 /\ k <= MaxPageSize

\* parsePage returns no error.
Accepted(number, perPage) ==
    LET n == PositiveInt(number, 1)
        k == PositiveInt(perPage, DefaultPageSize)
    IN  n > 0 /\ k > 0 /\ k <= MaxPageSize /\ n - 1 <= MaxInt \div k

PageOf(number, perPage) ==
    LET n == PositiveInt(number, 1)
        k == PositiveInt(perPage, DefaultPageSize)
    IN  [number |-> n, perPage |-> k, offset |-> MachineInt((n - 1) * k)]

\* A slip: the cap leaves no room for the look-ahead row of the largest page.
ListLimitOfPage(limit) ==
    IF limit <= 0 THEN DefaultListLimit
    ELSE IF limit > MaxPageSize THEN MaxPageSize ELSE limit

ListLimit(limit) ==
    IF limit <= 0 THEN DefaultListLimit
    ELSE IF limit > MaxListLimit THEN MaxListLimit ELSE limit

ListOffset(offset) == IF offset < 0 THEN 0 ELSE offset

\* LIMIT and OFFSET of the query.
Select(rows, limit, offset) ==
    LET end == offset + limit
    IN  SubSeq(rows, offset + 1, IF end <= Len(rows) THEN end ELSE Len(rows))

\* What the query of a page returns, its look-ahead row included.
Fetch(p) == Select(list, ListLimit(p.perPage + 1), ListOffset(p.offset))

\* finishPage: the look-ahead row only tells that there is more.
Shown(p) ==
    IF Len(Fetch(p)) > p.perPage THEN SubSeq(Fetch(p), 1, p.perPage) ELSE Fetch(p)

HasNext(p) == Len(Fetch(p)) > p.perPage

-----------------------------------------------------------------------------

RowsOf(rows) == {rows[k] : k \in DOMAIN rows}

FirstPage == [number |-> 1, perPage |-> DefaultPageSize, offset |-> 0]

PagingInit ==
    /\ list = <<>>
    /\ page = FirstPage /\ more = FALSE
    /\ known = {} /\ seen = {}

Answer(p) == page' = p /\ more' = HasNext(p)

\* A request with any parameters.  One that is refused changes nothing.
Open(number, perPage) ==
    /\ Accepted(number, perPage)
    /\ LET p == PageOf(number, perPage)
       IN  /\ Answer(p)
           /\ known' = IF p.number = 1 THEN RowsOf(list) ELSE {}
           /\ seen' = RowsOf(Shown(p))
    /\ UNCHANGED list

\* The client asks for the next page, with the same page size.
Follow ==
    /\ more /\ Accepted(page.number + 1, page.perPage)
    /\ LET p == PageOf(page.number + 1, page.perPage)
       IN  Answer(p) /\ seen' = seen \union RowsOf(Shown(p))
    /\ UNCHANGED <<list, known>>

\* A row is added: at the front, or among those of the same second.
Insert(row, k) ==
    /\ row \notin RowsOf(list) /\ k \in 0 .. Len(list)
    /\ list' = SubSeq(list, 1, k) \o <<row>> \o SubSeq(list, k + 1, Len(list))
    /\ UNCHANGED <<page, more, known, seen>>

\* With a filter for a state, a row that changes its state leaves the list.  The
\* rows behind it move up, onto pages already read: the walk owes nothing more.
Leave(k) ==
    /\ k \in DOMAIN list
    /\ list' = SubSeq(list, 1, k - 1) \o SubSeq(list, k + 1, Len(list))
    /\ known' = {}
    /\ UNCHANGED <<page, more, seen>>

\* An incident seen again comes first in the order of last_seen_at.  A walk
\* under way owes it nothing more.
Repeat(k) ==
    /\ k \in DOMAIN list
    /\ list' = <<list[k]>> \o SubSeq(list, 1, k - 1) \o SubSeq(list, k + 1, Len(list))
    /\ known' = known \ {list[k]}
    /\ UNCHANGED <<page, more, seen>>

PagingNext ==
    \/ \E number, perPage \in Parameters : Open(number, perPage)
    \/ Follow
    \/ \E row \in 1 .. MaxRows, k \in 0 .. MaxRows : Insert(row, k)
    \/ \E k \in 1 .. MaxRows : Leave(k) \/ Repeat(k)

PagingSpec == PagingInit /\ [][PagingNext]_pagingVars

-----------------------------------------------------------------------------

PagingTypeOK ==
    /\ list \in Seq(Nat) /\ Len(list) <= MaxRows
    /\ page \in [number : 1 .. MaxInt, perPage : 1 .. MaxPageSize, offset : 0 .. MaxInt]
    /\ more \in BOOLEAN
    /\ known \subseteq Nat /\ seen \subseteq Nat

\* The rows from position first on, at most count of them.
Stretch(first, count) ==
    [k \in 1 .. Least(count, Len(list) - first + 1) |-> list[first + k - 1]]

\* A page shows the rows at its place in the list and nothing else, and says
\* that there are more exactly when there are: for the largest page size, whose
\* look-ahead row the store has to return, and for page numbers whose offset
\* is next to overflowing.
PageShowsItsRows ==
    \A number, perPage \in Parameters : Accepted(number, perPage) =>
        LET p      == PageOf(number, perPage)
            before == (p.number - 1) * p.perPage
        IN  /\ Shown(p) = Stretch(before + 1, p.perPage)
            /\ HasNext(p) <=> Len(list) > before + p.perPage

\* A client that starts at the first page and follows has_next to the end has
\* seen every row the list had when it started, whatever was added meanwhile,
\* except incidents that were seen again during the walk; as long as no row left
\* the list.
WalkMissesNothing == ~more => known \subseteq seen
=============================================================================
