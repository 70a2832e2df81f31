--------------------------- MODULE Paging_proofs ---------------------------
(***************************************************************************)
(* For every page size, every limit of the store and every length of the   *)
(* list: a page shows the rows at its place, and a walk along has_next     *)
(* misses none.                                                            *)
(***************************************************************************)
EXTENDS Paging, SequenceTheorems, TLAPS

-----------------------------------------------------------------------------
(* Where a page begins.                                                    *)

LEMMA Quotient ==
    ASSUME NEW a \in Nat, NEW k \in Nat \ {0}, NEW m \in Nat, a <= m \div k
    PROVE  a * k \in Nat /\ a * k <= m
<1>1. m \div k \in Nat /\ (m \div k) * k <= m
  OBVIOUS
<1>2. a * k <= (m \div k) * k
  <2>1. m \div k - a \in Nat
    BY <1>1
  <2>2. ((m \div k - a) + a) * k = (m \div k - a) * k + a * k
    BY <1>1, <2>1
  <2>3. (m \div k - a) * k \in Nat
    BY <2>1
  <2> QED BY <1>1, <2>1, <2>2, <2>3
<1> QED BY <1>1, <1>2

\* A number the platform's int can hold is itself.
LEMMA MachineIntFits ==
    ASSUME NEW n \in Nat, n <= MaxInt
    PROVE  MachineInt(n) = n
<1>1. MaxInt \in Nat
  BY PagingAssumption
<1>2. (n + MaxInt + 1) % (2 * (MaxInt + 1)) = n + MaxInt + 1
  BY <1>1
<1> QED BY <1>1, <1>2 DEF MachineInt

IsPage(p) ==
    /\ p.number \in Nat \ {0} /\ p.perPage \in 1 .. MaxPageSize
    /\ p.offset \in Nat /\ p.offset = (p.number - 1) * p.perPage

\* What parsePage lets through is a page whose offset did not overflow.
LEMMA AcceptedIsPage ==
    ASSUME NEW number \in Int, NEW perPage \in Int, Accepted(number, perPage)
    PROVE  /\ IsPage(PageOf(number, perPage))
           /\ PageOf(number, perPage).number = PositiveInt(number, 1)
           /\ PageOf(number, perPage).perPage = PositiveInt(perPage, DefaultPageSize)
<1> DEFINE n == PositiveInt(number, 1)
           k == PositiveInt(perPage, DefaultPageSize)
<1>1. n \in Int /\ k \in Int
  BY PagingAssumption DEF PositiveInt
<1>2. n > 0 /\ k > 0 /\ k <= MaxPageSize /\ n - 1 <= MaxInt \div k
  BY DEF Accepted
<1>3. PageOf(number, perPage)
        = [number |-> n, perPage |-> k, offset |-> MachineInt((n - 1) * k)]
  BY DEF PageOf
<1> HIDE DEF n, k
<1>4. MaxPageSize \in Nat /\ MaxInt \in Nat /\ n - 1 \in Nat /\ k \in Nat \ {0}
  BY <1>1, <1>2, PagingAssumption
<1>5. (n - 1) * k \in Nat /\ (n - 1) * k <= MaxInt
  BY <1>2, <1>4, Quotient
<1>6. MachineInt((n - 1) * k) = (n - 1) * k
  BY <1>5, MachineIntFits
<1>7. n \in Nat \ {0} /\ k \in 1 .. MaxPageSize
  BY <1>1, <1>2, <1>4
<1> QED BY <1>3, <1>5, <1>6, <1>7 DEF IsPage, n, k

-----------------------------------------------------------------------------
(* What a page shows.                                                      *)

\* The store returns the look-ahead row of the largest page too.
LEMMA FetchOfPage ==
    ASSUME list \in Seq(Nat), NEW p, IsPage(p)
    PROVE  Fetch(p) = SubSeq(list, p.offset + 1,
                             Least(p.offset + (p.perPage + 1), Len(list)))
<1>1. /\ MaxPageSize \in Nat /\ MaxListLimit = MaxPageSize + 1
      /\ p.perPage \in Nat /\ 0 < p.perPage /\ p.perPage <= MaxPageSize /\ p.offset \in Nat
  BY PagingAssumption DEF IsPage
<1>2. ListLimit(p.perPage + 1) = p.perPage + 1 /\ ListOffset(p.offset) = p.offset
  BY <1>1 DEF ListLimit, ListOffset
<1> QED BY <1>2 DEF Fetch, Select, Least

LEMMA PageShows ==
    ASSUME list \in Seq(Nat), NEW p, IsPage(p)
    PROVE  /\ Shown(p) = Stretch(p.offset + 1, p.perPage)
           /\ HasNext(p) <=> Len(list) > p.offset + p.perPage
<1> DEFINE o == p.offset
           k == p.perPage
           l == Len(list)
           end == Least(o + (k + 1), l)
<1>1. o \in Nat /\ k \in Nat /\ 0 < k /\ l \in Nat
      /\ \A i \in 1 .. l : list[i] \in Nat
  BY PagingAssumption, LenProperties DEF IsPage
<1>2. Fetch(p) = SubSeq(list, o + 1, end)
  BY FetchOfPage
<1>3. Stretch(o + 1, k) = [i \in 1 .. Least(k, l - o) |-> list[o + i]]
  BY <1>1 DEF Stretch
<1> HIDE DEF o, k, l
<1>4. end \in Int /\ end <= l /\ end <= o + (k + 1)
  BY <1>1 DEF Least
<1>5. \A i \in o + 1 .. end : list[i] \in Nat
  BY <1>1, <1>4
<1> HIDE DEF end
<1>6. /\ Fetch(p) \in Seq(Nat)
      /\ Len(Fetch(p)) = IF o + 1 <= end THEN end - (o + 1) + 1 ELSE 0
      /\ \A i \in 1 .. end - (o + 1) + 1 : Fetch(p)[i] = list[(o + 1) + i - 1]
  <2>1. o + 1 \in Int
    BY <1>1
  <2> QED BY <1>2, <1>4, <1>5, <2>1, SubSeqProperties
<1>7. Len(Fetch(p)) > k <=> l > o + k
  BY <1>1, <1>4, <1>6 DEF end, Least
<1>8. CASE l > o + k
  <2>1. end = o + k + 1 /\ Len(Fetch(p)) = k + 1
    BY <1>1, <1>4, <1>6, <1>8 DEF end, Least
  <2>2. Shown(p) = SubSeq(Fetch(p), 1, k)
    BY <1>7, <1>8 DEF Shown, k
  <2>3. \A i \in 1 .. k : Fetch(p)[i] \in Nat /\ Fetch(p)[i] = list[o + i]
    BY <1>1, <1>6, <1>8, <2>1
  <2>4. /\ Shown(p) \in Seq(Nat) /\ Len(Shown(p)) = k
        /\ \A i \in 1 .. k : Shown(p)[i] = Fetch(p)[1 + i - 1]
    BY <1>1, <2>2, <2>3, SubSeqProperties
  <2>5. Shown(p) \in [1 .. k -> Nat] /\ \A i \in 1 .. k : Shown(p)[i] = list[o + i]
    <3>1. Shown(p) \in [1 .. k -> Nat]
      BY <2>4, LenProperties
    <3>2. \A i \in 1 .. k : 1 + i - 1 = i
      BY <1>1
    <3> QED BY <2>3, <2>4, <3>1, <3>2
  <2>6. Least(k, l - o) = k
    BY <1>1, <1>8 DEF Least
  <2>7. Shown(p) = Stretch(o + 1, k)
    BY <1>3, <2>5, <2>6
  <2> QED BY <1>7, <1>8, <2>7 DEF HasNext, o, k, l
<1>9. CASE l <= o + k
  <2>1. end = l
    BY <1>1, <1>9 DEF end, Least
  <2>2. Shown(p) = Fetch(p)
    BY <1>1, <1>7, <1>9 DEF Shown, k
  <2>3. Shown(p) \in [1 .. Len(Fetch(p)) -> Nat]
    BY <1>6, <2>2, LenProperties
  <2>4. 1 .. Len(Fetch(p)) = 1 .. Least(k, l - o)
    BY <1>1, <1>6, <1>9, <2>1 DEF Least
  <2>5. \A i \in 1 .. Least(k, l - o) : Shown(p)[i] = list[o + i]
    BY <1>1, <1>6, <1>9, <2>1, <2>2 DEF Least
  <2>6. Shown(p) = Stretch(o + 1, k)
    BY <1>3, <2>3, <2>4, <2>5
  <2> QED BY <1>1, <1>7, <1>9, <2>6 DEF HasNext, o, k, l
<1> QED BY <1>1, <1>8, <1>9

\* The rows at the place of the page are on it.
LEMMA PageHolds ==
    ASSUME list \in Seq(Nat), NEW p, IsPage(p)
    PROVE  /\ RowsOf(Shown(p)) \subseteq Nat
           /\ \A i \in DOMAIN list :
                  p.offset < i /\ i <= p.offset + p.perPage => list[i] \in RowsOf(Shown(p))
<1>1. /\ p.offset \in Nat /\ p.perPage \in Nat /\ Len(list) \in Nat
      /\ DOMAIN list = 1 .. Len(list) /\ \A i \in 1 .. Len(list) : list[i] \in Nat
  BY PagingAssumption, LenProperties DEF IsPage
<1>2. Shown(p) = [i \in 1 .. Least(p.perPage, Len(list) - p.offset) |-> list[p.offset + i]]
  <2>1. Shown(p) = Stretch(p.offset + 1, p.perPage)
    BY PageShows
  <2>2. Stretch(p.offset + 1, p.perPage)
          = [i \in 1 .. Least(p.perPage, Len(list) - p.offset) |-> list[p.offset + i]]
    <3>1. Len(list) - (p.offset + 1) + 1 = Len(list) - p.offset
      BY <1>1
    <3>2. \A i \in 1 .. Least(p.perPage, Len(list) - p.offset) :
              p.offset + 1 + i - 1 = p.offset + i
      BY <1>1
    <3> QED BY <3>1, <3>2 DEF Stretch
  <2> QED BY <2>1, <2>2
<1>3. ASSUME NEW i \in DOMAIN list, p.offset < i, i <= p.offset + p.perPage
      PROVE  list[i] \in RowsOf(Shown(p))
  <2>1. i - p.offset \in 1 .. Least(p.perPage, Len(list) - p.offset) /\ p.offset + (i - p.offset) = i
    BY <1>1, <1>3 DEF Least
  <2> QED BY <1>2, <2>1 DEF RowsOf
<1>4. \A i \in 1 .. Least(p.perPage, Len(list) - p.offset) : p.offset + i \in 1 .. Len(list)
  BY <1>1 DEF Least
<1>5. RowsOf(Shown(p)) \subseteq Nat
  BY <1>1, <1>2, <1>4 DEF RowsOf
<1> QED BY <1>3, <1>5

-----------------------------------------------------------------------------
(* A walk.                                                                 *)

\* What a walk owes and has not read is in the list, behind the page on display;
\* after the last page it owes nothing.
WalkInv ==
    /\ known \subseteq RowsOf(list)
    /\ \A k \in DOMAIN list :
           list[k] \in known \ seen => k > page.offset + page.perPage
    /\ ~more => known \subseteq seen

PInv == list \in Seq(Nat) /\ IsPage(page) /\ WalkInv

LEMMA WalkInit == PagingInit => PInv
<1> SUFFICES ASSUME PagingInit PROVE PInv
  OBVIOUS
<1>1. list \in Seq(Nat) /\ known = {}
  BY EmptySeq DEF PagingInit
<1>2. page.number = 1 /\ page.perPage = DefaultPageSize /\ page.offset = 0
  BY DEF PagingInit, FirstPage
<1>3. IsPage(page)
  BY <1>2, PagingAssumption DEF IsPage
<1> QED BY <1>1, <1>3 DEF PInv, WalkInv

\* A page read after those before it.
LEMMA NextPage ==
    ASSUME list \in Seq(Nat), UNCHANGED list, NEW p, IsPage(p), Answer(p),
           known' \subseteq RowsOf(list), RowsOf(Shown(p)) \subseteq seen',
           \A i \in DOMAIN list : list[i] \in known' \ seen' => i > p.offset
    PROVE  PInv'
<1>1. page' = p /\ more' = HasNext(p)
  BY DEF Answer
<1>2. p.offset \in Nat /\ p.perPage \in Nat /\ Len(list) \in Nat /\ DOMAIN list = 1 .. Len(list)
  BY PagingAssumption, LenProperties DEF IsPage
<1>3. \A i \in DOMAIN list : list[i] \in known' \ seen' => i > p.offset + p.perPage
  BY <1>2, PageHolds
<1>4. ~more' => known' \subseteq seen'
  <2>1. ~HasNext(p) => Len(list) <= p.offset + p.perPage
    BY <1>2, PageShows
  <2>2. ASSUME ~HasNext(p), NEW row \in known' PROVE row \in seen'
    <3>1. PICK i \in DOMAIN list : list[i] = row
      BY DEF RowsOf
    <3>2. i <= p.offset + p.perPage
      BY <1>2, <2>1, <2>2
    <3> QED BY <1>2, <1>3, <3>1, <3>2
  <2> QED BY <1>1, <2>2
<1>5. IsPage(page)'
  BY <1>1 DEF IsPage
<1> QED BY <1>1, <1>3, <1>4, <1>5 DEF PInv, WalkInv, RowsOf

LEMMA OpenInv ==
    ASSUME PInv, NEW number \in Parameters, NEW perPage \in Parameters, Open(number, perPage)
    PROVE  PInv'
<1> DEFINE p == PageOf(number, perPage)
<1>1. number \in Int /\ perPage \in Int
  BY PagingAssumption DEF Parameters, Missing
<1>2. IsPage(p)
  BY <1>1, AcceptedIsPage DEF Open
<1>3. /\ Answer(p) /\ UNCHANGED list
      /\ known' = IF p.number = 1 THEN RowsOf(list) ELSE {}
      /\ seen' = RowsOf(Shown(p))
  BY DEF Open
<1> HIDE DEF p
<1>4. p.number = 1 => p.offset = 0
  BY <1>2, PagingAssumption DEF IsPage
<1>5. list \in Seq(Nat) /\ DOMAIN list = 1 .. Len(list) /\ Len(list) \in Nat
  BY LenProperties DEF PInv
<1>6. \A i \in DOMAIN list : list[i] \in known' \ seen' => i > p.offset
  BY <1>3, <1>4, <1>5
<1> QED BY <1>2, <1>3, <1>5, <1>6, NextPage

LEMMA FollowInv == PInv /\ Follow => PInv'
<1> SUFFICES ASSUME PInv, Follow PROVE PInv'
  OBVIOUS
<1> DEFINE p == PageOf(page.number + 1, page.perPage)
<1>1. /\ IsPage(page) /\ list \in Seq(Nat) /\ known \subseteq RowsOf(list)
      /\ \A i \in DOMAIN list : list[i] \in known \ seen => i > page.offset + page.perPage
  BY DEF PInv, WalkInv
<1>2. /\ page.number \in Nat \ {0} /\ page.perPage \in Nat \ {0} /\ page.offset \in Nat
      /\ page.offset = (page.number - 1) * page.perPage
  BY <1>1, PagingAssumption DEF IsPage
<1>3. page.number + 1 \in Int /\ page.perPage \in Int
  BY <1>2
<1>4. IsPage(p) /\ p.number = page.number + 1 /\ p.perPage = page.perPage
  <2>1. PositiveInt(page.number + 1, 1) = page.number + 1
        /\ PositiveInt(page.perPage, DefaultPageSize) = page.perPage
    BY <1>2 DEF PositiveInt, Missing
  <2> QED BY <1>3, <2>1, AcceptedIsPage DEF Follow
<1>5. Answer(p) /\ UNCHANGED <<list, known>> /\ seen' = seen \union RowsOf(Shown(p))
  BY DEF Follow
<1> HIDE DEF p
<1>6. p.offset = page.offset + page.perPage
  <2>1. p.offset = page.number * page.perPage
    <3>1. p.offset = (p.number - 1) * p.perPage
      BY <1>4 DEF IsPage
    <3>2. p.number - 1 = page.number
      BY <1>2, <1>4
    <3> QED BY <1>4, <3>1, <3>2
  <2>2. \A n, k \in Nat : (n + 1) * k = n * k + k
    OBVIOUS
  <2>3. PICK n \in Nat : page.number = n + 1
    BY <1>2
  <2>4. p.offset = (n + 1) * page.perPage /\ page.offset = n * page.perPage
    BY <1>2, <2>1, <2>3
  <2> QED BY <1>2, <2>2, <2>4
<1>7. \A i \in DOMAIN list : list[i] \in known' \ seen' => i > p.offset
  BY <1>1, <1>5, <1>6
<1> QED BY <1>1, <1>4, <1>5, <1>7, NextPage

-----------------------------------------------------------------------------
(* The list changes under the walk.                                        *)

LEMMA Joined ==
    ASSUME NEW a \in Seq(Nat), NEW b \in Seq(Nat), NEW c \in Seq(Nat)
    PROVE  \E t \in Seq(Nat) :
               /\ t = (a \o b) \o c
               /\ Len(t) = Len(a) + Len(b) + Len(c)
               /\ \A i \in 1 .. Len(a) : t[i] = a[i]
               /\ \A i \in 1 .. Len(b) : t[Len(a) + i] = b[i]
               /\ \A i \in 1 .. Len(c) : t[Len(a) + Len(b) + i] = c[i]
<1>1. Len(a) \in Nat /\ Len(b) \in Nat /\ Len(c) \in Nat
  BY LenProperties
<1>2. PICK f \in Seq(Nat) : f = a \o b
  BY ConcatProperties
<1>3. /\ Len(f) = Len(a) + Len(b)
      /\ \A i \in 1 .. Len(a) + Len(b) :
             f[i] = IF i <= Len(a) THEN a[i] ELSE b[i - Len(a)]
  BY <1>2, ConcatProperties
<1>4. PICK t \in Seq(Nat) : t = f \o c
  BY ConcatProperties
<1>5. /\ Len(t) = Len(f) + Len(c)
      /\ \A i \in 1 .. Len(f) + Len(c) :
             t[i] = IF i <= Len(f) THEN f[i] ELSE c[i - Len(f)]
  BY <1>4, ConcatProperties
<1>6. ASSUME NEW i \in 1 .. Len(a) PROVE t[i] = a[i]
  <2>1. i \in 1 .. Len(f) + Len(c) /\ i <= Len(f)
    BY <1>1, <1>3
  <2>2. i \in 1 .. Len(a) + Len(b) /\ i <= Len(a)
    BY <1>1
  <2> QED BY <1>3, <1>5, <2>1, <2>2, Zenon
<1>7. ASSUME NEW i \in 1 .. Len(b) PROVE t[Len(a) + i] = b[i]
  <2>1. Len(a) + i \in 1 .. Len(f) + Len(c) /\ Len(a) + i <= Len(f)
    BY <1>1, <1>3
  <2>2. Len(a) + i \in 1 .. Len(a) + Len(b) /\ ~(Len(a) + i <= Len(a))
        /\ Len(a) + i - Len(a) = i
    BY <1>1
  <2>3. t[Len(a) + i] = f[Len(a) + i]
    BY <1>5, <2>1, Zenon
  <2>4. f[Len(a) + i] = b[Len(a) + i - Len(a)]
    BY <1>3, <2>2
  <2> QED BY <2>2, <2>3, <2>4, Zenon
<1>8. ASSUME NEW i \in 1 .. Len(c) PROVE t[Len(a) + Len(b) + i] = c[i]
  <2>1. Len(a) + Len(b) + i \in 1 .. Len(f) + Len(c)
        /\ ~(Len(a) + Len(b) + i <= Len(f)) /\ Len(a) + Len(b) + i - Len(f) = i
    BY <1>1, <1>3
  <2>2. t[Len(a) + Len(b) + i] = c[Len(a) + Len(b) + i - Len(f)]
    BY <1>5, <2>1
  <2> QED BY <2>1, <2>2, Zenon
<1>9. Len(t) = Len(a) + Len(b) + Len(c)
  BY <1>1, <1>3, <1>5
<1> QED BY <1>2, <1>4, <1>6, <1>7, <1>8, <1>9

LEMMA Cut ==
    ASSUME NEW s \in Seq(Nat), NEW m \in 1 .. Len(s) + 1, NEW n \in m - 1 .. Len(s)
    PROVE  \E a \in Seq(Nat) : /\ a = SubSeq(s, m, n) /\ Len(a) = n - m + 1
                               /\ \A i \in 1 .. n - m + 1 : a[i] = s[m + i - 1]
<1>1. Len(s) \in Nat /\ \A i \in 1 .. Len(s) : s[i] \in Nat
  BY LenProperties
<1>2. m \in Int /\ n \in Int /\ \A i \in m .. n : s[i] \in Nat
  BY <1>1
<1>3. /\ SubSeq(s, m, n) \in Seq(Nat)
      /\ Len(SubSeq(s, m, n)) = IF m <= n THEN n - m + 1 ELSE 0
      /\ \A i \in 1 .. n - m + 1 : SubSeq(s, m, n)[i] = s[m + i - 1]
  BY <1>2, SubSeqProperties
<1>4. Len(SubSeq(s, m, n)) = n - m + 1
  BY <1>1, <1>3
<1> QED BY <1>3, <1>4

LEMMA Single ==
    ASSUME NEW row \in Nat
    PROVE  \E b \in Seq(Nat) : b = <<row>> /\ Len(b) = 1 /\ b[1] = row
<1>1. <<row>> \in Seq(Nat)
  OBVIOUS
<1>2. Len(<<row>>) = 1 /\ <<row>>[1] = row
  OBVIOUS
<1> QED BY <1>1, <1>2, Zenon

\* A row put behind the first k of a list.
LEMMA PutIn ==
    ASSUME NEW s \in Seq(Nat), NEW k \in 0 .. Len(s), NEW row \in Nat
    PROVE  \E t \in Seq(Nat) :
               /\ t = (SubSeq(s, 1, k) \o <<row>>) \o SubSeq(s, k + 1, Len(s))
               /\ Len(t) = Len(s) + 1
               /\ \A i \in 1 .. Len(s) + 1 :
                      t[i] = IF i <= k THEN s[i] ELSE IF i = k + 1 THEN row ELSE s[i - 1]
<1>1. PICK l \in Nat : l = Len(s)
  BY LenProperties
<1>2. k \in Nat /\ k <= l
  BY <1>1
<1>3. PICK a \in Seq(Nat) : /\ a = SubSeq(s, 1, k) /\ Len(a) = k
                            /\ \A i \in 1 .. k : a[i] = s[i]
  <2>1. 1 \in 1 .. Len(s) + 1 /\ k \in 1 - 1 .. Len(s) /\ k - 1 + 1 = k
        /\ \A i \in 1 .. k : 1 + i - 1 = i
    BY <1>1, <1>2
  <2>2. PICK a \in Seq(Nat) : /\ a = SubSeq(s, 1, k) /\ Len(a) = k - 1 + 1
                              /\ \A i \in 1 .. k - 1 + 1 : a[i] = s[1 + i - 1]
    BY <2>1, Cut
  <2> QED BY <2>1, <2>2
<1>4. PICK c \in Seq(Nat) : /\ c = SubSeq(s, k + 1, l) /\ Len(c) = l - k
                            /\ \A i \in 1 .. l - k : c[i] = s[k + i]
  <2>1. k + 1 \in 1 .. Len(s) + 1 /\ l \in (k + 1) - 1 .. Len(s) /\ l - (k + 1) + 1 = l - k
        /\ \A i \in 1 .. l - k : (k + 1) + i - 1 = k + i
    BY <1>1, <1>2
  <2>2. PICK c \in Seq(Nat) : /\ c = SubSeq(s, k + 1, l) /\ Len(c) = l - (k + 1) + 1
                              /\ \A i \in 1 .. l - (k + 1) + 1 : c[i] = s[(k + 1) + i - 1]
    BY <2>1, Cut
  <2> QED BY <2>1, <2>2
<1>5. PICK b \in Seq(Nat) : b = <<row>> /\ Len(b) = 1 /\ b[1] = row
  BY Single
<1>6. PICK t \in Seq(Nat) :
          /\ t = (a \o b) \o c
          /\ Len(t) = Len(a) + Len(b) + Len(c)
          /\ \A i \in 1 .. Len(a) : t[i] = a[i]
          /\ \A i \in 1 .. Len(b) : t[Len(a) + i] = b[i]
          /\ \A i \in 1 .. Len(c) : t[Len(a) + Len(b) + i] = c[i]
  BY Joined
<1>7. Len(t) = l + 1
  BY <1>2, <1>3, <1>4, <1>5, <1>6
<1>8. \A i \in 1 .. k : t[i] = s[i]
  BY <1>3, <1>6
<1>9. t[k + 1] = row
  <2>1. 1 \in 1 .. Len(b)
    BY <1>5
  <2> QED BY <1>3, <1>5, <1>6, <2>1, Zenon
<1>10. \A i \in 1 .. l - k : t[k + 1 + i] = s[k + i]
  <2>1. Len(a) + Len(b) = k + 1
    BY <1>3, <1>5, Zenon
  <2>2. \A i \in 1 .. l - k : t[k + 1 + i] = c[i]
    BY <1>4, <1>6, <2>1, Zenon
  <2> QED BY <1>4, <2>2, Zenon
<1>11. ASSUME NEW i \in 1 .. l + 1
       PROVE  t[i] = IF i <= k THEN s[i] ELSE IF i = k + 1 THEN row ELSE s[i - 1]
  <2>1. CASE i <= k + 1
    BY <1>2, <1>8, <1>9, <2>1
  <2>2. CASE i > k + 1
    <3>1. i - (k + 1) \in 1 .. l - k /\ k + (i - (k + 1)) = i - 1 /\ k + 1 + (i - (k + 1)) = i
      BY <1>2, <2>2
    <3>2. t[i] = s[i - 1]
      BY <1>10, <3>1
    <3> QED BY <1>2, <2>2, <3>2
  <2> QED BY <1>2, <2>1, <2>2
<1>12. t = (SubSeq(s, 1, k) \o <<row>>) \o SubSeq(s, k + 1, Len(s))
  BY <1>1, <1>3, <1>4, <1>5, <1>6
<1> QED BY <1>1, <1>7, <1>11, <1>12

\* The row at place k of a list brought to its front.
LEMMA BroughtUp ==
    ASSUME NEW s \in Seq(Nat), NEW k \in 1 .. Len(s)
    PROVE  \E t \in Seq(Nat) :
               /\ t = (<<s[k]>> \o SubSeq(s, 1, k - 1)) \o SubSeq(s, k + 1, Len(s))
               /\ Len(t) = Len(s)
               /\ \A i \in 1 .. Len(s) :
                      t[i] = IF i = 1 THEN s[k] ELSE IF i <= k THEN s[i - 1] ELSE s[i]
<1>1. PICK l \in Nat : l = Len(s)
  BY LenProperties
<1>2. k \in Nat /\ 1 <= k /\ k <= l
  BY <1>1
<1>3. PICK b \in Seq(Nat) : /\ b = SubSeq(s, 1, k - 1) /\ Len(b) = k - 1
                            /\ \A i \in 1 .. k - 1 : b[i] = s[i]
  <2>1. 1 \in 1 .. Len(s) + 1 /\ k - 1 \in 1 - 1 .. Len(s) /\ (k - 1) - 1 + 1 = k - 1
        /\ \A i \in 1 .. k - 1 : 1 + i - 1 = i
    BY <1>1, <1>2
  <2>2. PICK b \in Seq(Nat) : /\ b = SubSeq(s, 1, k - 1) /\ Len(b) = (k - 1) - 1 + 1
                              /\ \A i \in 1 .. (k - 1) - 1 + 1 : b[i] = s[1 + i - 1]
    BY <2>1, Cut
  <2> QED BY <2>1, <2>2
<1>4. PICK c \in Seq(Nat) : /\ c = SubSeq(s, k + 1, l) /\ Len(c) = l - k
                            /\ \A i \in 1 .. l - k : c[i] = s[k + i]
  <2>1. k + 1 \in 1 .. Len(s) + 1 /\ l \in (k + 1) - 1 .. Len(s) /\ l - (k + 1) + 1 = l - k
        /\ \A i \in 1 .. l - k : (k + 1) + i - 1 = k + i
    BY <1>1, <1>2
  <2>2. PICK c \in Seq(Nat) : /\ c = SubSeq(s, k + 1, l) /\ Len(c) = l - (k + 1) + 1
                              /\ \A i \in 1 .. l - (k + 1) + 1 : c[i] = s[(k + 1) + i - 1]
    BY <2>1, Cut
  <2> QED BY <2>1, <2>2
<1>5. PICK a \in Seq(Nat) : a = <<s[k]>> /\ Len(a) = 1 /\ a[1] = s[k]
  BY ElementOfSeq, Single
<1>6. PICK t \in Seq(Nat) :
          /\ t = (a \o b) \o c
          /\ Len(t) = Len(a) + Len(b) + Len(c)
          /\ \A i \in 1 .. Len(a) : t[i] = a[i]
          /\ \A i \in 1 .. Len(b) : t[Len(a) + i] = b[i]
          /\ \A i \in 1 .. Len(c) : t[Len(a) + Len(b) + i] = c[i]
  BY Joined
<1>7. Len(t) = l
  BY <1>2, <1>3, <1>4, <1>5, <1>6
<1>8. t[1] = s[k]
  BY <1>5, <1>6
<1>9. \A i \in 1 .. k - 1 : t[1 + i] = s[i]
  BY <1>3, <1>5, <1>6
<1>10. \A i \in 1 .. l - k : t[k + i] = s[k + i]
  <2>1. Len(a) + Len(b) = k
    BY <1>2, <1>3, <1>5
  <2>2. \A i \in 1 .. l - k : t[k + i] = c[i]
    BY <1>4, <1>6, <2>1, Zenon
  <2> QED BY <1>4, <2>2, Zenon
<1>11. ASSUME NEW i \in 1 .. l
       PROVE  t[i] = IF i = 1 THEN s[k] ELSE IF i <= k THEN s[i - 1] ELSE s[i]
  <2>1. CASE i = 1
    BY <1>8, <2>1
  <2>2. CASE i > 1 /\ i <= k
    <3>1. i - 1 \in 1 .. k - 1 /\ 1 + (i - 1) = i
      BY <1>2, <2>2
    <3>2. t[i] = s[i - 1]
      BY <1>9, <3>1
    <3> QED BY <2>2, <3>2
  <2>3. CASE i > k
    <3>1. i - k \in 1 .. l - k /\ k + (i - k) = i
      BY <1>2, <2>3
    <3>2. t[i] = s[i]
      BY <1>10, <3>1
    <3> QED BY <1>2, <2>3, <3>2
  <2> QED BY <1>2, <2>1, <2>2, <2>3
<1>12. t = (<<s[k]>> \o SubSeq(s, 1, k - 1)) \o SubSeq(s, k + 1, Len(s))
  BY <1>1, <1>3, <1>4, <1>5, <1>6
<1> QED BY <1>1, <1>7, <1>11, <1>12

\* No row a walk still has to read moves towards the pages it has read, when
\* none of those it owes is lost and they move, if at all, backwards.
LEMMA RowsMoveBack ==
    ASSUME PInv, NEW t \in Seq(Nat), NEW owed \in SUBSET known,
           list' = t, known' = owed, UNCHANGED <<page, more, seen>>,
           owed \subseteq RowsOf(t),
           \A j \in DOMAIN t : t[j] \in owed =>
               \E i \in DOMAIN list : i <= j /\ list[i] = t[j]
    PROVE  PInv'
<1>1. /\ IsPage(page) /\ page.offset + page.perPage \in Int
      /\ \A i \in DOMAIN list : i \in Int
      /\ \A j \in DOMAIN t : j \in Int
  BY PagingAssumption, LenProperties DEF PInv, IsPage
<1>2. IsPage(page)'
  BY <1>1 DEF IsPage
<1>3. ASSUME NEW j \in DOMAIN t, t[j] \in owed \ seen
      PROVE  j > page.offset + page.perPage
  <2>1. PICK i \in DOMAIN list : i <= j /\ list[i] = t[j]
    BY <1>3
  <2>2. i > page.offset + page.perPage
    BY <1>3, <2>1 DEF PInv, WalkInv
  <2> QED BY <1>1, <2>1, <2>2
<1>4. WalkInv'
  BY <1>3 DEF PInv, WalkInv, RowsOf
<1> QED BY <1>2, <1>4 DEF PInv

LEMMA InsertInv ==
    ASSUME PInv, NEW row \in Nat, NEW k \in Nat, Insert(row, k)
    PROVE  PInv'
<1>1. /\ list \in Seq(Nat) /\ k \in 0 .. Len(list)
      /\ known \subseteq RowsOf(list) /\ row \notin RowsOf(list)
  BY DEF PInv, WalkInv, Insert
<1>2. PICK l \in Nat : l = Len(list) /\ DOMAIN list = 1 .. l
  BY <1>1, LenProperties
<1>3. PICK t \in Seq(Nat) :
          /\ t = (SubSeq(list, 1, k) \o <<row>>) \o SubSeq(list, k + 1, Len(list))
          /\ Len(t) = Len(list) + 1
          /\ \A i \in 1 .. Len(list) + 1 :
                 t[i] = IF i <= k THEN list[i] ELSE IF i = k + 1 THEN row ELSE list[i - 1]
  <2>1. list \in Seq(Nat) /\ k \in 0 .. Len(list) /\ row \in Nat
    BY <1>1
  <2> QED BY <2>1, PutIn, ZenonT(30)
<1>4. list' = t /\ UNCHANGED <<page, more, known, seen>>
  BY <1>3 DEF Insert
<1>5. DOMAIN t = 1 .. l + 1
  BY <1>2, <1>3, LenProperties
<1>6. \A i \in 1 .. l + 1 :
          t[i] = IF i <= k THEN list[i] ELSE IF i = k + 1 THEN row ELSE list[i - 1]
  BY <1>2, <1>3
<1>7. ASSUME NEW j \in 1 .. l + 1, t[j] \in known
      PROVE  \E i \in 1 .. l : i <= j /\ list[i] = t[j]
  <2>1. CASE j <= k
    <3>1. j \in 1 .. l /\ j <= j
      BY <1>1, <1>2, <2>1
    <3>2. t[j] = list[j]
      BY <1>6, <2>1
    <3> QED BY <3>1, <3>2
  <2>2. CASE j = k + 1
    BY <1>1, <1>6, <1>7, <2>2
  <2>3. CASE j > k + 1
    <3>1. j - 1 \in 1 .. l /\ j - 1 <= j
      BY <2>3
    <3>2. ~(j <= k) /\ j # k + 1
      BY <2>3
    <3>3. t[j] = list[j - 1]
      BY <1>6, <3>2
    <3> QED BY <3>1, <3>3
  <2> QED BY <2>1, <2>2, <2>3
<1>8. ASSUME NEW i \in 1 .. l PROVE \E j \in 1 .. l + 1 : t[j] = list[i]
  <2>1. CASE i <= k
    BY <1>6, <2>1
  <2>2. CASE i > k
    <3>1. /\ i + 1 \in 1 .. l + 1 /\ i + 1 - 1 = i
          /\ ~(i + 1 <= k) /\ i + 1 # k + 1
      BY <2>2
    <3>2. t[i + 1] = list[i + 1 - 1]
      BY <1>6, <3>1
    <3> QED BY <3>1, <3>2
  <2> QED BY <2>1, <2>2
<1>9. known \subseteq RowsOf(t)
  <2>1. \A i \in DOMAIN list : \E j \in DOMAIN t : t[j] = list[i]
    BY <1>2, <1>5, <1>8, Zenon
  <2>2. RowsOf(list) \subseteq RowsOf(t)
    BY <2>1, Zenon DEF RowsOf
  <2> QED BY <1>1, <2>2
<1>10. \A j \in DOMAIN t : t[j] \in known =>
           \E i \in DOMAIN list : i <= j /\ list[i] = t[j]
  BY <1>2, <1>5, <1>7, Zenon
<1>11. known \in SUBSET known
  OBVIOUS
<1> QED BY <1>4, <1>9, <1>10, <1>11, RowsMoveBack

LEMMA LeaveInv ==
    ASSUME PInv, NEW k \in Nat, Leave(k)
    PROVE  PInv'
<1>1. /\ list \in Seq(Nat) /\ Len(list) \in Nat /\ k \in 1 .. Len(list)
      /\ \A i \in 1 .. Len(list) : list[i] \in Nat
  BY LenProperties DEF PInv, Leave
<1>2. SubSeq(list, 1, k - 1) \in Seq(Nat) /\ SubSeq(list, k + 1, Len(list)) \in Seq(Nat)
  BY <1>1, SubSeqProperties
<1>3. PICK t \in Seq(Nat) : t = SubSeq(list, 1, k - 1) \o SubSeq(list, k + 1, Len(list))
  BY <1>2, ConcatProperties
<1>4. list' = t /\ known' = {} /\ UNCHANGED <<page, more, seen>>
  BY <1>3 DEF Leave
<1>5. {} \in SUBSET known
  OBVIOUS
<1>6. PICK owed \in SUBSET known : owed = {}
  BY <1>5
<1> QED BY <1>4, <1>6, RowsMoveBack

LEMMA RepeatInv ==
    ASSUME PInv, NEW k \in Nat, Repeat(k)
    PROVE  PInv'
<1>1. list \in Seq(Nat) /\ k \in DOMAIN list /\ known \subseteq RowsOf(list)
  BY DEF PInv, WalkInv, Repeat
<1>2. PICK l \in Nat : l = Len(list) /\ DOMAIN list = 1 .. l
  BY <1>1, LenProperties
<1>3. PICK t \in Seq(Nat) :
          /\ t = (<<list[k]>> \o SubSeq(list, 1, k - 1)) \o SubSeq(list, k + 1, Len(list))
          /\ Len(t) = Len(list)
          /\ \A i \in 1 .. Len(list) :
                 t[i] = IF i = 1 THEN list[k] ELSE IF i <= k THEN list[i - 1] ELSE list[i]
  <2>1. list \in Seq(Nat) /\ k \in 1 .. Len(list)
    BY <1>1, <1>2
  <2> QED BY <2>1, BroughtUp, ZenonT(30)
<1>4. list' = t /\ known' = known \ {list[k]} /\ UNCHANGED <<page, more, seen>>
  BY <1>3 DEF Repeat
<1>5. DOMAIN t = 1 .. l
  BY <1>2, <1>3, LenProperties
<1>6. \A i \in 1 .. l :
          t[i] = IF i = 1 THEN list[k] ELSE IF i <= k THEN list[i - 1] ELSE list[i]
  BY <1>2, <1>3
<1>7. ASSUME NEW j \in 1 .. l, t[j] \in known \ {list[k]}
      PROVE  \E i \in 1 .. l : i <= j /\ list[i] = t[j]
  <2>1. j # 1
    BY <1>6, <1>7
  <2>2. CASE j <= k
    <3>1. j - 1 \in 1 .. l /\ j - 1 <= j
      BY <2>1
    <3>2. t[j] = list[j - 1]
      BY <1>6, <2>1, <2>2
    <3> QED BY <3>1, <3>2
  <2>3. CASE ~(j <= k)
    <3>1. t[j] = list[j] /\ j <= j
      BY <1>6, <2>1, <2>3
    <3> QED BY <3>1
  <2> QED BY <2>2, <2>3
<1>8. ASSUME NEW i \in 1 .. l PROVE \E j \in 1 .. l : t[j] = list[i]
  <2>1. k \in 1 .. l
    BY <1>1, <1>2
  <2>2. CASE i < k
    <3>1. i + 1 \in 1 .. l /\ i + 1 - 1 = i /\ i + 1 <= k /\ i + 1 # 1
      BY <2>1, <2>2
    <3>2. t[i + 1] = list[i + 1 - 1]
      BY <1>6, <3>1
    <3> QED BY <3>1, <3>2
  <2>3. CASE i = k
    <3>1. 1 \in 1 .. l /\ t[1] = list[k]
      BY <1>6
    <3> QED BY <2>3, <3>1
  <2>4. CASE i > k
    <3>1. i # 1 /\ ~(i <= k)
      BY <2>1, <2>4
    <3>2. t[i] = list[i]
      BY <1>6, <3>1
    <3> QED BY <3>2
  <2> QED BY <2>1, <2>2, <2>3, <2>4
<1>9. RowsOf(list) \subseteq RowsOf(t)
  <2>1. \A i \in DOMAIN list : \E j \in DOMAIN t : t[j] = list[i]
    BY <1>2, <1>5, <1>8, Zenon
  <2> QED BY <2>1, Zenon DEF RowsOf
<1>10. \A j \in DOMAIN t : t[j] \in known \ {list[k]} =>
           \E i \in DOMAIN list : i <= j /\ list[i] = t[j]
  BY <1>2, <1>5, <1>7, Zenon
<1>11. PICK owed \in SUBSET known : owed = known \ {list[k]}
  OBVIOUS
<1>12. known' = owed /\ owed \subseteq RowsOf(t)
  BY <1>1, <1>4, <1>9, <1>11
<1>13. \A j \in DOMAIN t : t[j] \in owed =>
           \E i \in DOMAIN list : i <= j /\ list[i] = t[j]
  BY <1>10, <1>11, Zenon
<1> QED BY <1>4, <1>12, <1>13, RowsMoveBack

\* One step per action.
LEMMA WalkStep == PInv /\ [PagingNext]_pagingVars => PInv'
<1> SUFFICES ASSUME PInv, [PagingNext]_pagingVars PROVE PInv'
  OBVIOUS
<1>1. CASE \E number, perPage \in Parameters : Open(number, perPage)
  BY <1>1, OpenInv
<1>2. CASE Follow
  BY <1>2, FollowInv
<1>3. CASE \E row \in 1 .. MaxRows, k \in 0 .. MaxRows : Insert(row, k)
  BY <1>3, InsertInv, PagingAssumption
<1>4. CASE \E k \in 1 .. MaxRows : Leave(k) \/ Repeat(k)
  BY <1>4, LeaveInv, RepeatInv, PagingAssumption
<1>5. CASE UNCHANGED pagingVars
  BY <1>5 DEF pagingVars, PInv, IsPage, WalkInv, RowsOf
<1> QED BY <1>1, <1>2, <1>3, <1>4, <1>5 DEF PagingNext

\* Whatever the page sizes and the largest int, every page the API accepts shows
\* the rows at its place and says truly whether there are more.
THEOREM PagesShowTheirRows == PagingSpec => []PageShowsItsRows
<1>1. PInv => PageShowsItsRows
  <2> SUFFICES ASSUME PInv, NEW number \in Parameters, NEW perPage \in Parameters,
                      Accepted(number, perPage)
               PROVE  LET p      == PageOf(number, perPage)
                          before == (p.number - 1) * p.perPage
                      IN  /\ Shown(p) = Stretch(before + 1, p.perPage)
                          /\ HasNext(p) <=> Len(list) > before + p.perPage
    BY DEF PageShowsItsRows
  <2>1. number \in Int /\ perPage \in Int
    BY PagingAssumption DEF Parameters, Missing
  <2>2. IsPage(PageOf(number, perPage))
    BY <2>1, AcceptedIsPage
  <2>3. PageOf(number, perPage).offset
          = (PageOf(number, perPage).number - 1) * PageOf(number, perPage).perPage
    BY <2>2 DEF IsPage
  <2> QED BY <2>2, <2>3, PageShows DEF PInv
<1> QED BY <1>1, WalkInit, WalkStep, PTL DEF PagingSpec

\* However long the list is and whatever is added to it meanwhile, a walk from
\* the first page to the last has read every row it set out to read.
THEOREM WalksMissNothing == PagingSpec => []WalkMissesNothing
<1>1. PInv => WalkMissesNothing
  BY DEF PInv, WalkInv, WalkMissesNothing
<1> QED BY <1>1, WalkInit, WalkStep, PTL DEF PagingSpec
=============================================================================
