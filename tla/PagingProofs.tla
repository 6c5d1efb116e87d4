---------------------------- MODULE PagingProofs ----------------------------
(***************************************************************************)
(* What is proved of the lists, for tables of any length, any filter and   *)
(* every limit.                                                            *)
(***************************************************************************)
EXTENDS Paging, FiniteSetTheorems, FunctionTheorems, SequenceTheorems, TLAPS

-----------------------------------------------------------------------------
(* ORDER BY DESC.                                                          *)

Above(S, x) == {y \in S : y > x}

LEMMA AboveFacts ==
  ASSUME NEW S \in SUBSET Nat, IsFiniteSet(S), NEW x \in S
  PROVE  /\ Cardinality(Above(S, x)) \in 0..(Cardinality(S) - 1)
         /\ \A z \in S : z > x => Cardinality(Above(S, z)) < Cardinality(Above(S, x))
<1>1. \A z \in S : IsFiniteSet(Above(S, z)) /\ Cardinality(Above(S, z)) \in Nat
  BY FS_Subset, FS_CardinalityType DEF Above
<1>2. Cardinality(Above(S, x)) < Cardinality(S)
  <2>1. Above(S, x) \in SUBSET S /\ x \notin Above(S, x)
    BY DEF Above
  <2> QED BY <2>1, <1>1, FS_Subset, FS_CardinalityType
<1>3. ASSUME NEW z \in S, z > x PROVE Cardinality(Above(S, z)) < Cardinality(Above(S, x))
  <2>1. x \in Nat /\ z \in Nat
    OBVIOUS
  <2>2. Above(S, z) \subseteq Above(S, x)
    <3> SUFFICES ASSUME NEW y \in S, y > z PROVE y > x
      BY DEF Above
    <3> QED BY <1>3, <2>1
  <2>3. z \in Above(S, x) /\ z \notin Above(S, z)
    BY <1>3, <2>1 DEF Above
  <2> QED BY <2>2, <2>3, <1>1, FS_Subset
<1>4. Cardinality(S) \in Nat
  BY FS_CardinalityType
<1> QED BY <1>1, <1>2, <1>3, <1>4

(* As many elements as places, and no two have the same number above them: *)
(* every place is taken by exactly one element.                            *)
LEMMA PlaceTaken ==
  ASSUME NEW S \in SUBSET Nat, IsFiniteSet(S), NEW i \in 1..Cardinality(S)
  PROVE  \E x \in S : Cardinality(Above(S, x)) = i - 1
<1> DEFINE n == Cardinality(S)
           T == 0..(n - 1)
           f == [x \in S |-> Cardinality(Above(S, x))]
<1>1. n \in Nat
  BY FS_CardinalityType
<1>2. f \in [S -> T]
  BY AboveFacts
<1>3. \A x, z \in S : f[x] = f[z] => x = z
  <2> SUFFICES ASSUME NEW x \in S, NEW z \in S, x # z PROVE f[x] # f[z]
    OBVIOUS
  <2>1. x < z \/ z < x
    OBVIOUS
  <2>2. f[x] \in Nat /\ f[z] \in Nat
    BY <1>2, <1>1
  <2> QED BY <2>1, <2>2, AboveFacts
<1>4. f \in Injection(S, T)
  BY <1>2, <1>3 DEF Injection, IsInjective
<1>5. IsFiniteSet(T) /\ Cardinality(T) = n
  <2>1. 0 \in Int /\ n - 1 \in Int /\ (IF 0 > n - 1 THEN 0 ELSE (n - 1) - 0 + 1) = n
    BY <1>1
  <2> HIDE DEF n
  <2> QED BY <2>1, FS_Interval
<1>6. f \in Surjection(S, T)
  BY <1>4, <1>5, FS_Injection
<1>7. i - 1 \in T
  BY <1>1
<1>8. PICK x \in S : f[x] = i - 1
  BY <1>6, <1>7 DEF Surjection
<1> QED BY <1>8

LEMMA DescendingFacts ==
  ASSUME NEW S \in SUBSET Nat, IsFiniteSet(S)
  PROVE  /\ Descending(S) \in Seq(S) /\ Len(Descending(S)) = Cardinality(S)
         /\ \A i, j \in 1..Cardinality(S) : i < j => Descending(S)[i] > Descending(S)[j]
         /\ \A x \in S : \E i \in 1..Cardinality(S) : Descending(S)[i] = x
<1>1. Cardinality(S) \in Nat
  BY FS_CardinalityType
<1>2. ASSUME NEW i \in 1..Cardinality(S)
      PROVE  Descending(S)[i] \in S /\ Cardinality(Above(S, Descending(S)[i])) = i - 1
  <2>1. Descending(S)[i] = CHOOSE x \in S : Cardinality(Above(S, x)) = i - 1
    BY DEF Descending, Above
  <2> QED BY <2>1, PlaceTaken
<1>3. Descending(S) \in [1..Cardinality(S) -> S]
  <2> DEFINE At(i) == CHOOSE x \in S : Cardinality({y \in S : y > x}) = i - 1
  <2>1. ASSUME NEW i \in 1..Cardinality(S) PROVE At(i) \in S
    BY PlaceTaken DEF Above
  <2>2. Descending(S) = [i \in 1..Cardinality(S) |-> At(i)]
    BY DEF Descending
  <2> HIDE DEF At
  <2> QED BY <2>1, <2>2
<1>4. Descending(S) \in Seq(S) /\ Len(Descending(S)) = Cardinality(S)
  BY <1>1, <1>3
<1>5. ASSUME NEW i \in 1..Cardinality(S), NEW j \in 1..Cardinality(S), i < j
      PROVE  Descending(S)[i] > Descending(S)[j]
  <2>1. PICK x \in S : x = Descending(S)[i]
    BY <1>2
  <2>2. PICK y \in S : y = Descending(S)[j]
    BY <1>2
  <2>3. Cardinality(Above(S, x)) = i - 1 /\ Cardinality(Above(S, y)) = j - 1
    BY <1>2, <2>1, <2>2
  <2>4. x \in Nat /\ y \in Nat /\ i \in Int /\ j \in Int
    BY <1>1
  <2>5. ~(y > x)
    BY <2>3, <2>4, <1>5, AboveFacts
  <2>6. x # y
    BY <2>3, <2>4, <1>5
  <2> QED BY <2>1, <2>2, <2>4, <2>5, <2>6
<1>6. ASSUME NEW x \in S PROVE \E i \in 1..Cardinality(S) : Descending(S)[i] = x
  <2>1. PICK c \in 0..(Cardinality(S) - 1) : c = Cardinality(Above(S, x))
    BY AboveFacts
  <2>2. c + 1 \in 1..Cardinality(S) /\ (c + 1) - 1 = c
    BY <1>1
  <2>3. PICK y \in S : y = Descending(S)[c + 1] /\ Cardinality(Above(S, y)) = c
    BY <1>2, <2>2
  <2>4. ~(x > y) /\ ~(y > x)
    BY <2>1, <2>3, AboveFacts
  <2>5. x = y
    BY <2>4
  <2> QED BY <2>2, <2>3, <2>5
<1> QED BY <1>4, <1>5, <1>6

-----------------------------------------------------------------------------
(* One page.                                                               *)

Cursor == {<<>>} \cup {encodeCursor(id) : id \in Nat \ {0}}

IsDescending(s) == \A i, j \in 1..Len(s) : i < j => s[i] > s[j]

Matching(filter, below) ==
  {i \in 1..Len(rows) : Matches(rows[i], filter) /\ (below > 0 => i < below)}

LEMMA CursorFacts ==
  /\ decodeEventCursor(<<>>) = 0
  /\ \A id \in Nat \ {0} :
       encodeCursor(id) # <<>> /\ decodeEventCursor(encodeCursor(id)) = id
BY DEF decodeEventCursor, encodeCursor

(* What listing with a limit makes of the rows that match: the first of    *)
(* them, and the last of these as the cursor if there are more.            *)
LEMMA PageFacts ==
  ASSUME NEW S \in SUBSET Nat, NEW found \in Seq(S), NEW limit \in Nat \ {0}
  PROVE  LET read == SubSeq(found, 1, IF Len(found) <= limit THEN Len(found) ELSE limit + 1)
             page == Page(read, limit)
         IN  \/ /\ Len(found) <= limit
                /\ page = [items |-> found, next |-> <<>>]
             \/ /\ Len(found) > limit
                /\ page = [items |-> SubSeq(found, 1, limit), next |-> encodeCursor(found[limit])]
<1>1. Len(found) \in Nat
  OBVIOUS
<1>2. CASE Len(found) <= limit
  <2>1. SubSeq(found, 1, Len(found)) = found
    BY SubSeqFull
  <2> QED BY <1>1, <1>2, <2>1 DEF Page
<1>3. CASE Len(found) > limit
  <2> DEFINE read == SubSeq(found, 1, limit + 1)
  <2>1. \A i \in 1..(limit + 1) : found[i] \in S
    BY <1>1, <1>3
  <2>2. read \in Seq(S) /\ Len(read) = limit + 1 /\ \A i \in 1..(limit + 1) : read[i] = found[i]
    BY <1>1, <2>1, SubSeqProperties
  <2>3. SubSeq(read, 1, limit) = SubSeq(found, 1, limit)
    <3>1. \A i \in 1..limit : read[i] \in S /\ found[i] \in S /\ read[i] = found[i]
      BY <2>1, <2>2
    <3>2. /\ SubSeq(read, 1, limit) \in Seq(S) /\ SubSeq(found, 1, limit) \in Seq(S)
          /\ Len(SubSeq(read, 1, limit)) = limit /\ Len(SubSeq(found, 1, limit)) = limit
          /\ \A i \in 1..limit : SubSeq(read, 1, limit)[i] = read[i]
          /\ \A i \in 1..limit : SubSeq(found, 1, limit)[i] = found[i]
      BY <3>1, SubSeqProperties
    <3> QED BY <3>1, <3>2, SeqEqual
  <2> HIDE DEF read
  <2>4. Page(read, limit) = [items |-> SubSeq(found, 1, limit), next |-> encodeCursor(found[limit])]
    BY <2>2, <2>3 DEF Page
  <2> QED BY <1>1, <1>3, <2>4 DEF read
<1> QED BY <1>1, <1>2, <1>3

(* A page of the rows S: the highest of them in order, all of them if      *)
(* there is no cursor, and otherwise those down to the cursor.             *)
IsPage(page, S) ==
  /\ page.items \in Seq(S) /\ IsDescending(page.items)
  /\ page.next \in Cursor
  /\ page.next = <<>> => S \subseteq ToSet(page.items)
  /\ \A id \in Nat \ {0} : page.next = encodeCursor(id) =>
       /\ id \in S
       /\ \A i \in 1..Len(page.items) : page.items[i] >= id
       /\ \A x \in S : x >= id => x \in ToSet(page.items)

LEMMA ListFacts ==
  ASSUME rows \in Seq(Values), NEW filter, NEW cursor \in Cursor, NEW limit \in Nat \ {0},
         NEW below \in Nat, below = decodeEventCursor(cursor),
         NEW page, page = List(filter, limit, cursor)
  PROVE  IsPage(page, Matching(filter, below))
<1>1. PICK S \in SUBSET (Nat \ {0}) : S = Matching(filter, below)
  <2>1. Matching(filter, below) \in SUBSET (1..Len(rows))
    BY DEF Matching
  <2>2. 1..Len(rows) \subseteq Nat \ {0}
    OBVIOUS
  <2> QED BY <2>1, <2>2
<1>2. S \in SUBSET Nat /\ IsFiniteSet(S) /\ 0 \notin S
  <2>1. 1 \in Int /\ Len(rows) \in Int
    OBVIOUS
  <2>2. IsFiniteSet(1..Len(rows))
    BY <2>1, FS_Interval
  <2>3. S \in SUBSET (1..Len(rows))
    BY <1>1 DEF Matching
  <2> QED BY <2>2, <2>3, FS_Subset
<1>3. PICK found \in Seq(S) : found = Descending(S)
  BY <1>2, DescendingFacts
<1>4. /\ found \in Seq(S) /\ Len(found) \in Nat
      /\ \A i, j \in 1..Len(found) : i < j => found[i] > found[j]
      /\ \A x \in S : \E i \in 1..Len(found) : found[i] = x
  BY <1>2, <1>3, DescendingFacts, FS_CardinalityType
<1>5. page = Page(SubSeq(found, 1, IF Len(found) <= limit THEN Len(found) ELSE limit + 1), limit)
  BY <1>1, <1>3 DEF List, Found, Matching
<1>6. \/ Len(found) <= limit /\ page = [items |-> found, next |-> <<>>]
      \/ /\ Len(found) > limit
         /\ page = [items |-> SubSeq(found, 1, limit), next |-> encodeCursor(found[limit])]
  BY <1>2, <1>4, <1>5, PageFacts
<1>7. CASE page = [items |-> found, next |-> <<>>]
  <2>1. page.items = found /\ page.next = <<>>
    BY <1>7
  <2>2. S \subseteq ToSet(found)
    <3>1. DOMAIN found = 1..Len(found)
      OBVIOUS
    <3> QED BY <1>4, <3>1 DEF ToSet
  <2>3. IsDescending(found)
    BY <1>4 DEF IsDescending
  <2> QED BY <1>1, <1>4, <2>1, <2>2, <2>3, CursorFacts DEF Cursor, IsPage
<1>8. CASE /\ Len(found) > limit
           /\ page = [items |-> SubSeq(found, 1, limit), next |-> encodeCursor(found[limit])]
  <2>3. limit \in 1..Len(found) /\ \A i \in 1..limit : found[i] \in S /\ i \in 1..Len(found)
    BY <1>4, <1>8
  <2>1. PICK items \in Seq(S) : items = SubSeq(found, 1, limit)
    <3>1. SubSeq(found, 1, limit) \in Seq(S)
      <4>1. 1 \in Int /\ limit \in Int
        OBVIOUS
      <4> QED BY <4>1, <2>3, SubSeqProperties
    <3> QED BY <3>1, Zenon
  <2>2. page.items = items /\ page.next = encodeCursor(found[limit])
    BY <1>8, <2>1
  <2>4. Len(items) = limit /\ \A i \in 1..limit : items[i] = found[i]
    BY <2>1, <2>3, SubSeqProperties
  <2>5. IsDescending(items)
    BY <1>4, <2>3, <2>4 DEF IsDescending
  <2>6. found[limit] \in Nat \ {0}
    <3>1. limit \in 1..limit
      OBVIOUS
    <3>2. found[limit] \in S
      BY <2>3, <3>1
    <3> QED BY <1>1, <3>2, Zenon
  <2>7. \A i \in 1..limit : items[i] >= found[limit]
    <3> SUFFICES ASSUME NEW i \in 1..limit PROVE items[i] >= found[limit]
      OBVIOUS
    <3>1. i = limit \/ i < limit
      OBVIOUS
    <3>2. items[i] = found[i] /\ found[i] \in Nat /\ found[limit] \in Nat
      <4>1. items[i] = found[i] /\ found[i] \in S
        BY <2>3, <2>4
      <4>2. S \subseteq Nat
        BY <1>2
      <4> QED BY <4>1, <4>2, <2>6, Zenon
    <3> QED BY <3>1, <3>2, <1>4, <2>3
  <2>8. ASSUME NEW x \in S, x >= found[limit] PROVE x \in ToSet(items)
    <3>1. PICK i \in 1..Len(found) : found[i] = x
      BY <1>4
    <3>2. ~(limit < i)
      <4>1. x \in Nat /\ found[limit] \in Nat
        BY <1>2, <2>6
      <4> QED BY <1>4, <2>3, <2>8, <3>1, <4>1
    <3>3. i \in 1..limit
      BY <1>4, <3>2
    <3>4. DOMAIN items = 1..limit
      BY <2>4
    <3> QED BY <2>4, <3>1, <3>3, <3>4 DEF ToSet
  <2>11. found[limit] \in S
    BY <2>3
  <2>9. page.next \in Cursor /\ page.next # <<>>
    BY <2>2, <2>6, CursorFacts DEF Cursor
  <2>10. ASSUME NEW id \in Nat \ {0}, page.next = encodeCursor(id) PROVE id = found[limit]
    BY <2>2, <2>6, <2>10, CursorFacts
  <2> QED BY <1>1, <2>2, <2>4, <2>5, <2>7, <2>8, <2>9, <2>10, <2>11 DEF IsPage
<1> QED BY <1>6, <1>7, <1>8

-----------------------------------------------------------------------------
(* The inductive invariant: what the cursor says of the rows so far.       *)

Client ==
  [pc : {"listing", "done"}, filter : Values \cup {All}, limit : Nat \ {0},
   cursor : Cursor, items : Seq(Nat)]

PTypeOK ==
  /\ rows \in Seq(Values)
  /\ client \in {Idle} \cup Client
  /\ steady \in SUBSET (1..Len(rows))

SteadyRowsMatch == client # Idle => \A x \in steady : Matches(rows[x], client.filter)

Below == decodeEventCursor(client.cursor)

(* The list so far lies above the cursor, and no cursor means no list yet. *)
CursorIsLast ==
  client.pc = "listing" =>
    /\ Below = 0 => client.items = <<>>
    /\ \A i \in 1..Len(client.items) : client.items[i] >= Below

(* Every steady row that the cursor has passed is listed.                  *)
PassedIsListed ==
  client.pc = "listing" =>
    \A x \in steady : Below > 0 /\ x >= Below => x \in ToSet(client.items)

ListIsDescending == client # Idle => IsDescending(client.items)

PagingInvariant ==
  /\ PTypeOK /\ SteadyRowsMatch /\ CursorIsLast /\ PassedIsListed
  /\ ListIsDescending /\ ListingIsComplete

LEMMA PInitInvariant == PInit => PagingInvariant
<1> SUFFICES ASSUME PInit PROVE PagingInvariant
  OBVIOUS
<1>1. client = Idle /\ client.pc = "idle" /\ steady = {} /\ rows = <<>>
  BY DEF PInit, Idle
<1>2. PTypeOK
  BY <1>1 DEF PTypeOK
<1> QED BY <1>1, <1>2 DEF PagingInvariant, SteadyRowsMatch, CursorIsLast, PassedIsListed,
             ListIsDescending, ListingIsComplete

LEMMA ClientFacts ==
  ASSUME PTypeOK
  PROVE  /\ client = Idle <=> client.pc = "idle"
         /\ client # Idle => client \in Client
         /\ Idle.pc = "idle"
         /\ client \in Client =>
              /\ client.cursor \in Cursor /\ client.items \in Seq(Nat) /\ Below \in Nat
              /\ client.limit \in Nat \ {0} /\ client.pc \in {"listing", "done"}
<1>1. Idle.pc = "idle"
  BY DEF Idle
<1>2. \A c \in Client : c.pc \in {"listing", "done"} /\ c # Idle
  BY <1>1 DEF Client
<1>3. client \in {Idle} \cup Client
  BY DEF PTypeOK
<1>4. client = Idle <=> client.pc = "idle"
  BY <1>1, <1>2, <1>3
<1>5. client # Idle => client \in Client
  BY <1>3
<1>6. ASSUME client \in Client PROVE Below \in Nat
  <2>1. client.cursor \in Cursor
    BY <1>6 DEF Client
  <2> QED BY <2>1, CursorFacts DEF Below, Cursor
<1> QED BY <1>1, <1>2, <1>4, <1>5, <1>6 DEF Client

LEMMA InsertInvariant ==
  ASSUME PagingInvariant, NEW value \in Values, Insert(value)
  PROVE  PagingInvariant'
<1> USE DEF PagingInvariant
<1>1. /\ rows' = Append(rows, value) /\ client' = client /\ steady' = steady
      /\ rows \in Seq(Values) /\ steady \in SUBSET (1..Len(rows)) /\ client \in {Idle} \cup Client
  BY DEF Insert, PTypeOK
<1>2. /\ rows' \in Seq(Values) /\ Len(rows') = Len(rows) + 1 /\ Len(rows) \in Nat
      /\ \A x \in 1..Len(rows) : rows'[x] = rows[x]
  BY <1>1
<1>3. steady' \in SUBSET (1..Len(rows'))
  BY <1>1, <1>2
<1>4. PTypeOK'
  BY <1>1, <1>2, <1>3 DEF PTypeOK
<1>5. SteadyRowsMatch'
  BY <1>1, <1>2 DEF SteadyRowsMatch
<1>6. /\ CursorIsLast' /\ PassedIsListed' /\ ListIsDescending' /\ ListingIsComplete'
  BY <1>1 DEF CursorIsLast, PassedIsListed, ListIsDescending, ListingIsComplete, Below
<1> QED BY <1>4, <1>5, <1>6

LEMMA UpdateInvariant ==
  ASSUME PagingInvariant, NEW i \in 1..Len(rows), NEW value \in Values, Update(i, value)
  PROVE  PagingInvariant'
<1> USE DEF PagingInvariant
<1>1. /\ rows' = [rows EXCEPT ![i] = value] /\ client' = client
      /\ rows \in Seq(Values) /\ steady \in SUBSET (1..Len(rows)) /\ client \in {Idle} \cup Client
  BY DEF Update, PTypeOK
<1>2. /\ rows' \in Seq(Values) /\ Len(rows') = Len(rows) /\ rows'[i] = value
      /\ \A x \in 1..Len(rows) : x # i => rows'[x] = rows[x]
  BY <1>1
<1>3. /\ steady' \in SUBSET steady
      /\ client # Idle /\ i \in steady' => Matches(value, client.filter)
  BY DEF Update
<1>4. PTypeOK'
  BY <1>1, <1>2, <1>3 DEF PTypeOK
<1>5. SteadyRowsMatch'
  BY <1>1, <1>2, <1>3 DEF SteadyRowsMatch
<1>6. /\ CursorIsLast' /\ PassedIsListed' /\ ListIsDescending' /\ ListingIsComplete'
  BY <1>1, <1>3 DEF CursorIsLast, PassedIsListed, ListIsDescending, ListingIsComplete, Below
<1> QED BY <1>4, <1>5, <1>6

LEMMA BeginInvariant ==
  ASSUME PagingInvariant, NEW filter \in Values \cup {All}, NEW limit \in Limits, Begin(filter, limit)
  PROVE  PagingInvariant'
<1> USE DEF PagingInvariant
<1>1. PICK n \in queryPageLimit(limit) :
        client' = [pc |-> "listing", filter |-> filter, limit |-> n, cursor |-> <<>>, items |-> <<>>]
  BY DEF Begin
<1>2. n \in Nat \ {0}
  BY PagingAssumption DEF queryPageLimit
<1>3. /\ rows' = rows /\ rows \in Seq(Values)
      /\ steady' = {x \in 1..Len(rows) : Matches(rows[x], filter)}
  BY DEF Begin, PTypeOK
<1>4. client' \in Client
  BY <1>1, <1>2 DEF Client, Cursor
<1>5. PTypeOK'
  BY <1>3, <1>4 DEF PTypeOK
<1>6. /\ client'.pc = "listing" /\ client'.filter = filter /\ client'.items = <<>>
      /\ client'.cursor = <<>>
  BY <1>1
<1>7. Below' = 0
  BY <1>6, CursorFacts DEF Below
<1>8. SteadyRowsMatch'
  BY <1>3, <1>6 DEF SteadyRowsMatch
<1>9. /\ CursorIsLast' /\ PassedIsListed' /\ ListIsDescending' /\ ListingIsComplete'
  BY <1>6, <1>7 DEF CursorIsLast, PassedIsListed, ListIsDescending, ListingIsComplete, IsDescending
<1> QED BY <1>5, <1>8, <1>9

LEMMA EndInvariant ==
  ASSUME PagingInvariant, End
  PROVE  PagingInvariant'
<1> USE DEF PagingInvariant
<1>1. rows' = rows /\ rows \in Seq(Values) /\ client' = Idle /\ steady' = {}
  BY DEF End, PTypeOK
<1>2. client'.pc = "idle"
  BY <1>1 DEF Idle
<1>3. PTypeOK'
  BY <1>1 DEF PTypeOK
<1> QED BY <1>1, <1>2, <1>3 DEF SteadyRowsMatch, CursorIsLast, PassedIsListed,
             ListIsDescending, ListingIsComplete

(* A page that lies below everything listed so far goes behind it.         *)
LEMMA JoinPages ==
  ASSUME NEW s \in Seq(Nat), NEW t \in Seq(Nat), NEW all, all = s \o t,
         IsDescending(s), IsDescending(t),
         \A i \in 1..Len(s), j \in 1..Len(t) : s[i] > t[j]
  PROVE  /\ all \in Seq(Nat) /\ IsDescending(all)
         /\ ToSet(all) = ToSet(s) \cup ToSet(t)
<1>1. /\ all \in Seq(Nat) /\ Len(s) \in Nat /\ Len(t) \in Nat /\ Len(all) = Len(s) + Len(t)
      /\ \A i \in 1..Len(s) : all[i] = s[i]
      /\ \A i \in 1..Len(all) : i > Len(s) => all[i] = t[i - Len(s)] /\ i - Len(s) \in 1..Len(t)
      /\ \A j \in 1..Len(t) : all[Len(s) + j] = t[j] /\ Len(s) + j \in 1..Len(all)
  BY ConcatProperties
<1>2. IsDescending(all)
  <2> SUFFICES ASSUME NEW i \in 1..Len(all), NEW j \in 1..Len(all), i < j PROVE all[i] > all[j]
    BY DEF IsDescending
  <2>1. CASE j <= Len(s)
    <3>1. i \in 1..Len(s) /\ j \in 1..Len(s)
      BY <1>1, <2>1
    <3> QED BY <1>1, <3>1 DEF IsDescending
  <2>2. CASE i > Len(s)
    <3>1. /\ i - Len(s) \in 1..Len(t) /\ j - Len(s) \in 1..Len(t) /\ i - Len(s) < j - Len(s)
          /\ all[i] = t[i - Len(s)] /\ all[j] = t[j - Len(s)]
      BY <1>1, <2>2
    <3> QED BY <3>1 DEF IsDescending
  <2>3. CASE i <= Len(s) /\ j > Len(s)
    <3>1. /\ i \in 1..Len(s) /\ j - Len(s) \in 1..Len(t)
          /\ all[i] = s[i] /\ all[j] = t[j - Len(s)]
      BY <1>1, <2>3
    <3> QED BY <3>1
  <2> QED BY <1>1, <2>1, <2>2, <2>3
<1>3. DOMAIN all = 1..Len(all) /\ DOMAIN s = 1..Len(s) /\ DOMAIN t = 1..Len(t)
  BY <1>1
<1>4. ToSet(all) \subseteq ToSet(s) \cup ToSet(t)
  <2> SUFFICES ASSUME NEW i \in 1..Len(all) PROVE all[i] \in ToSet(s) \cup ToSet(t)
    BY <1>3 DEF ToSet
  <2>1. CASE i <= Len(s)
    <3>1. i \in 1..Len(s) /\ all[i] = s[i]
      BY <1>1, <2>1
    <3> QED BY <3>1, <1>3 DEF ToSet
  <2>2. CASE i > Len(s)
    <3>1. all[i] = t[i - Len(s)] /\ i - Len(s) \in 1..Len(t)
      BY <1>1, <2>2
    <3> QED BY <3>1, <1>3 DEF ToSet
  <2> QED BY <1>1, <2>1, <2>2
<1>5. ToSet(s) \subseteq ToSet(all)
  <2> SUFFICES ASSUME NEW i \in 1..Len(s) PROVE s[i] \in ToSet(all)
    BY <1>3 DEF ToSet
  <2>1. i \in 1..Len(all) /\ all[i] = s[i]
    BY <1>1
  <2> QED BY <2>1, <1>3 DEF ToSet
<1>6. ToSet(t) \subseteq ToSet(all)
  <2> SUFFICES ASSUME NEW j \in 1..Len(t) PROVE t[j] \in ToSet(all)
    BY <1>3 DEF ToSet
  <2>1. PICK k \in 1..Len(all) : all[k] = t[j]
    BY <1>1
  <2> QED BY <2>1, <1>3 DEF ToSet
<1> QED BY <1>1, <1>2, <1>4, <1>5, <1>6

LEMMA NextPageInvariant ==
  ASSUME PagingInvariant, NextPage
  PROVE  PagingInvariant'
<1> USE DEF PagingInvariant
<1>1. /\ client.pc = "listing" /\ rows' = rows /\ steady' = steady
      /\ rows \in Seq(Values) /\ steady \in SUBSET (1..Len(rows))
  BY DEF NextPage, PTypeOK
<1>2. client # Idle /\ client \in Client
  BY <1>1, ClientFacts
<1>3. PICK page : page = List(client.filter, client.limit, client.cursor)
  OBVIOUS
<1>4. client' = [client EXCEPT !.pc = IF page.next = <<>> THEN "done" ELSE "listing",
                               !.cursor = page.next, !.items = @ \o page.items]
  BY <1>3 DEF NextPage
<1>5. PICK below \in Nat : below = Below
  BY <1>2, ClientFacts
<1>6. PICK S : S = Matching(client.filter, below)
  OBVIOUS
<1>7. /\ page.items \in Seq(S) /\ IsDescending(page.items) /\ page.next \in Cursor
      /\ page.next = <<>> => S \subseteq ToSet(page.items)
      /\ \A id \in Nat \ {0} : page.next = encodeCursor(id) =>
           /\ id \in S
           /\ \A i \in 1..Len(page.items) : page.items[i] >= id
           /\ \A x \in S : x >= id => x \in ToSet(page.items)
  <2>1. client.cursor \in Cursor /\ client.limit \in Nat \ {0}
    BY <1>2, ClientFacts
  <2>2. below = decodeEventCursor(client.cursor)
    BY <1>5 DEF Below
  <2>3. IsPage(page, S)
    BY <1>1, <1>3, <1>6, <2>1, <2>2, ListFacts
  <2> QED BY <2>3 DEF IsPage
<1>8. PICK old \in Seq(Nat) : old = client.items
  BY <1>2, ClientFacts
<1>9. PICK new \in Seq(Nat) : new = page.items
  <2>1. S \subseteq Nat
    BY <1>1, <1>6 DEF Matching
  <2>2. \A s \in Seq(S) : s \in Seq(Nat)
    <3> SUFFICES ASSUME NEW s \in Seq(S) PROVE s \in Seq(Nat)
      OBVIOUS
    <3>1. Len(s) \in Nat /\ s \in [1..Len(s) -> S]
      BY LenProperties
    <3>2. s \in [1..Len(s) -> Nat]
      BY <2>1, <3>1
    <3> QED BY <3>1, <3>2
  <2> QED BY <1>7, <2>2
<1>10. PICK items : items = old \o new
  OBVIOUS
<1>11. /\ \A i \in 1..Len(new) : new[i] \in S
       /\ \A x \in S : x \in 1..Len(rows) /\ (below > 0 => x < below)
  BY <1>6, <1>7, <1>9 DEF Matching
<1>12. /\ below = 0 => old = <<>>
       /\ \A i \in 1..Len(old) : old[i] >= below
  BY <1>1, <1>5, <1>8 DEF CursorIsLast
<1>13. ASSUME NEW i \in 1..Len(old), NEW j \in 1..Len(new) PROVE old[i] > new[j]
  <2>1. below > 0
    BY <1>12, <1>13
  <2>2. new[j] < below /\ new[j] \in Nat /\ old[i] \in Nat /\ old[i] >= below
    BY <1>11, <1>12, <2>1
  <2> QED BY <2>2
<1>14. /\ items \in Seq(Nat) /\ IsDescending(items)
       /\ ToSet(items) = ToSet(old) \cup ToSet(new)
  <2>1. IsDescending(old)
    BY <1>2, <1>8 DEF ListIsDescending
  <2>2. IsDescending(new)
    BY <1>7, <1>9
  <2> QED BY <1>10, <1>13, <2>1, <2>2, JoinPages
<1>15. /\ client' \in Client /\ client'.items = items /\ client'.cursor = page.next
       /\ client'.filter = client.filter
       /\ client'.pc = IF page.next = <<>> THEN "done" ELSE "listing"
  <2>1. client' = [client EXCEPT !.pc = IF page.next = <<>> THEN "done" ELSE "listing",
                                 !.cursor = page.next, !.items = items]
    BY <1>4, <1>8, <1>9, <1>10
  <2> QED BY <1>2, <1>7, <1>14, <2>1 DEF Client
<1>16. PTypeOK'
  BY <1>1, <1>15 DEF PTypeOK
<1>17. SteadyRowsMatch'
  BY <1>1, <1>2, <1>15 DEF SteadyRowsMatch
<1>18. ListIsDescending'
  BY <1>14, <1>15 DEF ListIsDescending
<1>19. ASSUME NEW x \in steady PROVE x \in S \/ (below > 0 /\ x >= below)
  <2>1. x \in 1..Len(rows) /\ Matches(rows[x], client.filter)
    BY <1>1, <1>2 DEF SteadyRowsMatch
  <2> QED BY <1>6, <2>1 DEF Matching
<1>20. \A x \in steady : below > 0 /\ x >= below => x \in ToSet(old)
  BY <1>1, <1>5, <1>8 DEF PassedIsListed
<1>21. CASE page.next = <<>>
  <2>1. client'.pc = "done"
    BY <1>15, <1>21
  <2>2. steady \subseteq ToSet(items)
    BY <1>7, <1>9, <1>14, <1>19, <1>20, <1>21
  <2> QED BY <1>1, <1>15, <1>16, <1>17, <1>18, <2>1, <2>2
          DEF CursorIsLast, PassedIsListed, ListingIsComplete
<1>22. CASE page.next # <<>>
  <2>1. PICK id \in Nat \ {0} : page.next = encodeCursor(id)
    BY <1>7, <1>22 DEF Cursor
  <2>2. client'.pc = "listing" /\ Below' = id
    BY <1>15, <1>22, <2>1, CursorFacts DEF Below
  <2>3. /\ id \in S
        /\ \A i \in 1..Len(new) : new[i] >= id
        /\ \A x \in S : x >= id => x \in ToSet(new)
    BY <1>7, <1>9, <2>1
  <2>4. \A i \in 1..Len(items) : items[i] >= id
    <3> SUFFICES ASSUME NEW i \in 1..Len(items) PROVE items[i] >= id
      OBVIOUS
    <3>1. items[i] \in ToSet(old) \cup ToSet(new)
      <4>1. DOMAIN items = 1..Len(items)
        BY <1>14
      <4>2. items[i] \in ToSet(items)
        BY <4>1 DEF ToSet
      <4> QED BY <1>14, <4>2
    <3>2. DOMAIN old = 1..Len(old) /\ DOMAIN new = 1..Len(new)
      OBVIOUS
    <3>3. CASE items[i] \in ToSet(old)
      <4>1. PICK j \in 1..Len(old) : items[i] = old[j]
        BY <3>2, <3>3 DEF ToSet
      <4>2. below > 0 /\ old[j] >= below /\ old[j] \in Nat
        BY <1>12
      <4>3. id < below
        BY <1>11, <2>3, <4>2
      <4> QED BY <4>1, <4>2, <4>3
    <3>4. CASE items[i] \in ToSet(new)
      BY <2>3, <3>2, <3>4 DEF ToSet
    <3> QED BY <3>1, <3>3, <3>4
  <2>5. \A x \in steady : x >= id => x \in ToSet(items)
    BY <1>14, <1>19, <1>20, <2>3
  <2>6. CursorIsLast' /\ PassedIsListed' /\ ListingIsComplete'
    BY <1>1, <1>15, <2>2, <2>4, <2>5 DEF CursorIsLast, PassedIsListed, ListingIsComplete
  <2> QED BY <1>16, <1>17, <1>18, <2>6
<1> QED BY <1>21, <1>22

LEMMA PStepInvariant ==
  ASSUME PagingInvariant, [PNext]_pvars
  PROVE  PagingInvariant'
<1>1. CASE PNext
  BY <1>1, InsertInvariant, UpdateInvariant, BeginInvariant, NextPageInvariant, EndInvariant DEF PNext
<1>2. CASE UNCHANGED pvars
  BY <1>2 DEF pvars, PagingInvariant, PTypeOK, SteadyRowsMatch, CursorIsLast, PassedIsListed,
              ListIsDescending, ListingIsComplete, Below
<1> QED BY <1>1, <1>2

(* The list of a client is always in strictly descending order over all    *)
(* its pages, and when it ends it has every row that matched the filter    *)
(* all along: the cursor relates what ListMaintenances and ListEvents have *)
(* returned to what the next query, over a table changed since, selects.   *)
THEOREM PagingCorrect == PSpec => []PagingInvariant
<1>1. PSpec => PInit /\ [][PNext]_pvars
  BY PTL DEF PSpec
<1> QED BY <1>1, PInitInvariant, PStepInvariant, PTL

(* No row is listed twice or out of order, whatever is inserted into the   *)
(* table, or changes its state, between two calls of ListMaintenances.     *)
THEOREM ListingOrdered == PSpec => []ListingIsOrdered
<1>1. ASSUME PagingInvariant PROVE ListingIsOrdered
  <2> SUFFICES ASSUME client # Idle, NEW i \in 1..(Len(client.items) - 1)
               PROVE  client.items[i] > client.items[i + 1]
    BY DEF ListingIsOrdered
  <2>1. client.items \in Seq(Nat) /\ IsDescending(client.items)
    BY <1>1, ClientFacts DEF PagingInvariant, ListIsDescending
  <2>2. i \in 1..Len(client.items) /\ i + 1 \in 1..Len(client.items) /\ i < i + 1
    BY <2>1
  <2> QED BY <2>1, <2>2 DEF IsDescending
<1> QED BY <1>1, PagingCorrect, PTL

(* A row that was there when the client began and matched its filter all   *)
(* the time is in the list when the last page has no next cursor.          *)
THEOREM ListingComplete == PSpec => []ListingIsComplete
<1>1. PagingInvariant => ListingIsComplete
  BY DEF PagingInvariant
<1> QED BY <1>1, PagingCorrect, PTL
=============================================================================
