----------------------------- MODULE GateProofs -----------------------------
(***************************************************************************)
(* What is proved of the two gates before a handler.                       *)
(*                                                                         *)
(* The token file and the answers that follow from it, for files of any    *)
(* length and any texts, headers and routes: reading is followed line by   *)
(* line, and what has been read is set against what the lines say.         *)
(*                                                                         *)
(* The If-Match header, for texts of any length: the scanner's positions   *)
(* are set against the parts between cuts, from the end of the text to its *)
(* beginning, so that the scanner's single way through the text is the     *)
(* only way to cut it into tags.                                           *)
(***************************************************************************)
EXTENDS Auth, IfMatch, FiniteSetTheorems, WellFoundedInduction, NaturalsInduction, SequenceTheorems, TLAPS

-----------------------------------------------------------------------------
(* Induction, the least and the greatest number.                           *)

(* Every set of numbers has a least one: induction over lines, positions   *)
(* and numbers is done on the set of those at which a claim fails.         *)
LEMMA LeastNumber ==
  ASSUME NEW T \in SUBSET Nat, T # {}
  PROVE  \E x \in T : \A y \in T : x <= y
<1>1. IsWellFoundedOn({ss \in Nat \X Nat : ss[1] < ss[2]}, Nat)
  BY NatLessThanWellFounded DEF OpToRel
<1>2. PICK x \in T : \A y \in T : ~ (<<y, x>> \in {ss \in Nat \X Nat : ss[1] < ss[2]})
  BY <1>1, WFMin
<1>3. ASSUME NEW y \in T PROVE x <= y
  <2>1. x \in Nat /\ y \in Nat /\ <<y, x>> \in Nat \X Nat /\ <<y, x>>[1] = y /\ <<y, x>>[2] = x
    OBVIOUS
  <2>2. ~(y < x)
    BY <1>2, <2>1
  <2> QED BY <2>1, <2>2
<1> QED BY <1>3

(* A set of numbers that has 0, and with a number the next one, has all up *)
(* to the bound.                                                           *)
LEMMA UpTo ==
  ASSUME NEW N \in Nat, NEW T, 0 \in T, \A n \in 0..N : n \in T /\ n < N => n + 1 \in T
  PROVE  0..N \subseteq T
<1> DEFINE bad == {n \in 0..N : n \notin T}
<1> SUFFICES ASSUME bad # {} PROVE FALSE
  OBVIOUS
<1>1. PICK x \in bad : \A y \in bad : x <= y
  <2>1. bad \in SUBSET Nat
    OBVIOUS
  <2> QED BY <2>1, LeastNumber
<1>2. x \in 0..N /\ x \notin T /\ x # 0
  OBVIOUS
<1>3. x - 1 \in 0..N /\ x - 1 < N /\ (x - 1) + 1 = x /\ ~(x <= x - 1)
  BY <1>2
<1>4. x - 1 \in T
  BY <1>1, <1>3
<1> QED BY <1>2, <1>3, <1>4

(* What holds of a number when it holds of all smaller ones.               *)
LEMMA StrongUp ==
  ASSUME NEW N \in Nat, NEW T,
         \A s \in 0..N : (\A r \in 0..N : r < s => r \in T) => s \in T
  PROVE  0..N \subseteq T
<1> DEFINE bad == {n \in 0..N : n \notin T}
<1> SUFFICES ASSUME bad # {} PROVE FALSE
  OBVIOUS
<1>1. PICK x \in bad : \A y \in bad : x <= y
  <2>1. bad \in SUBSET Nat
    OBVIOUS
  <2> QED BY <2>1, LeastNumber
<1>2. x \in 0..N /\ x \notin T
  OBVIOUS
<1>3. ASSUME NEW r \in 0..N, r < x PROVE r \in T
  <2>1. ~(x <= r)
    BY <1>2, <1>3
  <2> QED BY <1>1, <2>1
<1> QED BY <1>2, <1>3

(* Down from N: what holds of a number when it holds of all larger ones.   *)
LEMMA DownFrom ==
  ASSUME NEW N \in Nat, NEW T,
         \A s \in 0..N : (\A r \in 0..N : r > s => r \in T) => s \in T
  PROVE  0..N \subseteq T
<1> DEFINE bad == {k \in 0..N : N - k \notin T}
<1> SUFFICES ASSUME bad # {} PROVE FALSE
  <2>1. ASSUME NEW s \in 0..N, s \notin T PROVE bad # {}
    <3>1. N - s \in 0..N /\ N - (N - s) = s
      OBVIOUS
    <3>2. N - (N - s) \notin T
      BY <2>1, <3>1
    <3> QED BY <3>1, <3>2
  <2> QED BY <2>1
<1>1. PICK x \in bad : \A y \in bad : x <= y
  <2>1. bad \in SUBSET Nat
    OBVIOUS
  <2> QED BY <2>1, LeastNumber
<1>2. N - x \in 0..N /\ N - x \notin T /\ x \in 0..N
  OBVIOUS
<1>3. ASSUME NEW r \in 0..N, r > N - x PROVE r \in T
  <2>1. N - r \in 0..N /\ ~(x <= N - r) /\ N - (N - r) = r
    BY <1>2, <1>3
  <2> QED BY <1>1, <2>1
<1> QED BY <1>2, <1>3

LEMMA MinFacts ==
  ASSUME NEW S \in SUBSET Nat, S # {}
  PROVE  Min(S) \in S /\ \A y \in S : Min(S) <= y
BY LeastNumber DEF Min

LEMMA MinIs ==
  ASSUME NEW S \in SUBSET Nat, NEW x \in S, \A y \in S : x <= y
  PROVE  Min(S) = x
<1>1. Min(S) \in S /\ Min(S) <= x /\ x <= Min(S)
  BY MinFacts
<1>2. Min(S) \in Nat /\ x \in Nat
  BY <1>1
<1> QED BY <1>1, <1>2

LEMMA GreatestNumber ==
  ASSUME NEW N \in Nat, NEW S \in SUBSET (0..N), S # {}
  PROVE  \E x \in S : \A y \in S : x >= y
<1> DEFINE T == {k \in 0..N : N - k \in S}
<1>1. T \in SUBSET Nat /\ T # {}
  <2>1. PICK s \in S : TRUE
    OBVIOUS
  <2>2. N - s \in 0..N /\ N - (N - s) = s
    OBVIOUS
  <2> QED BY <2>2
<1>2. PICK k \in T : \A y \in T : k <= y
  BY <1>1, LeastNumber
<1>3. N - k \in S /\ k \in 0..N
  OBVIOUS
<1>4. ASSUME NEW y \in S PROVE N - k >= y
  <2>1. y \in 0..N /\ N - y \in 0..N /\ N - (N - y) = y
    OBVIOUS
  <2>2. k <= N - y
    BY <1>2, <2>1
  <2> QED BY <1>3, <2>1, <2>2
<1> QED BY <1>3, <1>4

LEMMA MaxIs ==
  ASSUME NEW S \in SUBSET Nat, NEW x \in S, \A y \in S : x >= y
  PROVE  Max(S) = x
<1>1. Max(S) \in S /\ \A y \in S : Max(S) >= y
  BY DEF Max
<1>2. Max(S) >= x /\ x >= Max(S) /\ Max(S) \in Nat /\ x \in Nat
  BY <1>1
<1> QED BY <1>2

-----------------------------------------------------------------------------
(* The token file.  Reading line after line.                               *)

File == [allowed : BOOLEAN, lines : Seq(Lines)]

LineStep(f, g, n) ==
  IF n = 0 THEN [ok |-> f.allowed, tokens |-> <<>>] ELSE Reading(g[n - 1], f.lines[n])

LEMMA ReadLinesExists ==
  ASSUME NEW f, NEW N \in Nat
  PROVE  \E g : g = [n \in 0..N |-> LineStep(f, g, n)]
<1> DEFINE T == {k \in 0..N : \E g : g = [n \in 0..k |-> LineStep(f, g, n)]}
<1>1. 0 \in T
  <2>1. PICK g : g = [n \in 0..0 |-> [ok |-> f.allowed, tokens |-> <<>>]]
    OBVIOUS
  <2>2. g = [n \in 0..0 |-> LineStep(f, g, n)]
    BY <2>1 DEF LineStep
  <2> QED BY <2>2
<1>2. ASSUME NEW k \in 0..N, k \in T, k < N PROVE k + 1 \in T
  <2>1. PICK g : g = [n \in 0..k |-> LineStep(f, g, n)]
    BY <1>2
  <2>2. PICK h : h = [n \in 0..(k + 1) |-> IF n = k + 1 THEN Reading(g[k], f.lines[k + 1]) ELSE g[n]]
    OBVIOUS
  <2>3. ASSUME NEW n \in 0..(k + 1) PROVE h[n] = LineStep(f, h, n)
    <3>1. CASE n = k + 1
      <4>1. n # 0 /\ n - 1 = k /\ k \in 0..(k + 1) /\ k # k + 1
        BY <3>1
      <4>2. h[k] = g[k] /\ h[n] = Reading(g[k], f.lines[k + 1])
        BY <2>2, <3>1, <4>1
      <4> QED BY <3>1, <4>1, <4>2 DEF LineStep
    <3>2. CASE n # k + 1
      <4>1. n \in 0..k
        BY <3>2
      <4>2. h[n] = LineStep(f, g, n)
        BY <2>1, <2>2, <3>2, <4>1
      <4>3. CASE n = 0
        BY <4>2, <4>3 DEF LineStep
      <4>4. CASE n # 0
        <5>1. n - 1 \in 0..(k + 1) /\ n - 1 # k + 1
          BY <4>1, <4>4
        <5>2. h[n - 1] = g[n - 1]
          BY <2>2, <5>1
        <5> QED BY <4>2, <4>4, <5>2 DEF LineStep
      <4> QED BY <4>3, <4>4
    <3> QED BY <3>1, <3>2
  <2>4. DOMAIN h = 0..(k + 1) /\ h = [n \in 0..(k + 1) |-> h[n]]
    BY <2>2
  <2>5. h = [n \in 0..(k + 1) |-> LineStep(f, h, n)]
    BY <2>3, <2>4
  <2>6. k + 1 \in 0..N
    BY <1>2
  <2> QED BY <2>5, <2>6
<1>3. N \in T
  <2> HIDE DEF T
  <2>1. 0..N \subseteq T
    BY <1>1, <1>2, UpTo
  <2> QED BY <2>1
<1> QED BY <1>3

LEMMA ReadLinesEquation ==
  ASSUME NEW f, f.lines \in Seq(Lines)
  PROVE  /\ ReadLines(f)[0] = [ok |-> f.allowed, tokens |-> <<>>]
         /\ \A n \in 1..Len(f.lines) :
              ReadLines(f)[n] = Reading(ReadLines(f)[n - 1], f.lines[n])
<1>1. PICK N \in Nat : N = Len(f.lines)
  OBVIOUS
<1>2. PICK g : g = [n \in 0..N |-> LineStep(f, g, n)]
  BY <1>1, ReadLinesExists
<1>3. ReadLines(f) = [n \in 0..N |-> LineStep(f, ReadLines(f), n)]
  BY <1>1, <1>2 DEF ReadLines, LineStep
<1>4. \A n \in 0..N : ReadLines(f)[n] = LineStep(f, ReadLines(f), n)
  BY <1>3
<1> QED BY <1>1, <1>4 DEF LineStep

-----------------------------------------------------------------------------
(* What has been read after n lines.                                       *)

Entry(f, i) == parseLine(f.lines[i])

RecordsUpTo(f, n) == {i \in 1..n : f.lines[i].kind # "blank"}

GoodRecord(f, i) == Parses(f.lines[i]) /\ Addable(<<>>, Entry(f, i))

Distinct(a, b) == a.name # b.name /\ a.value # b.value

Acceptable(f, n) ==
  /\ f.allowed
  /\ \A i \in RecordsUpTo(f, n) : GoodRecord(f, i)
  /\ \A i, j \in RecordsUpTo(f, n) : i # j => Distinct(Entry(f, i), Entry(f, j))

TokensOf(f, n, known) ==
  /\ known \in Seq({Entry(f, i) : i \in RecordsUpTo(f, n)})
  /\ \A i \in RecordsUpTo(f, n) : \E k \in DOMAIN known : known[k] = Entry(f, i)

(* The loop of LoadFile is at line n with this result.                     *)
ReadSoFar(f, n, result) ==
  /\ \E ok \in BOOLEAN : \E known : result = [ok |-> ok, tokens |-> known]
  /\ result.ok <=> Acceptable(f, n)
  /\ result.ok => TokensOf(f, n, result.tokens)

LEMMA AddableFacts ==
  ASSUME NEW known, NEW t
  PROVE  Addable(known, t) <=>
           Addable(<<>>, t) /\ \A k \in DOMAIN known : Distinct(known[k], t)
BY DEF Addable, Distinct

LEMMA ReadNothing ==
  ASSUME NEW f \in File
  PROVE  ReadSoFar(f, 0, [ok |-> f.allowed, tokens |-> <<>>])
<1>1. RecordsUpTo(f, 0) = {}
  BY DEF RecordsUpTo
<1>2. f.allowed \in BOOLEAN
  BY DEF File
<1>3. TokensOf(f, 0, <<>>)
  BY <1>1 DEF TokensOf
<1>4. Acceptable(f, 0) <=> f.allowed
  BY <1>1, Zenon DEF Acceptable
<1>5. PICK r : r = [ok |-> f.allowed, tokens |-> <<>>]
  OBVIOUS
<1>6. r.tokens = <<>>
  BY <1>5
<1>7. r.ok = f.allowed
  BY <1>5
<1> QED BY <1>2, <1>3, <1>4, <1>5, <1>6, <1>7, Zenon DEF ReadSoFar

LEMMA ReadBlank ==
  ASSUME NEW f \in File, NEW n \in Nat, NEW result, ReadSoFar(f, n, result),
         f.lines[n + 1].kind = "blank"
  PROVE  ReadSoFar(f, n + 1, result)
<1>1. RecordsUpTo(f, n + 1) = RecordsUpTo(f, n)
  BY DEF RecordsUpTo
<1> QED BY <1>1 DEF ReadSoFar, Acceptable, TokensOf

LEMMA MoreRecords ==
  ASSUME NEW f \in File, NEW n \in Nat, f.lines[n + 1].kind # "blank"
  PROVE  /\ RecordsUpTo(f, n + 1) = RecordsUpTo(f, n) \cup {n + 1}
         /\ n + 1 \notin RecordsUpTo(f, n)
BY DEF RecordsUpTo

LEMMA MoreAcceptable ==
  ASSUME NEW f \in File, NEW n \in Nat, f.lines[n + 1].kind # "blank"
  PROVE  Acceptable(f, n + 1) <=>
           /\ Acceptable(f, n)
           /\ GoodRecord(f, n + 1)
           /\ \A i \in RecordsUpTo(f, n) : Distinct(Entry(f, i), Entry(f, n + 1))
<1>1. PICK R : R = RecordsUpTo(f, n)
  OBVIOUS
<1>2. PICK m : m = n + 1
  OBVIOUS
<1>3. RecordsUpTo(f, m) = R \cup {m} /\ m \notin R
  BY <1>1, <1>2, MoreRecords
<1>4. \A a, b : Distinct(a, b) <=> Distinct(b, a)
  BY DEF Distinct
<1> HIDE DEF Entry, GoodRecord, Distinct
<1>5. Acceptable(f, m) <=>
           /\ Acceptable(f, n)
           /\ GoodRecord(f, m)
           /\ \A i \in R : Distinct(Entry(f, i), Entry(f, m))
  BY ONLY <1>1, <1>3, <1>4 DEF Acceptable
<1> QED BY <1>1, <1>2, <1>5

LEMMA ReadRecord ==
  ASSUME NEW f \in File, NEW n \in Nat, NEW result, ReadSoFar(f, n, result),
         f.lines[n + 1].kind # "blank"
  PROVE  ReadSoFar(f, n + 1, Reading(result, f.lines[n + 1]))
<1>1. PICK m : m = n + 1
  OBVIOUS
<1>some. PICK ok \in BOOLEAN : \E known : result = [ok |-> ok, tokens |-> known]
  BY DEF ReadSoFar
<1>2. PICK known : result = [ok |-> ok, tokens |-> known]
  BY <1>some
<1>3. /\ result.ok = ok /\ result.tokens = known
      /\ ok <=> Acceptable(f, n)
      /\ ok => TokensOf(f, n, known)
  BY <1>2 DEF ReadSoFar
<1>4. /\ RecordsUpTo(f, m) = RecordsUpTo(f, n) \cup {m} /\ m \notin RecordsUpTo(f, n)
      /\ f.lines[m].kind # "blank"
  BY <1>1, MoreRecords
<1>5. Acceptable(f, m) <=>
        /\ Acceptable(f, n) /\ GoodRecord(f, m)
        /\ \A i \in RecordsUpTo(f, n) : Distinct(Entry(f, i), Entry(f, m))
  BY <1>1, MoreAcceptable
<1>6. CASE ~ok
  <2>1. Reading(result, f.lines[m]) = result
    BY <1>3, <1>6 DEF Reading
  <2>2. ~Acceptable(f, m)
    BY <1>3, <1>5, <1>6
  <2> QED BY <1>1, <1>2, <1>3, <1>6, <2>1, <2>2 DEF ReadSoFar
<1>7. CASE ok
  <2>1. TokensOf(f, n, known) /\ Acceptable(f, n)
    BY <1>3, <1>7
  <2>2. DOMAIN known = 1..Len(known) /\ Len(known) \in Nat
    BY <2>1 DEF TokensOf
  <2>3. (\A k \in DOMAIN known : Distinct(known[k], Entry(f, m)))
          <=> \A i \in RecordsUpTo(f, n) : Distinct(Entry(f, i), Entry(f, m))
    <3>1. \A k \in DOMAIN known : known[k] \in {Entry(f, i) : i \in RecordsUpTo(f, n)}
      BY <2>1, <2>2 DEF TokensOf
    <3>2. \A k \in DOMAIN known : \E i \in RecordsUpTo(f, n) : known[k] = Entry(f, i)
      BY <3>1
    <3>3. \A i \in RecordsUpTo(f, n) : \E k \in DOMAIN known : known[k] = Entry(f, i)
      BY <2>1 DEF TokensOf
    <3> QED BY ONLY <3>2, <3>3
  <2>4. Parses(f.lines[m]) /\ Addable(known, Entry(f, m)) <=> Acceptable(f, m)
    BY <1>5, <2>1, <2>3, AddableFacts DEF GoodRecord
  <2>5. CASE Acceptable(f, m)
    <3>1. Reading(result, f.lines[m]) = [ok |-> TRUE, tokens |-> Append(known, Entry(f, m))]
      BY <1>2, <1>4, <1>7, <2>4, <2>5 DEF Reading, Entry
    <3>2. TokensOf(f, m, Append(known, Entry(f, m)))
      <4>1. PICK E : E = {Entry(f, i) : i \in RecordsUpTo(f, m)}
        OBVIOUS
      <4>2. Entry(f, m) \in E
        BY <1>4, <4>1
      <4>3. known \in Seq(E)
        <5>1. \A k \in 1..Len(known) : known[k] \in {Entry(f, i) : i \in RecordsUpTo(f, n)}
          BY <2>1 DEF TokensOf
        <5>2. {Entry(f, i) : i \in RecordsUpTo(f, n)} \subseteq E
          BY <1>4, <4>1
        <5>3. known \in [1..Len(known) -> E]
          BY <2>1, <2>2, <5>1, <5>2 DEF TokensOf
        <5> QED BY <2>2, <5>3
      <4>4. PICK new : new = Append(known, Entry(f, m))
        OBVIOUS
      <4>5. /\ new \in Seq(E) /\ Len(new) = Len(known) + 1 /\ DOMAIN new = 1..Len(new)
            /\ \A k \in 1..Len(known) : new[k] = known[k]
            /\ new[Len(known) + 1] = Entry(f, m)
        BY <4>2, <4>3, <4>4, AppendProperties
      <4>6. /\ \A k \in DOMAIN known : k \in DOMAIN new /\ new[k] = known[k]
            /\ \E k \in DOMAIN new : new[k] = Entry(f, m)
        BY <2>2, <4>5
      <4>7. \A i \in RecordsUpTo(f, m) : \E k \in DOMAIN new : new[k] = Entry(f, i)
        BY <1>4, <2>1, <4>6, Zenon DEF TokensOf
      <4> QED BY <4>1, <4>4, <4>5, <4>7 DEF TokensOf
    <3>3. PICK r : r = [ok |-> TRUE, tokens |-> Append(known, Entry(f, m))]
      OBVIOUS
    <3>4. r.ok = TRUE /\ r.tokens = Append(known, Entry(f, m))
      BY <3>3
    <3>5. ReadSoFar(f, m, r)
      BY <2>5, <3>2, <3>3, <3>4, Zenon DEF ReadSoFar
    <3> QED BY <1>1, <3>1, <3>3, <3>5
  <2>6. CASE ~Acceptable(f, m)
    <3>1. Reading(result, f.lines[m]) = [ok |-> FALSE, tokens |-> known]
      BY <1>2, <1>4, <1>7, <2>4, <2>6 DEF Reading, Entry
    <3>2. PICK r : r = [ok |-> FALSE, tokens |-> known]
      OBVIOUS
    <3>3. r.ok = FALSE
      BY <3>2
    <3>4. ReadSoFar(f, m, r)
      BY <2>6, <3>2, <3>3, Zenon DEF ReadSoFar
    <3> QED BY <1>1, <3>1, <3>2, <3>4
  <2> QED BY <2>5, <2>6
<1> QED BY <1>6, <1>7

LEMMA ReadAll ==
  ASSUME NEW f \in File
  PROVE  ReadSoFar(f, Len(f.lines), ReadLines(f)[Len(f.lines)])
<1>1. f.lines \in Seq(Lines)
  BY DEF File
<1>2. PICK N \in Nat : N = Len(f.lines)
  BY <1>1
<1> DEFINE T == {n \in 0..N : ReadSoFar(f, n, ReadLines(f)[n])}
<1>3. 0 \in T
  <2>1. ReadSoFar(f, 0, ReadLines(f)[0])
    BY <1>1, ReadLinesEquation, ReadNothing
  <2>2. 0 \in 0..N
    OBVIOUS
  <2> QED BY <2>1, <2>2
<1>4. ASSUME NEW n \in 0..N, n \in T, n < N PROVE n + 1 \in T
  <2>1. n + 1 \in 1..Len(f.lines) /\ (n + 1) - 1 = n /\ n \in Nat /\ n + 1 \in 0..N
    BY <1>2, <1>4
  <2>2. PICK r : r = ReadLines(f)[n] /\ ReadSoFar(f, n, r)
    BY <1>4
  <2>3. ReadLines(f)[n + 1] = Reading(r, f.lines[n + 1])
    BY <1>1, <2>1, <2>2, ReadLinesEquation
  <2>4. CASE f.lines[n + 1].kind = "blank"
    <3>1. Reading(r, f.lines[n + 1]) = r
      BY <2>4 DEF Reading
    <3>2. ReadSoFar(f, n + 1, r)
      BY <2>1, <2>2, <2>4, ReadBlank
    <3> QED BY <2>1, <2>3, <3>1, <3>2
  <2>5. CASE f.lines[n + 1].kind # "blank"
    <3>1. ReadSoFar(f, n + 1, Reading(r, f.lines[n + 1]))
      BY <2>1, <2>2, <2>5, ReadRecord
    <3> QED BY <2>1, <2>3, <3>1
  <2> QED BY <2>4, <2>5
<1>5. N \in T
  <2> HIDE DEF T
  <2>1. 0..N \subseteq T
    BY <1>3, <1>4, UpTo
  <2> QED BY <2>1
<1> QED BY <1>2, <1>5

(* LoadFile takes a file exactly for what it says, and its tokens are the  *)
(* entries of its records.                                                 *)
LEMMA LoadFileFacts ==
  ASSUME NEW f \in File
  PROVE  /\ LoadFile(f).ok \in BOOLEAN
         /\ LoadFile(f).ok <=> Acceptable(f, Len(f.lines)) /\ Records(f) # {}
         /\ LoadFile(f).ok => TokensOf(f, Len(f.lines), LoadFile(f).tokens)
         /\ Records(f) = RecordsUpTo(f, Len(f.lines))
<1>1. PICK N : N = Len(f.lines)
  OBVIOUS
<1>2. PICK read : read = ReadLines(f)[N]
  OBVIOUS
<1>3. ReadSoFar(f, N, read)
  BY <1>1, <1>2, ReadAll
<1>some. PICK ok \in BOOLEAN : \E known : read = [ok |-> ok, tokens |-> known]
  BY <1>3 DEF ReadSoFar
<1>4. PICK known : read = [ok |-> ok, tokens |-> known]
  BY <1>some
<1>5. read.ok = ok /\ read.tokens = known
  BY <1>4
<1>6. /\ ok <=> Acceptable(f, N)
      /\ ok => TokensOf(f, N, known)
  BY <1>3, <1>5, Zenon DEF ReadSoFar
<1>7. LoadFile(f) = [read EXCEPT !.ok = ok /\ known # <<>>]
  BY <1>1, <1>2, <1>5 DEF LoadFile
<1>8. LoadFile(f) = [ok |-> (ok /\ known # <<>>), tokens |-> known]
  BY <1>4, <1>7
<1>9. LoadFile(f).tokens = known
  BY <1>8
<1>10. LoadFile(f).ok = (ok /\ known # <<>>)
  BY <1>8
<1>11. Records(f) = RecordsUpTo(f, N)
  <2>1. f.lines \in Seq(Lines)
    BY DEF File
  <2>2. DOMAIN f.lines = 1..N
    BY <1>1, <2>1
  <2> QED BY <2>2 DEF Records, RecordsUpTo
<1>12. ASSUME ok PROVE known # <<>> <=> Records(f) # {}
  <2>1. TokensOf(f, N, known)
    BY <1>6, <1>12
  <2>2. known = <<>> => Records(f) = {}
    <3> SUFFICES ASSUME known = <<>> PROVE Records(f) = {}
      OBVIOUS
    <3>1. DOMAIN known = {}
      OBVIOUS
    <3> QED BY <1>11, <2>1, <3>1 DEF TokensOf
  <2>3. Records(f) = {} => known = <<>>
    <3> SUFFICES ASSUME Records(f) = {} PROVE known = <<>>
      OBVIOUS
    <3>1. known \in Seq({})
      BY <1>11, <2>1 DEF TokensOf
    <3>2. Len(known) \in Nat /\ (Len(known) > 0 => known[1] \in {})
      BY <3>1
    <3>3. Len(known) = 0
      BY <3>2
    <3> QED BY <3>1, <3>3, EmptySeq
  <2> QED BY <2>2, <2>3
<1> QED BY <1>1, <1>6, <1>9, <1>10, <1>11, <1>12, Zenon

-----------------------------------------------------------------------------
(* The inductive invariant.                                                *)

ATypeOK ==
  /\ file \in File /\ loaded \in File
  /\ process \in {"new", "up", "refused", "down"}
  /\ ready \in BOOLEAN

(* A server that is up has the tokens of the file it started from.         *)
LoadedIsRead ==
  /\ process = "up" => LoadFile(loaded).ok /\ tokens = LoadFile(loaded).tokens
  /\ process = "refused" => ~LoadFile(loaded).ok

OnlyUpAnswers == answer # NoAnswer => process = "up"

AuthInvariant == ATypeOK /\ LoadedIsRead /\ OnlyUpAnswers /\ AnswersFollowTheFile

LEMMA InitAuth == AInit => AuthInvariant
<1> SUFFICES ASSUME AInit PROVE AuthInvariant
  OBVIOUS
<1>1. file \in File
  <2>1. file \in [allowed : BOOLEAN, lines : {<<>>}]
    BY DEF AInit
  <2>2. file.lines = <<>> /\ file.allowed \in BOOLEAN
        /\ file = [allowed |-> file.allowed, lines |-> file.lines]
    BY <2>1
  <2>3. <<>> \in Seq(Lines)
    OBVIOUS
  <2> QED BY <2>2, <2>3 DEF File
<1> QED BY <1>1 DEF AInit, AuthInvariant, ATypeOK, LoadedIsRead, OnlyUpAnswers, AnswersFollowTheFile

LEMMA InvariantDecidesByContent == ASSUME AuthInvariant PROVE LoadDecidesByContent
<1>1. loaded \in File
  BY DEF AuthInvariant, ATypeOK
<1>2. process \in {"up", "refused"} =>
        (process = "up" <=> Acceptable(loaded, Len(loaded.lines)) /\ Records(loaded) # {})
  BY <1>1, LoadFileFacts DEF AuthInvariant, LoadedIsRead
<1>3. Records(loaded) = RecordsUpTo(loaded, Len(loaded.lines))
  BY <1>1, LoadFileFacts
<1> HIDE DEF AuthInvariant
<1> QED BY <1>2, <1>3 DEF LoadDecidesByContent, Acceptable, GoodRecord, Entry, Distinct

-----------------------------------------------------------------------------
(* One request.                                                            *)

LEMMA FieldTyped ==
  ASSUME NEW line \in Lines, NEW key \in Keys(line)
  PROVE  Field(line, key) \in Texts \cup {NullValue, OtherValue}
<1>1. PICK fields : fields = line.fields
  OBVIOUS
<1>2. fields \in Seq([key : STRING, value : Texts \cup {NullValue, OtherValue}])
  BY <1>1, LinesAssumption
<1>3. \A i \in DOMAIN fields : fields[i].value \in Texts \cup {NullValue, OtherValue}
  <2>1. PICK Pairs : Pairs = [key : STRING, value : Texts \cup {NullValue, OtherValue}]
    OBVIOUS
  <2>2. \A i \in DOMAIN fields : fields[i] \in Pairs
    <3>1. fields \in Seq(Pairs)
      BY <1>2, <2>1, Zenon
    <3> QED BY <3>1
  <2>3. \A p \in Pairs : p.value \in Texts \cup {NullValue, OtherValue}
    BY <2>1
  <2> QED BY <2>2, <2>3
<1>4. \E i \in DOMAIN fields : fields[i].key = key
  BY <1>1 DEF Keys
<1> QED BY <1>1, <1>3, <1>4 DEF Field

LEMMA EntryTyped ==
  ASSUME NEW line \in Lines, Parses(line)
  PROVE  [name |-> parseLine(line).name, role |-> parseLine(line).role]
           \in [name : Texts, role : Texts]
<1>1. \A key \in {"name", "role"} : Field(line, key) \in Texts \cup {NullValue}
  BY FieldTyped DEF Parses
<1>2. \A key \in {"name", "role"} : Unmarshal(Field(line, key)) \in Texts
  BY <1>1, TextsAssumption DEF Unmarshal
<1>3. parseLine(line).name \in Texts /\ parseLine(line).role \in Texts
  BY <1>2 DEF parseLine
<1> QED BY <1>3

(* The records that hold a credential and the tokens that do: there is at  *)
(* most one such entry.                                                    *)
LEMMA HolderFacts ==
  ASSUME NEW f \in File, LoadFile(f).ok, tokens = LoadFile(f).tokens, NEW header
  PROVE  /\ \A i, j \in Holders(f, header) : i = j
         /\ \A i \in Holders(f, header) :
              /\ GoodRecord(f, i) /\ f.lines[i] \in Lines
              /\ Entry(f, i).value = TrimSpace[header.credential]
              /\ \E k \in DOMAIN tokens : tokens[k].value = TrimSpace[header.credential]
              /\ \A k \in DOMAIN tokens :
                   tokens[k].value = TrimSpace[header.credential] => tokens[k] = Entry(f, i)
         /\ Holders(f, header) = {} =>
              \A k \in DOMAIN tokens : tokens[k].value # TrimSpace[header.credential]
         /\ DOMAIN tokens \subseteq Nat
<1>1. PICK N : N = Len(f.lines)
  OBVIOUS
<1>2. PICK R : R = RecordsUpTo(f, N)
  OBVIOUS
<1>3. PICK provided : provided = TrimSpace[header.credential]
  OBVIOUS
<1>4. /\ Records(f) = R
      /\ \A i \in R : GoodRecord(f, i)
      /\ \A i, j \in R : i # j => Distinct(Entry(f, i), Entry(f, j))
      /\ tokens \in Seq({Entry(f, i) : i \in R})
      /\ \A i \in R : \E k \in DOMAIN tokens : tokens[k] = Entry(f, i)
  BY <1>1, <1>2, LoadFileFacts DEF Acceptable, TokensOf
<1>5. Holders(f, header) = {i \in R : Entry(f, i).value = provided}
  BY <1>3, <1>4 DEF Holders, Entry
<1>6. \A i, j \in R : Entry(f, i).value = Entry(f, j).value => i = j
  BY <1>4 DEF Distinct
<1>7. \A k \in DOMAIN tokens : \E i \in R : tokens[k] = Entry(f, i)
  <2>1. \A k \in DOMAIN tokens : tokens[k] \in {Entry(f, i) : i \in R}
    BY <1>4
  <2> QED BY <2>1
<1>8. \A i \in R : f.lines[i] \in Lines
  <2>1. f.lines \in Seq(Lines)
    BY DEF File
  <2>2. R \subseteq 1..Len(f.lines)
    BY <1>1, <1>2 DEF RecordsUpTo
  <2> QED BY <2>1, <2>2
<1>9. DOMAIN tokens \subseteq Nat
  <2>1. DOMAIN tokens = 1..Len(tokens)
    BY <1>4
  <2> QED BY <2>1
<1> HIDE DEF Entry, GoodRecord
<1>10. ASSUME NEW i \in Holders(f, header)
       PROVE  /\ \E k \in DOMAIN tokens : tokens[k].value = provided
              /\ \A k \in DOMAIN tokens : tokens[k].value = provided => tokens[k] = Entry(f, i)
  <2>1. i \in R /\ Entry(f, i).value = provided
    BY <1>5
  <2>2. \E k \in DOMAIN tokens : tokens[k].value = provided
    BY <1>4, <2>1
  <2>3. ASSUME NEW k \in DOMAIN tokens, tokens[k].value = provided PROVE tokens[k] = Entry(f, i)
    <3>1. PICK j \in R : tokens[k] = Entry(f, j)
      BY <1>7
    <3>2. j = i
      BY <1>6, <2>1, <2>3, <3>1
    <3> QED BY <3>1, <3>2
  <2> QED BY <2>2, <2>3
<1>11. \A i, j \in Holders(f, header) : i = j
  BY <1>5, <1>6
<1>12. ASSUME Holders(f, header) = {}, NEW k \in DOMAIN tokens PROVE tokens[k].value # provided
  BY <1>5, <1>7, <1>12
<1>13. \A i \in Holders(f, header) : GoodRecord(f, i) /\ f.lines[i] \in Lines /\ Entry(f, i).value = provided
  BY <1>4, <1>5, <1>8
<1> QED BY <1>3, <1>9, <1>10, <1>11, <1>12, <1>13

LEMMA AtMostOne ==
  ASSUME NEW S, \A x, y \in S : x = y
  PROVE  Cardinality(S) <= 1
<1>1. CASE S = {}
  <2>1. Cardinality(S) = 0
    BY <1>1, FS_EmptySet
  <2> QED BY <2>1
<1>2. CASE S # {}
  <2>1. PICK x \in S : S = {x}
    BY <1>2
  <2>2. Cardinality(S) = 1
    BY <2>1, FS_Singleton
  <2> QED BY <2>2
<1> QED BY <1>1, <1>2

(* Who Authenticate finds.                                                 *)
LEMMA AuthenticateFacts ==
  ASSUME NEW f \in File, LoadFile(f).ok, tokens = LoadFile(f).tokens, NEW header \in Headers,
         NEW holders, holders = Holders(f, header),
         NEW holder, holder = Entry(f, CHOOSE i \in holders : TRUE)
  PROVE  /\ Authenticate(header) = Nobody <=>
              \/ header.scheme \notin {"Bearer", "bearer"} \/ holders = {} \/ holder.value \in HasBlank
              \/ Length[header.credential] > maxTokenLen
         /\ Authenticate(header) # Nobody =>
              Authenticate(header) = [name |-> holder.name, role |-> holder.role]
<1>1. PICK provided : provided = TrimSpace[header.credential]
  OBVIOUS
<1>2. PICK length \in Nat : length = Length[header.credential]
  BY HeadersAssumption, TextsAssumption
<1>3. length <= maxTokenLen <=> ~(length > maxTokenLen)
  BY DEF maxTokenLen
<1>4. PICK found : found = {i \in DOMAIN tokens : tokens[i].value = provided}
  OBVIOUS
<1>5. PICK first : first = CHOOSE i \in found : \A j \in found : i <= j
  OBVIOUS
<1>6. Authenticate(header) =
        IF /\ header.scheme \in {"Bearer", "bearer"} /\ length <= maxTokenLen
           /\ provided # "" /\ provided \notin HasBlank /\ found # {}
        THEN [name |-> tokens[first].name, role |-> tokens[first].role] ELSE Nobody
  BY <1>1, <1>2, <1>4, <1>5 DEF Authenticate
<1>7. CASE holders = {}
  <2>1. found = {}
    BY <1>1, <1>4, <1>7, HolderFacts
  <2> QED BY <1>6, <1>7, <2>1
<1>8. CASE holders # {}
  <2>1. PICK i \in holders : holder = Entry(f, i)
    BY <1>8
  <2>2. /\ GoodRecord(f, i) /\ f.lines[i] \in Lines /\ holder.value = provided
        /\ found # {} /\ \A k \in found : tokens[k] = holder
    BY <1>1, <1>4, <2>1, HolderFacts
  <2>3. found \in SUBSET Nat
    BY <1>4, HolderFacts
  <2>4. first \in found
    BY <1>5, <2>2, <2>3, LeastNumber
  <2>5. tokens[first] = holder
    BY <2>2, <2>4
  <2>6. provided # ""
    BY <2>1, <2>2 DEF GoodRecord, Addable
  <2>7. [name |-> holder.name, role |-> holder.role] # Nobody
    BY <2>1, <2>2, EntryTyped, NobodyAssumption DEF GoodRecord, Entry
  <2> QED BY <1>2, <1>3, <1>6, <1>8, <2>2, <2>5, <2>6, <2>7
<1> QED BY <1>7, <1>8

LEMMA RequestAuth ==
  ASSUME AuthInvariant, NEW route \in Routes, NEW header \in Headers, Request(route, header)
  PROVE  AuthInvariant'
<1>1. /\ process = "up" /\ loaded \in File /\ ready \in BOOLEAN
      /\ LoadFile(loaded).ok /\ tokens = LoadFile(loaded).tokens
      /\ UNCHANGED <<file, loaded, process, tokens, ready>>
  BY DEF Request, AuthInvariant, ATypeOK, LoadedIsRead
<1>2. PICK principal : principal = Authenticate(header)
  OBVIOUS
<1>3. PICK result : result = Serve(route, principal)
  OBVIOUS
<1>4. answer' = [result |-> result, principal |-> principal, route |-> route, header |-> header]
  BY <1>2, <1>3 DEF Request
<1>5. /\ answer'.result = result /\ answer'.principal = principal
      /\ answer'.route = route /\ answer'.header = header
  BY <1>4
<1>6. PICK holders : holders = Holders(loaded, header)
  OBVIOUS
<1>7. PICK holder : holder = Entry(loaded, CHOOSE i \in holders : TRUE)
  OBVIOUS
<1>8. /\ principal = Nobody <=>
           \/ header.scheme \notin {"Bearer", "bearer"} \/ holders = {} \/ holder.value \in HasBlank
           \/ Length[header.credential] > maxTokenLen
      /\ principal # Nobody => principal = [name |-> holder.name, role |-> holder.role]
  BY <1>1, <1>2, <1>6, <1>7, AuthenticateFacts
<1>9. Cardinality(holders) <= 1
  <2>1. \A i, j \in holders : i = j
    BY <1>1, <1>6, HolderFacts
  <2> QED BY <2>1, AtMostOne
<1>10. /\ result = "unauthorized" <=> principal = Nobody
       /\ result = "handled" => ready \/ route.method \in {"GET", "HEAD"}
       /\ result # "unauthorized" /\ result # "service_draining" =>
            (result = "handled" <=> rank(principal.role) >= rank(route.role))
  BY <1>3 DEF Serve, Require
<1>11. principal # Nobody => principal.role = holder.role
  BY <1>8
<1>12. /\ Holders(loaded', answer'.header) = holders
       /\ holder = parseLine(loaded'.lines[CHOOSE i \in holders : TRUE])
       /\ (Length[header.credential] > maxTokenLen)' = (Length[header.credential] > maxTokenLen)
  BY <1>1, <1>5, <1>6, <1>7 DEF Entry, Holders, Records
<1>13. AnswersFollowTheFile'
  BY <1>1, <1>5, <1>8, <1>9, <1>10, <1>11, <1>12, Zenon DEF AnswersFollowTheFile
<1> QED BY <1>1, <1>13 DEF AuthInvariant, ATypeOK, LoadedIsRead, OnlyUpAnswers

-----------------------------------------------------------------------------
(* The other steps.                                                        *)

LEMMA WriteLineAuth ==
  ASSUME AuthInvariant, WriteLine
  PROVE  AuthInvariant'
<1>1. /\ process = "new" /\ file \in File /\ loaded' = file'
      /\ UNCHANGED <<process, tokens, ready, answer>>
  BY DEF WriteLine, AuthInvariant, ATypeOK
<1>2. PICK line \in Lines : file' = [file EXCEPT !.lines = Append(@, line)]
  BY DEF WriteLine
<1>3. file' \in File
  <2>1. Append(file.lines, line) \in Seq(Lines)
    BY <1>1 DEF File
  <2> QED BY <1>1, <1>2, <2>1 DEF File
<1>4. answer = NoAnswer
  BY <1>1 DEF AuthInvariant, OnlyUpAnswers
<1> QED BY <1>1, <1>3, <1>4
        DEF AuthInvariant, ATypeOK, LoadedIsRead, OnlyUpAnswers, AnswersFollowTheFile

LEMMA StartAuth ==
  ASSUME AuthInvariant, Start
  PROVE  AuthInvariant'
<1>1. /\ process \in {"new", "down"} /\ file \in File /\ loaded' = file
      /\ file' = file /\ answer' = answer
      /\ process' = IF LoadFile(file).ok THEN "up" ELSE "refused"
      /\ tokens' = IF LoadFile(file).ok THEN LoadFile(file).tokens ELSE <<>>
      /\ ready' = LoadFile(file).ok
  BY DEF Start, AuthInvariant, ATypeOK
<1>2. LoadFile(file).ok \in BOOLEAN
  BY <1>1, LoadFileFacts
<1>3. answer = NoAnswer
  BY <1>1 DEF AuthInvariant, OnlyUpAnswers
<1>4. ATypeOK'
  BY <1>1, <1>2 DEF ATypeOK
<1>5. LoadedIsRead'
  <2>1. LoadFile(loaded)' = LoadFile(file)
    BY <1>1
  <2>2. CASE LoadFile(file).ok
    BY <1>1, <2>1, <2>2 DEF LoadedIsRead
  <2>3. CASE ~LoadFile(file).ok
    BY <1>1, <2>1, <2>3 DEF LoadedIsRead
  <2> QED BY <2>2, <2>3
<1>6. OnlyUpAnswers' /\ AnswersFollowTheFile'
  BY <1>1, <1>3 DEF OnlyUpAnswers, AnswersFollowTheFile
<1> QED BY <1>4, <1>5, <1>6 DEF AuthInvariant

LEMMA RotateAuth ==
  ASSUME AuthInvariant, Rotate
  PROVE  AuthInvariant'
<1>1. UNCHANGED <<loaded, process, tokens, ready, answer>>
  BY DEF Rotate
<1>2. PICK line \in Lines : file' = [allowed |-> TRUE, lines |-> <<line>>]
  BY DEF Rotate
<1>3. file' \in File
  <2>1. <<line>> \in Seq(Lines)
    OBVIOUS
  <2> QED BY <1>2, <2>1 DEF File
<1>4. ATypeOK'
  BY <1>1, <1>3 DEF AuthInvariant, ATypeOK
<1>5. LoadedIsRead' /\ OnlyUpAnswers'
  BY <1>1 DEF AuthInvariant, LoadedIsRead, OnlyUpAnswers
<1>6. AnswersFollowTheFile'
  BY <1>1 DEF AuthInvariant, AnswersFollowTheFile
<1> QED BY <1>4, <1>5, <1>6 DEF AuthInvariant

LEMMA RestartAuth ==
  ASSUME AuthInvariant, Restart
  PROVE  AuthInvariant'
BY DEF Restart, AuthInvariant, ATypeOK, LoadedIsRead, OnlyUpAnswers, AnswersFollowTheFile

LEMMA BeginDrainAuth ==
  ASSUME AuthInvariant, BeginDrain
  PROVE  AuthInvariant'
BY DEF BeginDrain, AuthInvariant, ATypeOK, LoadedIsRead, OnlyUpAnswers, AnswersFollowTheFile

LEMMA StepAuth ==
  ASSUME AuthInvariant, [ANext]_avars
  PROVE  AuthInvariant'
<1>1. CASE ANext
  BY <1>1, WriteLineAuth, StartAuth, RotateAuth, RestartAuth, BeginDrainAuth, RequestAuth DEF ANext
<1>2. CASE UNCHANGED avars
  <2>1. UNCHANGED <<file, loaded, process, tokens, ready, answer>>
    BY <1>2 DEF avars
  <2>2. ATypeOK' /\ LoadedIsRead' /\ OnlyUpAnswers'
    BY <2>1 DEF AuthInvariant, ATypeOK, LoadedIsRead, OnlyUpAnswers
  <2>3. AnswersFollowTheFile'
    BY <2>1 DEF AuthInvariant, AnswersFollowTheFile
  <2> QED BY <2>2, <2>3 DEF AuthInvariant
<1> QED BY <1>1, <1>2

(* A running server holds exactly the entries of the file that it started  *)
(* from, and its answers follow from that file, whatever is mounted later. *)
THEOREM AuthCorrect == ASpec => []AuthInvariant
BY InitAuth, StepAuth, PTL DEF ASpec

(* LoadFile stops at the first line that it cannot take, but whether the   *)
(* server comes up depends only on what the file says: its mode, each of   *)
(* its records, and that no two of them share a name or a token.           *)
THEOREM LoadingDecidesByContent == ASpec => []LoadDecidesByContent
BY AuthCorrect, InvariantDecidesByContent, PTL

(* Every answer of serve, require and Authenticate agrees with the file    *)
(* that the server started from: 401, 403 and the handler's own answer go  *)
(* to exactly the callers that the file says.                              *)
THEOREM AnswersFollow == ASpec => []AnswersFollowTheFile
<1>1. AuthInvariant => AnswersFollowTheFile
  BY DEF AuthInvariant
<1> QED BY <1>1, AuthCorrect, PTL

-----------------------------------------------------------------------------
(* The If-Match header.  Positions in a text.                              *)

(* The characters, with those that the grammar names: the provers do not   *)
(* know that a literal is a member of STRING.                              *)
Char == STRING \cup {Quote, "W", "/"} \cup {Digits[i] : i \in 1..10}

LEMMA FirstOfFacts ==
  ASSUME NEW raw \in Seq(Char), NEW positions \in SUBSET (1..Len(raw))
  PROVE  /\ FirstOf(raw, positions) \in positions \cup {Len(raw) + 1}
         /\ \A i \in positions \cup {Len(raw) + 1} : FirstOf(raw, positions) <= i
<1>1. Len(raw) \in Nat
  OBVIOUS
<1>2. positions \cup {Len(raw) + 1} \in SUBSET Nat
  <2>1. ASSUME NEW i \in positions PROVE i \in Nat
    <3>1. i \in 1..Len(raw)
      OBVIOUS
    <3> QED BY <1>1, <3>1
  <2>2. Len(raw) + 1 \in Nat
    BY <1>1
  <2>3. \A i \in positions \cup {Len(raw) + 1} : i \in Nat
    BY <2>1, <2>2, Zenon
  <2> QED BY <2>3, Zenon
<1> QED BY <1>2, MinFacts DEF FirstOf

LEMMA FirstOfIs ==
  ASSUME NEW raw \in Seq(Char), NEW positions \in SUBSET (1..Len(raw)),
         NEW f \in positions \cup {Len(raw) + 1},
         \A i \in positions : f <= i
  PROVE  FirstOf(raw, positions) = f
<1>1. Len(raw) \in Nat /\ f <= Len(raw) + 1
  OBVIOUS
<1>2. positions \cup {Len(raw) + 1} \in SUBSET Nat
  <2>1. ASSUME NEW i \in positions PROVE i \in Nat
    <3>1. i \in 1..Len(raw)
      OBVIOUS
    <3> QED BY <1>1, <3>1
  <2>2. Len(raw) + 1 \in Nat
    BY <1>1
  <2>3. \A i \in positions \cup {Len(raw) + 1} : i \in Nat
    BY <2>1, <2>2, Zenon
  <2> QED BY <2>3, Zenon
<1>3. \A i \in positions \cup {Len(raw) + 1} : f <= i
  BY <1>1
<1> QED BY <1>2, <1>3, MinIs DEF FirstOf

(* Between two positions there are only blanks.                            *)
BlankFrom(raw, a, b) == \A i \in a..(b - 1) : raw[i] \in Blank

Solid(raw, i) == i <= Len(raw) => raw[i] \notin Blank

LEMMA SkipBlankFacts ==
  ASSUME NEW raw \in Seq(Char), NEW offset \in 1..(Len(raw) + 1)
  PROVE  /\ SkipBlank(raw, offset) \in offset..(Len(raw) + 1)
         /\ Solid(raw, SkipBlank(raw, offset))
         /\ BlankFrom(raw, offset, SkipBlank(raw, offset))
<1> DEFINE positions == {i \in offset..Len(raw) : raw[i] \notin Blank}
<1>1. Len(raw) \in Nat /\ positions \in SUBSET (1..Len(raw))
  OBVIOUS
<1>2. PICK f : f = SkipBlank(raw, offset)
  OBVIOUS
<1>3. f \in positions \cup {Len(raw) + 1} /\ \A i \in positions \cup {Len(raw) + 1} : f <= i
  BY <1>1, <1>2, FirstOfFacts DEF SkipBlank
<1>4. f \in offset..(Len(raw) + 1)
  BY <1>1, <1>3
<1>5. Solid(raw, f)
  BY <1>1, <1>3 DEF Solid
<1>6. ASSUME NEW i \in offset..(f - 1) PROVE raw[i] \in Blank
  <2>1. i \in offset..Len(raw) /\ ~(f <= i)
    BY <1>1, <1>4
  <2> QED BY <1>3, <2>1
<1> QED BY <1>2, <1>4, <1>5, <1>6 DEF BlankFrom

LEMMA SkipBlankIs ==
  ASSUME NEW raw \in Seq(Char), NEW offset \in 1..(Len(raw) + 1), NEW f \in offset..(Len(raw) + 1),
         Solid(raw, f), BlankFrom(raw, offset, f)
  PROVE  SkipBlank(raw, offset) = f
<1> DEFINE positions == {i \in offset..Len(raw) : raw[i] \notin Blank}
<1>1. Len(raw) \in Nat /\ positions \in SUBSET (1..Len(raw))
  OBVIOUS
<1>2. f \in positions \cup {Len(raw) + 1}
  BY <1>1 DEF Solid
<1>3. ASSUME NEW i \in positions PROVE f <= i
  <2>1. i \notin offset..(f - 1) /\ i \in Nat /\ f \in Nat
    BY DEF BlankFrom
  <2> QED BY <2>1
<1> QED BY <1>1, <1>2, <1>3, FirstOfIs DEF SkipBlank

TagCharsFrom(raw, a, b) == \A i \in a..(b - 1) : IsTagChar(raw[i])

LEMMA SkipTagCharsFacts ==
  ASSUME NEW raw \in Seq(Char), NEW offset \in 1..(Len(raw) + 1)
  PROVE  /\ SkipTagChars(raw, offset) \in offset..(Len(raw) + 1)
         /\ TagCharsFrom(raw, offset, SkipTagChars(raw, offset))
<1> DEFINE positions == {i \in offset..Len(raw) : ~IsTagChar(raw[i])}
<1>1. Len(raw) \in Nat /\ positions \in SUBSET (1..Len(raw))
  OBVIOUS
<1>2. PICK f : f = SkipTagChars(raw, offset)
  OBVIOUS
<1>3. f \in positions \cup {Len(raw) + 1} /\ \A i \in positions \cup {Len(raw) + 1} : f <= i
  BY <1>1, <1>2, FirstOfFacts DEF SkipTagChars
<1>4. f \in offset..(Len(raw) + 1)
  BY <1>1, <1>3
<1>5. ASSUME NEW i \in offset..(f - 1) PROVE IsTagChar(raw[i])
  <2>1. i \in offset..Len(raw) /\ ~(f <= i)
    BY <1>1, <1>4
  <2> QED BY <1>3, <2>1
<1> QED BY <1>2, <1>4, <1>5 DEF TagCharsFrom

LEMMA SkipTagCharsIs ==
  ASSUME NEW raw \in Seq(Char), NEW offset \in 1..(Len(raw) + 1), NEW f \in offset..Len(raw),
         ~IsTagChar(raw[f]), TagCharsFrom(raw, offset, f)
  PROVE  SkipTagChars(raw, offset) = f
<1> DEFINE positions == {i \in offset..Len(raw) : ~IsTagChar(raw[i])}
<1>1. Len(raw) \in Nat /\ positions \in SUBSET (1..Len(raw))
  OBVIOUS
<1>2. f \in positions
  OBVIOUS
<1>3. ASSUME NEW i \in positions PROVE f <= i
  <2>1. i \notin offset..(f - 1) /\ i \in Nat /\ f \in Nat
    BY DEF TagCharsFrom
  <2> QED BY <2>1
<1> QED BY <1>1, <1>2, <1>3, FirstOfIs DEF SkipTagChars

-----------------------------------------------------------------------------
(* Pieces of a text, and what is left of one without the blanks around it. *)

IsPiece(text, raw, a, b) ==
  /\ text \in Seq(Char)
  /\ Len(text) = (b - a) + 1
  /\ \A i \in 1..((b - a) + 1) : text[i] = raw[(a + i) - 1]

LEMMA Piece ==
  ASSUME NEW raw \in Seq(Char), NEW a \in 1..(Len(raw) + 1), NEW b \in (a - 1)..Len(raw)
  PROVE  IsPiece(SubSeq(raw, a, b), raw, a, b)
<1>1. Len(raw) \in Nat /\ a \in Int /\ b \in Int /\ a >= 1 /\ b <= Len(raw) /\ a - 1 <= b
  OBVIOUS
<1>2. \A i \in a..b : raw[i] \in Char
  <2>1. ASSUME NEW i \in a..b PROVE raw[i] \in Char
    <3>1. i \in 1..Len(raw)
      BY <1>1
    <3> QED BY <3>1
  <2> QED BY <2>1
<1>3. /\ SubSeq(raw, a, b) \in Seq(Char)
      /\ Len(SubSeq(raw, a, b)) = IF a <= b THEN b - a + 1 ELSE 0
      /\ \A i \in 1..b - a + 1 : SubSeq(raw, a, b)[i] = raw[a + i - 1]
  BY <1>1, <1>2, SubSeqProperties
<1>4. Len(SubSeq(raw, a, b)) = (b - a) + 1
  BY <1>1, <1>3
<1> QED BY <1>3, <1>4 DEF IsPiece

LEMMA SamePiece ==
  ASSUME NEW raw, NEW a \in Int, NEW b \in Int, NEW s, NEW t,
         IsPiece(s, raw, a, b), IsPiece(t, raw, a, b)
  PROVE  s = t
<1>1. s \in Seq(Char) /\ t \in Seq(Char) /\ Len(s) = Len(t)
  BY DEF IsPiece
<1>2. \A i \in 1..Len(s) : s[i] = t[i]
  BY DEF IsPiece
<1> QED BY <1>1, <1>2, SeqEqual

LEMMA PieceOfPiece ==
  ASSUME NEW raw \in Seq(Char), NEW a \in 1..(Len(raw) + 1), NEW b \in (a - 1)..Len(raw),
         NEW f \in a..(b + 1), NEW l \in (f - 1)..b
  PROVE  SubSeq(SubSeq(raw, a, b), (f - a) + 1, (l - a) + 1) = SubSeq(raw, f, l)
<1>1. Len(raw) \in Nat /\ a \in Nat /\ b \in Int /\ f \in Nat /\ l \in Int
  OBVIOUS
<1>2. PICK text \in Seq(Char) : text = SubSeq(raw, a, b)
  <2>1. SubSeq(raw, a, b) \in Seq(Char)
    BY Piece DEF IsPiece
  <2> QED BY <2>1
<1>3. Len(text) = (b - a) + 1 /\ \A i \in 1..((b - a) + 1) : text[i] = raw[(a + i) - 1]
  BY <1>2, Piece DEF IsPiece
<1>4. PICK m \in Nat, n \in Int : m = (f - a) + 1 /\ n = (l - a) + 1
  BY <1>1
<1>5. m \in 1..(Len(text) + 1) /\ n \in (m - 1)..Len(text)
  BY <1>1, <1>3, <1>4
<1>6. IsPiece(SubSeq(text, m, n), text, m, n)
  BY <1>5, Piece
<1>7. PICK s \in Seq(Char) : s = SubSeq(text, m, n)
  BY <1>6 DEF IsPiece
<1>8. Len(s) = (l - f) + 1
  BY <1>1, <1>4, <1>6, <1>7 DEF IsPiece
<1>9. ASSUME NEW i \in 1..((l - f) + 1) PROVE s[i] = raw[(f + i) - 1]
  <2>1. i \in 1..((n - m) + 1) /\ (m + i) - 1 \in 1..((b - a) + 1)
    BY <1>1, <1>3, <1>4, <1>5
  <2>2. s[i] = text[(m + i) - 1]
    BY <1>6, <1>7, <2>1 DEF IsPiece
  <2>3. text[(m + i) - 1] = raw[(a + ((m + i) - 1)) - 1]
    BY <1>3, <2>1
  <2>4. (a + ((m + i) - 1)) - 1 = (f + i) - 1
    BY <1>1, <1>4
  <2> QED BY <2>2, <2>3, <2>4
<1>10. IsPiece(s, raw, f, l)
  BY <1>8, <1>9 DEF IsPiece
<1>11. f \in 1..(Len(raw) + 1) /\ l \in (f - 1)..Len(raw)
  BY <1>1
<1>12. IsPiece(SubSeq(raw, f, l), raw, f, l)
  BY <1>11, Piece
<1>13. s = SubSeq(raw, f, l)
  <2>1. f \in Int /\ l \in Int
    BY <1>1
  <2> QED BY ONLY <1>10, <1>12, <2>1, SamePiece
<1> QED BY <1>2, <1>4, <1>7, <1>13

LEMMA TrimmedIs ==
  ASSUME NEW text \in Seq(Char), NEW f \in 1..Len(text), NEW l \in f..Len(text),
         text[f] \notin Blank, text[l] \notin Blank,
         BlankFrom(text, 1, f), BlankFrom(text, l + 1, Len(text) + 1)
  PROVE  Trimmed(text) = SubSeq(text, f, l)
<1> DEFINE solid == {i \in DOMAIN text : text[i] \notin Blank}
<1>1. DOMAIN text = 1..Len(text) /\ Len(text) \in Nat /\ f \in Nat /\ l \in Nat
  OBVIOUS
<1>2. solid \in SUBSET Nat /\ f \in solid /\ l \in solid
  BY <1>1
<1>3. \A i \in solid : f <= i
  BY <1>1 DEF BlankFrom
<1>4. \A i \in solid : l >= i
  BY <1>1 DEF BlankFrom
<1>5. Min(solid) = f
  BY <1>2, <1>3, MinIs
<1>6. Max(solid) = l
  BY <1>2, <1>4, MaxIs
<1> QED BY <1>2, <1>5, <1>6 DEF Trimmed

LEMMA TrimmedSeq ==
  ASSUME NEW text \in Seq(Char)
  PROVE  Trimmed(text) \in Seq(Char)
<1> DEFINE solid == {i \in DOMAIN text : text[i] \notin Blank}
<1>1. DOMAIN text = 1..Len(text) /\ Len(text) \in Nat
  OBVIOUS
<1>2. CASE solid = {}
  BY <1>2 DEF Trimmed
<1>3. CASE solid # {}
  <2>1. solid \in SUBSET Nat /\ solid \in SUBSET (0..Len(text))
    BY <1>1
  <2>2. PICK f \in solid : \A y \in solid : f <= y
    BY <1>3, <2>1, LeastNumber
  <2>3. PICK l \in solid : \A y \in solid : l >= y
    BY <1>1, <1>3, <2>1, GreatestNumber
  <2>4. Min(solid) = f /\ Max(solid) = l
    <3> HIDE DEF solid
    <3> QED BY <2>1, <2>2, <2>3, MinIs, MaxIs
  <2>5. f \in 1..(Len(text) + 1) /\ l \in (f - 1)..Len(text)
    BY <1>1, <2>2, <2>3
  <2>6. SubSeq(text, f, l) \in Seq(Char)
    BY <2>5, Piece DEF IsPiece
  <2> QED BY <1>3, <2>4, <2>6 DEF Trimmed
<1> QED BY <1>2, <1>3

(* The part of a text between two cuts, seen in the text itself.           *)
Ends(raw, start, end, f, l) ==
  /\ f \in (start + 1)..(end - 1) /\ l \in f..(end - 1)
  /\ raw[f] \notin Blank /\ raw[l] \notin Blank
  /\ BlankFrom(raw, start + 1, f) /\ BlankFrom(raw, l + 1, end)

LEMMA PartIs ==
  ASSUME NEW raw \in Seq(Char), NEW start \in 0..Len(raw), NEW end \in (start + 1)..(Len(raw) + 1),
         NEW f, NEW l, Ends(raw, start, end, f, l)
  PROVE  Part(raw, start, end) = SubSeq(raw, f, l)
<1>1. /\ Len(raw) \in Nat /\ start \in Nat /\ end \in Nat /\ f \in Nat /\ l \in Nat
      /\ start < f /\ f <= l /\ l < end /\ end <= Len(raw) + 1
  BY DEF Ends
<1>2. PICK a \in Nat, b \in Nat : a = start + 1 /\ b = end - 1
  BY <1>1
<1>3. a \in 1..(Len(raw) + 1) /\ b \in (a - 1)..Len(raw) /\ f \in a..(b + 1) /\ l \in (f - 1)..b
  BY <1>1, <1>2
<1>4. PICK text \in Seq(Char) : text = SubSeq(raw, a, b)
  <2>1. SubSeq(raw, a, b) \in Seq(Char)
    BY <1>3, Piece DEF IsPiece
  <2> QED BY <2>1
<1>5. Len(text) = (b - a) + 1 /\ \A i \in 1..((b - a) + 1) : text[i] = raw[(a + i) - 1]
  BY <1>3, <1>4, Piece DEF IsPiece
<1>6. PICK m \in Nat, n \in Nat : m = (f - a) + 1 /\ n = (l - a) + 1
  BY <1>1, <1>2
<1>7. m \in 1..Len(text) /\ n \in m..Len(text)
  BY <1>1, <1>2, <1>5, <1>6
<1>8. text[m] = raw[f] /\ text[n] = raw[l]
  <2>1. (a + m) - 1 = f /\ (a + n) - 1 = l /\ m \in 1..((b - a) + 1) /\ n \in 1..((b - a) + 1)
    BY <1>2, <1>3, <1>5, <1>6, <1>7
  <2> QED BY <1>5, <2>1
<1>9. BlankFrom(text, 1, m)
  <2> SUFFICES ASSUME NEW i \in 1..(m - 1) PROVE text[i] \in Blank
    BY DEF BlankFrom
  <2>1. i \in 1..((b - a) + 1) /\ (a + i) - 1 \in (start + 1)..(f - 1)
    BY <1>1, <1>2, <1>5, <1>6, <1>7
  <2> QED BY <1>5, <2>1 DEF Ends, BlankFrom
<1>10. BlankFrom(text, n + 1, Len(text) + 1)
  <2> SUFFICES ASSUME NEW i \in (n + 1)..((Len(text) + 1) - 1) PROVE text[i] \in Blank
    BY DEF BlankFrom
  <2>1. i \in 1..((b - a) + 1) /\ (a + i) - 1 \in (l + 1)..(end - 1)
    BY <1>1, <1>2, <1>5, <1>6, <1>7
  <2> QED BY <1>5, <2>1 DEF Ends, BlankFrom
<1>11. Trimmed(text) = SubSeq(text, m, n)
  BY <1>7, <1>8, <1>9, <1>10, TrimmedIs DEF Ends
<1>12. SubSeq(text, m, n) = SubSeq(raw, f, l)
  BY <1>3, <1>4, <1>6, PieceOfPiece
<1> QED BY <1>2, <1>4, <1>11, <1>12 DEF Part

LEMMA PartCases ==
  ASSUME NEW raw \in Seq(Char), NEW start \in 0..Len(raw), NEW end \in (start + 1)..(Len(raw) + 1)
  PROVE  \/ Part(raw, start, end) = <<>>
         \/ \E f, l \in Nat : Ends(raw, start, end, f, l)
<1>1. /\ Len(raw) \in Nat /\ start \in Nat /\ end \in Nat
      /\ start < end /\ end <= Len(raw) + 1
  OBVIOUS
<1> DEFINE solid == {i \in (start + 1)..(end - 1) : raw[i] \notin Blank}
<1>2. CASE solid = {}
  <2>1. PICK a \in Nat, b \in Nat : a = start + 1 /\ b = end - 1
    BY <1>1
  <2>2. a \in 1..(Len(raw) + 1) /\ b \in (a - 1)..Len(raw)
    BY <1>1, <2>1
  <2>3. PICK text \in Seq(Char) : text = SubSeq(raw, a, b)
    <3>1. SubSeq(raw, a, b) \in Seq(Char)
      BY <2>2, Piece DEF IsPiece
    <3> QED BY <3>1
  <2>4. Len(text) = (b - a) + 1 /\ \A i \in 1..((b - a) + 1) : text[i] = raw[(a + i) - 1]
    BY <2>2, <2>3, Piece DEF IsPiece
  <2>5. ASSUME NEW i \in DOMAIN text PROVE text[i] \in Blank
    <3>1. i \in 1..((b - a) + 1) /\ (a + i) - 1 \in (start + 1)..(end - 1)
      BY <1>1, <2>1, <2>4
    <3> QED BY <1>2, <2>4, <3>1
  <2>6. Trimmed(text) = <<>>
    BY <2>5 DEF Trimmed
  <2> QED BY <2>1, <2>3, <2>6 DEF Part
<1>3. CASE solid # {}
  <2>1. solid \in SUBSET Nat /\ solid \in SUBSET (0..Len(raw))
    BY <1>1
  <2>2. PICK f \in solid : \A y \in solid : f <= y
    BY <1>3, <2>1, LeastNumber
  <2>3. PICK l \in solid : \A y \in solid : l >= y
    BY <1>1, <1>3, <2>1, GreatestNumber
  <2>4. f \in Nat /\ l \in Nat /\ f \in (start + 1)..(end - 1) /\ l \in f..(end - 1)
    BY <1>1, <2>2, <2>3
  <2>5. raw[f] \notin Blank /\ raw[l] \notin Blank
    BY <2>2, <2>3
  <2>6. BlankFrom(raw, start + 1, f)
    BY <1>1, <2>2, <2>4 DEF BlankFrom
  <2>7. BlankFrom(raw, l + 1, end)
    BY <1>1, <2>3, <2>4 DEF BlankFrom
  <2>8. Ends(raw, start, end, f, l)
    BY <2>4, <2>5, <2>6, <2>7 DEF Ends
  <2> QED BY <2>4, <2>8
<1> QED BY <1>2, <1>3

-----------------------------------------------------------------------------
(* A tag that stands between two positions of the text.                    *)
StrongIn(raw, f, l) ==
  f < l /\ raw[f] = Quote /\ raw[l] = Quote /\ TagCharsFrom(raw, f + 1, l)

TagIn(raw, f, l) ==
  \/ StrongIn(raw, f, l)
  \/ f < l /\ raw[f] = "W" /\ raw[f + 1] = "/" /\ StrongIn(raw, f + 2, l)

LEMMA StrongPiece ==
  ASSUME NEW raw \in Seq(Char), NEW f \in 1..(Len(raw) + 1), NEW l \in (f - 1)..Len(raw)
  PROVE  IsStrongTag(SubSeq(raw, f, l)) <=> StrongIn(raw, f, l)
<1>1. Len(raw) \in Nat /\ f \in Nat /\ l \in Int
  OBVIOUS
<1>2. PICK text \in Seq(Char) : text = SubSeq(raw, f, l)
  <2>1. SubSeq(raw, f, l) \in Seq(Char)
    BY Piece DEF IsPiece
  <2> QED BY <2>1
<1>3. Len(text) = (l - f) + 1 /\ \A i \in 1..((l - f) + 1) : text[i] = raw[(f + i) - 1]
  BY <1>2, Piece DEF IsPiece
<1>4. Len(text) >= 2 <=> f < l
  BY <1>1, <1>3
<1>5. ASSUME f < l
      PROVE  text[1] = raw[f] /\ Last(text) = raw[l]
  <2>1. 1 \in 1..((l - f) + 1) /\ (f + 1) - 1 = f /\ (l - f) + 1 \in 1..((l - f) + 1)
        /\ (f + ((l - f) + 1)) - 1 = l
    BY <1>1, <1>5
  <2> QED BY <1>3, <2>1 DEF Last
<1>6. ASSUME f < l, TagCharsFrom(raw, f + 1, l), NEW i \in 2..(Len(text) - 1) PROVE IsTagChar(text[i])
  <2>1. (f + i) - 1 \in (f + 1)..(l - 1) /\ i \in 1..((l - f) + 1)
    BY <1>1, <1>3, <1>6
  <2> QED BY <1>3, <1>6, <2>1 DEF TagCharsFrom
<1>7. ASSUME f < l, \A i \in 2..(Len(text) - 1) : IsTagChar(text[i])
      PROVE  TagCharsFrom(raw, f + 1, l)
  <2> SUFFICES ASSUME NEW i \in (f + 1)..(l - 1) PROVE IsTagChar(raw[i])
    BY DEF TagCharsFrom
  <2>1. PICK k \in Nat : k = (i - f) + 1
    BY <1>1
  <2>2. k \in 2..(Len(text) - 1) /\ k \in 1..((l - f) + 1) /\ (f + k) - 1 = i
    BY <1>1, <1>3, <2>1
  <2> QED BY <1>3, <1>7, <2>2
<1>8. IsStrongTag(text) <=> StrongIn(raw, f, l)
  <2>1. CASE f < l
    BY <1>4, <1>5, <1>6, <1>7, <2>1 DEF IsStrongTag, StrongIn
  <2>2. CASE ~(f < l)
    BY <1>4, <2>2 DEF IsStrongTag, StrongIn
  <2> QED BY <2>1, <2>2
<1> QED BY <1>2, <1>8

LEMMA WeakPiece ==
  ASSUME NEW raw \in Seq(Char), NEW f \in 1..Len(raw), NEW l \in f..Len(raw)
  PROVE  IsPrefix(<<"W", "/">>, SubSeq(raw, f, l)) <=> f < l /\ raw[f] = "W" /\ raw[f + 1] = "/"
<1>1. Len(raw) \in Nat /\ f \in Nat /\ l \in Nat
  OBVIOUS
<1>2. PICK text \in Seq(Char) : text = SubSeq(raw, f, l)
  <2>1. f \in 1..(Len(raw) + 1) /\ l \in (f - 1)..Len(raw)
    BY <1>1
  <2>2. SubSeq(raw, f, l) \in Seq(Char)
    BY <2>1, Piece DEF IsPiece
  <2> QED BY <2>2
<1>3. Len(text) = (l - f) + 1 /\ \A i \in 1..((l - f) + 1) : text[i] = raw[(f + i) - 1]
  <2>1. f \in 1..(Len(raw) + 1) /\ l \in (f - 1)..Len(raw)
    BY <1>1
  <2> QED BY <1>2, <2>1, Piece DEF IsPiece
<1>4. Len(text) >= 2 <=> f < l
  BY <1>1, <1>3
<1>5. ASSUME f < l PROVE text[1] = raw[f] /\ text[2] = raw[f + 1]
  <2>1. 1 \in 1..((l - f) + 1) /\ (f + 1) - 1 = f /\ 2 \in 1..((l - f) + 1) /\ (f + 2) - 1 = f + 1
    BY <1>1, <1>5
  <2> QED BY <1>3, <2>1
<1>6. IsPrefix(<<"W", "/">>, text) <=> Len(text) >= 2 /\ text[1] = "W" /\ text[2] = "/"
  <2>a. <<"W", "/">> \in Seq(Char) /\ Len(<<"W", "/">>) = 2
    <3>1. "W" \in Char /\ "/" \in Char
      BY DEF Char
    <3> QED BY ONLY <3>1
  <2>b. <<"W", "/">>[1] = "W" /\ <<"W", "/">>[2] = "/"
    BY ONLY TRUE
  <2>c. PICK w \in Seq(Char) : w = <<"W", "/">>
    BY <2>a
  <2>1. w \in Seq(Char) /\ Len(w) = 2 /\ w[1] = "W" /\ w[2] = "/"
    BY <2>a, <2>b, <2>c
  <2>2. CASE Len(text) >= 2
    <3>1. IsPiece(SubSeq(w, 1, 2), w, 1, 2)
      <4>1. 1 \in 1..(Len(w) + 1) /\ 2 \in (1 - 1)..Len(w)
        BY <2>1
      <4> QED BY ONLY <2>1, <4>1, Piece
    <3>2. IsPiece(SubSeq(text, 1, 2), text, 1, 2)
      BY <2>2, Piece
    <3>3. PICK p \in Seq(Char) : p = SubSeq(w, 1, 2)
      BY <3>1 DEF IsPiece
    <3>4. PICK q \in Seq(Char) : q = SubSeq(text, 1, 2)
      BY <3>2 DEF IsPiece
    <3>5. Len(p) = 2 /\ p[1] = w[1] /\ p[2] = w[2]
      BY <3>1, <3>3 DEF IsPiece
    <3>6. Len(q) = 2 /\ q[1] = text[1] /\ q[2] = text[2]
      BY <3>2, <3>4 DEF IsPiece
    <3>7. p = q <=> p[1] = q[1] /\ p[2] = q[2]
      <4>1. ASSUME p[1] = q[1], p[2] = q[2] PROVE p = q
        <5>1. \A i \in 1..Len(p) : p[i] = q[i]
          BY <3>5, <4>1
        <5> QED BY ONLY <3>3, <3>4, <3>5, <3>6, <5>1, SeqEqual
      <4> QED BY <4>1
    <3> QED BY <2>1, <2>2, <2>c, <3>3, <3>4, <3>5, <3>6, <3>7 DEF IsPrefix
  <2>3. CASE ~(Len(text) >= 2)
    BY <2>1, <2>3, <2>c DEF IsPrefix
  <2> QED BY <2>2, <2>3
<1> QED BY <1>2, <1>4, <1>5, <1>6

LEMMA TagPiece ==
  ASSUME NEW raw \in Seq(Char), NEW f \in 1..Len(raw), NEW l \in f..Len(raw)
  PROVE  IsTag(SubSeq(raw, f, l)) <=> TagIn(raw, f, l)
<1>1. Len(raw) \in Nat /\ f \in Nat /\ l \in Nat /\ f \in 1..(Len(raw) + 1) /\ l \in (f - 1)..Len(raw)
  OBVIOUS
<1>2. IsStrongTag(SubSeq(raw, f, l)) <=> StrongIn(raw, f, l)
  BY <1>1, StrongPiece
<1>3. IsPrefix(<<"W", "/">>, SubSeq(raw, f, l)) <=> f < l /\ raw[f] = "W" /\ raw[f + 1] = "/"
  BY WeakPiece
<1>4. ASSUME f < l
      PROVE  IsStrongTag(SubSeq(SubSeq(raw, f, l), 3, Len(SubSeq(raw, f, l)))) <=> StrongIn(raw, f + 2, l)
  <2>1. Len(SubSeq(raw, f, l)) = (l - f) + 1
    BY <1>1, Piece DEF IsPiece
  <2>2. PICK g \in Nat : g = f + 2
    BY <1>1
  <2>3. g \in f..(l + 1) /\ l \in (g - 1)..l /\ (g - f) + 1 = 3 /\ g \in 1..(Len(raw) + 1) /\ l \in (g - 1)..Len(raw)
    BY <1>1, <1>4, <2>2
  <2>4. SubSeq(SubSeq(raw, f, l), (g - f) + 1, (l - f) + 1) = SubSeq(raw, g, l)
    BY <1>1, <2>3, PieceOfPiece
  <2>5. SubSeq(SubSeq(raw, f, l), 3, Len(SubSeq(raw, f, l))) = SubSeq(raw, g, l)
    BY <2>1, <2>3, <2>4
  <2>6. IsStrongTag(SubSeq(raw, g, l)) <=> StrongIn(raw, g, l)
    BY <2>3, StrongPiece
  <2> QED BY <2>2, <2>5, <2>6
<1> QED BY <1>2, <1>3, <1>4 DEF IsTag, TagIn

(* The scanner's view of one tag, and the part of the grammar it stands for. *)
Comma == ","

Boundary(raw, e) == e = Len(raw) + 1 \/ At(raw, e, Comma)

Scanned(raw, first, e) == IsQuoted(raw, first) /\ SkipBlank(raw, Close(raw, first) + 1) = e

LEMMA BoundaryIsSolid ==
  ASSUME NEW raw \in Seq(Char), NEW e \in 1..(Len(raw) + 1), Boundary(raw, e)
  PROVE  Solid(raw, e)
<1>1. Len(raw) \in Nat /\ ~(Len(raw) + 1 <= Len(raw))
  OBVIOUS
<1>2. Comma \notin Blank
  BY DEF Blank, Comma
<1>3. CASE e = Len(raw) + 1
  BY <1>1, <1>3 DEF Solid
<1>4. CASE At(raw, e, Comma)
  BY <1>2, <1>4 DEF Solid, At
<1> QED BY <1>3, <1>4 DEF Boundary

LEMMA QuoteEndsTag == ~IsTagChar(Quote) /\ Quote \notin Blank /\ Quote # "W" /\ "W" \notin Blank
BY DEF IsTagChar, Quote, Blank

LEMMA OpenOfTag ==
  ASSUME NEW raw \in Seq(Char), NEW f \in 1..Len(raw), NEW l \in f..Len(raw), TagIn(raw, f, l)
  PROVE  /\ StrongIn(raw, f, l) => ~IsWeak(raw, f)
         /\ Open(raw, f) \in f..(l - 1)
         /\ StrongIn(raw, Open(raw, f), l)
         /\ ~IsWeak(raw, f) => StrongIn(raw, f, l)
<1>1. Len(raw) \in Nat /\ f \in Nat /\ l \in Nat
  OBVIOUS
<1>2. CASE StrongIn(raw, f, l)
  <2>1. ~IsWeak(raw, f)
    BY <1>2, QuoteEndsTag DEF StrongIn, IsWeak, At
  <2> QED BY <1>1, <1>2, <2>1 DEF Open, StrongIn
<1>3. CASE f < l /\ raw[f] = "W" /\ raw[f + 1] = "/" /\ StrongIn(raw, f + 2, l)
  <2>1. IsWeak(raw, f)
    BY <1>1, <1>3 DEF IsWeak, At
  <2>2. f + 2 < l /\ raw[f] # Quote
    BY <1>3, QuoteEndsTag DEF StrongIn
  <2> QED BY <1>1, <1>3, <2>1, <2>2 DEF Open, StrongIn
<1> QED BY <1>2, <1>3 DEF TagIn

LEMMA CloseOfTag ==
  ASSUME NEW raw \in Seq(Char), NEW f \in 1..Len(raw), NEW l \in f..Len(raw), TagIn(raw, f, l)
  PROVE  IsQuoted(raw, f) /\ Close(raw, f) = l
<1>1. Len(raw) \in Nat /\ f \in Nat /\ l \in Nat
  OBVIOUS
<1>2. PICK o \in Nat : o = Open(raw, f) /\ o \in f..(l - 1) /\ StrongIn(raw, o, l)
  <2>1. Open(raw, f) \in f..(l - 1) /\ StrongIn(raw, Open(raw, f), l)
    BY OpenOfTag
  <2>2. Open(raw, f) \in Nat
    BY <1>1, <2>1
  <2> QED BY <2>1, <2>2
<1>3. o + 1 \in 1..(Len(raw) + 1) /\ l \in (o + 1)..Len(raw)
  BY <1>1, <1>2
<1>4. ~IsTagChar(raw[l]) /\ TagCharsFrom(raw, o + 1, l) /\ raw[o] = Quote /\ raw[l] = Quote
  BY <1>2, QuoteEndsTag DEF StrongIn
<1>5. SkipTagChars(raw, o + 1) = l
  BY <1>3, <1>4, SkipTagCharsIs
<1>6. Close(raw, f) = l
  BY <1>2, <1>5 DEF Close
<1>7. o <= Len(raw) /\ l <= Len(raw)
  BY <1>1, <1>2
<1>8. At(raw, Open(raw, f), Quote) /\ At(raw, Close(raw, f), Quote)
  BY <1>2, <1>4, <1>6, <1>7 DEF At
<1> QED BY <1>6, <1>8 DEF IsQuoted

LEMMA TagOfClose ==
  ASSUME NEW raw \in Seq(Char), NEW f \in 1..Len(raw), IsQuoted(raw, f)
  PROVE  /\ Close(raw, f) \in (f + 1)..Len(raw)
         /\ TagIn(raw, f, Close(raw, f))
         /\ raw[f] \notin Blank /\ raw[Close(raw, f)] \notin Blank
<1>1. Len(raw) \in Nat /\ f \in Nat
  OBVIOUS
<1>2. PICK o \in Nat : o = Open(raw, f) /\ (o = f \/ o = f + 2)
  BY <1>1 DEF Open
<1>3. o <= Len(raw) /\ raw[o] = Quote /\ o + 1 \in 1..(Len(raw) + 1)
  BY <1>1, <1>2 DEF IsQuoted, At
<1>4. PICK l \in Nat : l = Close(raw, f) /\ l \in (o + 1)..(Len(raw) + 1) /\ TagCharsFrom(raw, o + 1, l)
  <2>1. SkipTagChars(raw, o + 1) \in (o + 1)..(Len(raw) + 1) /\ TagCharsFrom(raw, o + 1, SkipTagChars(raw, o + 1))
    BY <1>3, SkipTagCharsFacts
  <2>2. SkipTagChars(raw, o + 1) \in Nat
    BY <1>1, <2>1
  <2> QED BY <1>2, <2>1, <2>2 DEF Close
<1>5. l <= Len(raw) /\ raw[l] = Quote
  BY <1>4 DEF IsQuoted, At
<1>6. StrongIn(raw, o, l)
  BY <1>3, <1>4, <1>5 DEF StrongIn
<1>7. l \in (f + 1)..Len(raw)
  BY <1>1, <1>2, <1>4, <1>5
<1>8. CASE IsWeak(raw, f)
  <2>1. o = f + 2 /\ raw[f] = "W" /\ raw[f + 1] = "/" /\ f < l
    BY <1>2, <1>7, <1>8 DEF IsWeak, At, Open
  <2>2. TagIn(raw, f, l)
    BY <1>6, <2>1 DEF TagIn
  <2> QED BY <1>4, <1>5, <1>7, <2>1, <2>2, QuoteEndsTag
<1>9. CASE ~IsWeak(raw, f)
  <2>1. o = f
    BY <1>2, <1>9 DEF Open
  <2>2. TagIn(raw, f, l)
    BY <1>6, <2>1 DEF TagIn
  <2> QED BY <1>3, <1>4, <1>5, <1>7, <2>1, <2>2, QuoteEndsTag
<1> QED BY <1>8, <1>9

LEMMA EmptyIsNoTag == ~IsTag(<<>>)
BY DEF IsTag, IsStrongTag, IsPrefix

(* A part of the text is a tag when the scanner, started at the part's     *)
(* beginning, finds a tag and then the part's end.                         *)
LEMMA TagPart ==
  ASSUME NEW raw \in Seq(Char), NEW s \in 0..Len(raw), NEW e \in (s + 1)..(Len(raw) + 1), Boundary(raw, e)
  PROVE  IsTag(Part(raw, s, e)) <=> Scanned(raw, SkipBlank(raw, s + 1), e)
<1>1. Len(raw) \in Nat /\ s \in Nat /\ e \in Nat /\ s + 1 \in 1..(Len(raw) + 1) /\ e \in 1..(Len(raw) + 1)
  OBVIOUS
<1>2. Solid(raw, e)
  BY <1>1, BoundaryIsSolid
<1>3. ASSUME IsTag(Part(raw, s, e)) PROVE Scanned(raw, SkipBlank(raw, s + 1), e)
  <2>1. PICK f \in Nat, l \in Nat : Ends(raw, s, e, f, l)
    BY <1>3, PartCases, EmptyIsNoTag
  <2>2. /\ f \in (s + 1)..(e - 1) /\ l \in f..(e - 1)
        /\ raw[f] \notin Blank /\ BlankFrom(raw, s + 1, f) /\ BlankFrom(raw, l + 1, e)
    BY <2>1 DEF Ends
  <2>3. f \in 1..Len(raw) /\ l \in f..Len(raw) /\ f \in (s + 1)..(Len(raw) + 1)
        /\ l + 1 \in 1..(Len(raw) + 1) /\ e \in (l + 1)..(Len(raw) + 1)
    BY <1>1, <2>2
  <2>4. SkipBlank(raw, s + 1) = f
    <3>1. Solid(raw, f)
      BY <2>2 DEF Solid
    <3> QED BY <1>1, <2>2, <2>3, <3>1, SkipBlankIs
  <2>5. Part(raw, s, e) = SubSeq(raw, f, l)
    BY <2>1, PartIs
  <2>6. TagIn(raw, f, l)
    BY <1>3, <2>3, <2>5, TagPiece
  <2>7. IsQuoted(raw, f) /\ Close(raw, f) = l
    BY <2>3, <2>6, CloseOfTag
  <2>8. SkipBlank(raw, l + 1) = e
    BY <1>2, <2>2, <2>3, SkipBlankIs
  <2> QED BY <2>4, <2>7, <2>8 DEF Scanned
<1>4. ASSUME Scanned(raw, SkipBlank(raw, s + 1), e) PROVE IsTag(Part(raw, s, e))
  <2>1. PICK f \in Nat : f = SkipBlank(raw, s + 1) /\ f \in (s + 1)..(Len(raw) + 1) /\ BlankFrom(raw, s + 1, f)
    <3>1. SkipBlank(raw, s + 1) \in (s + 1)..(Len(raw) + 1) /\ BlankFrom(raw, s + 1, SkipBlank(raw, s + 1))
      BY <1>1, SkipBlankFacts
    <3>2. SkipBlank(raw, s + 1) \in Nat
      BY <1>1, <3>1
    <3> QED BY <3>1, <3>2
  <2>2. IsQuoted(raw, f) /\ SkipBlank(raw, Close(raw, f) + 1) = e
    BY <1>4, <2>1 DEF Scanned
  <2>3. f \in 1..Len(raw)
    <3>1. Open(raw, f) = f \/ Open(raw, f) = f + 2
      BY <2>1 DEF Open
    <3>2. Open(raw, f) <= Len(raw)
      BY <2>2 DEF IsQuoted, At
    <3> QED BY <1>1, <2>1, <3>1, <3>2
  <2>4. PICK l \in Nat : l = Close(raw, f) /\ l \in (f + 1)..Len(raw) /\ TagIn(raw, f, l)
                         /\ raw[f] \notin Blank /\ raw[l] \notin Blank
    <3>1. /\ Close(raw, f) \in (f + 1)..Len(raw)
          /\ TagIn(raw, f, Close(raw, f))
          /\ raw[f] \notin Blank /\ raw[Close(raw, f)] \notin Blank
      BY <2>2, <2>3, TagOfClose
    <3>2. Close(raw, f) \in Nat
      BY <2>1, <3>1
    <3> QED BY <3>1, <3>2
  <2>5. e \in (l + 1)..(Len(raw) + 1) /\ BlankFrom(raw, l + 1, e)
    <3>1. l + 1 \in 1..(Len(raw) + 1)
      BY <1>1, <2>4
    <3> QED BY <2>2, <2>4, <3>1, SkipBlankFacts
  <2>6. f \in (s + 1)..(e - 1) /\ l \in f..(e - 1) /\ l \in f..Len(raw)
    BY <1>1, <2>1, <2>3, <2>4, <2>5
  <2>7. Ends(raw, s, e, f, l)
    BY <2>1, <2>4, <2>5, <2>6 DEF Ends
  <2>8. Part(raw, s, e) = SubSeq(raw, f, l)
    BY <2>7, PartIs
  <2> QED BY <2>3, <2>4, <2>6, <2>8, TagPiece
<1> QED BY <1>3, <1>4

-----------------------------------------------------------------------------
(* Numbers: what FormatInt writes is read back by ParseInt.                *)

LEMMA DigitsAreDistinct ==
  /\ DOMAIN Digits = 1..10
  /\ \A a, b \in 1..10 : Digits[a] = Digits[b] => a = b
<1>1. DOMAIN Digits = 1..10
  BY DEF Digits
<1>2. ASSUME NEW a \in 1..10, NEW b \in 1..10, Digits[a] = Digits[b] PROVE a = b
  <2>1. a = 1 \/ a = 2 \/ a = 3 \/ a = 4 \/ a = 5 \/ a = 6 \/ a = 7 \/ a = 8 \/ a = 9 \/ a = 10
    OBVIOUS
  <2>2. b = 1 \/ b = 2 \/ b = 3 \/ b = 4 \/ b = 5 \/ b = 6 \/ b = 7 \/ b = 8 \/ b = 9 \/ b = 10
    OBVIOUS
  <2> QED BY <1>2, <2>1, <2>2 DEF Digits
<1> QED BY <1>1, <1>2

Digit(n) == Digits[n + 1]

LEMMA DigitFacts ==
  ASSUME NEW k \in 0..9
  PROVE  Digit(k) \in Char /\ Digit(k) \in Range(Digits) /\ Value(Digit(k)) = k
<1>1. k + 1 \in 1..10
  OBVIOUS
<1>2. Digit(k) \in Range(Digits)
  BY <1>1, DigitsAreDistinct DEF Digit, Range
<1>3. Digit(k) \in Char
  BY <1>1 DEF Digit, Char
<1>4. PICK d \in DOMAIN Digits : d = CHOOSE c \in DOMAIN Digits : Digits[c] = Digit(k)
  BY <1>1, DigitsAreDistinct DEF Digit
<1>5. Digits[d] = Digits[k + 1] /\ d \in 1..10
  BY <1>1, <1>4, DigitsAreDistinct DEF Digit
<1>6. d = k + 1
  BY <1>1, <1>5, DigitsAreDistinct
<1>7. Value(Digit(k)) = d - 1
  BY <1>4, Zenon DEF Value
<1>8. d - 1 = k
  BY <1>6
<1> QED BY <1>2, <1>3, <1>7, <1>8

(* The digits of a number, by the recursion of FormatInt.                  *)
Formatting(f, n) == IF n < 10 THEN <<Digit(n)>> ELSE Append(f[n \div 10], Digit(n % 10))

FormatsUpTo(N, f) == f = [n \in 0..N |-> Formatting(f, n)]

LEMMA FormatExists ==
  ASSUME NEW N \in Nat
  PROVE  \E f : FormatsUpTo(N, f)
<1> DEFINE T == {k \in 0..N : \E f : f = [n \in 0..k |-> Formatting(f, n)]}
<1>1. 0 \in T
  <2>1. PICK f : f = [n \in 0..0 |-> <<Digit(n)>>]
    OBVIOUS
  <2>2. f = [n \in 0..0 |-> Formatting(f, n)]
    BY <2>1 DEF Formatting
  <2> QED BY <2>2
<1>2. ASSUME NEW k \in 0..N, k \in T, k < N PROVE k + 1 \in T
  <2>1. PICK g : g = [n \in 0..k |-> Formatting(g, n)]
    BY <1>2
  <2>2. PICK h : h = [n \in 0..(k + 1) |-> IF n = k + 1 THEN Formatting(g, n) ELSE g[n]]
    OBVIOUS
  <2>3. ASSUME NEW n \in 0..(k + 1) PROVE h[n] = Formatting(h, n)
    <3>1. h[n] = Formatting(g, n)
      <4>1. CASE n = k + 1
        BY <2>2, <4>1
      <4>2. CASE n # k + 1
        <5>1. n \in 0..k
          BY <4>2
        <5> QED BY <2>1, <2>2, <4>2, <5>1
      <4> QED BY <4>1, <4>2
    <3>2. CASE n < 10
      BY <3>1, <3>2 DEF Formatting
    <3>3. CASE ~(n < 10)
      <4>1. n \div 10 \in 0..(k + 1) /\ n \div 10 # k + 1
        BY <3>3
      <4>2. h[n \div 10] = g[n \div 10]
        BY <2>2, <4>1
      <4> QED BY <3>1, <3>3, <4>2 DEF Formatting
    <3> QED BY <3>2, <3>3
  <2>4. DOMAIN h = 0..(k + 1) /\ h = [n \in 0..(k + 1) |-> h[n]]
    BY <2>2
  <2>5. h = [n \in 0..(k + 1) |-> Formatting(h, n)]
    BY <2>3, <2>4
  <2>6. k + 1 \in 0..N
    BY <1>2
  <2> QED BY <2>5, <2>6
<1>3. N \in T
  <2> HIDE DEF T
  <2>1. 0..N \subseteq T
    BY <1>1, <1>2, UpTo
  <2> QED BY <2>1
<1> QED BY <1>3 DEF FormatsUpTo

LEMMA FormatUnrolled ==
  ASSUME NEW N \in Nat
  PROVE  \E f : FormatsUpTo(N, f) /\ FormatInt(N) = f[N]
<1>1. PICK g : FormatsUpTo(N, g)
  BY FormatExists
<1> DEFINE f == CHOOSE f : f = [n \in 0..N |-> Formatting(f, n)]
<1>2. FormatInt(N) = f[N]
  BY DEF FormatInt, Formatting, Digit
<1>3. FormatsUpTo(N, f)
  BY <1>1 DEF FormatsUpTo
<1> QED BY <1>2, <1>3

(* The number that a text stands for, by the recursion of ParseInt.        *)
Shift(x, char) == 10 * x + Value(char)

Counting(text, f, n) == IF n = 0 THEN 0 ELSE Shift(f[n - 1], text[n])

CountsUpTo(text, N, f) == f = [n \in 0..N |-> Counting(text, f, n)]

LEMMA CountExists ==
  ASSUME NEW text, NEW N \in Nat
  PROVE  \E f : CountsUpTo(text, N, f)
<1> DEFINE T == {k \in 0..N : \E f : f = [n \in 0..k |-> Counting(text, f, n)]}
<1>1. 0 \in T
  <2>1. PICK f : f = [n \in 0..0 |-> 0]
    OBVIOUS
  <2>2. f = [n \in 0..0 |-> Counting(text, f, n)]
    BY <2>1 DEF Counting
  <2> QED BY <2>2
<1>2. ASSUME NEW k \in 0..N, k \in T, k < N PROVE k + 1 \in T
  <2>1. PICK g : g = [n \in 0..k |-> Counting(text, g, n)]
    BY <1>2
  <2>2. PICK h : h = [n \in 0..(k + 1) |-> IF n = k + 1 THEN Counting(text, g, n) ELSE g[n]]
    OBVIOUS
  <2>3. ASSUME NEW n \in 0..(k + 1) PROVE h[n] = Counting(text, h, n)
    <3>1. h[n] = Counting(text, g, n)
      <4>1. CASE n = k + 1
        BY <2>2, <4>1
      <4>2. CASE n # k + 1
        <5>1. n \in 0..k
          BY <4>2
        <5> QED BY <2>1, <2>2, <4>2, <5>1
      <4> QED BY <4>1, <4>2
    <3>2. CASE n = 0
      BY <3>1, <3>2 DEF Counting
    <3>3. CASE n # 0
      <4>1. n - 1 \in 0..(k + 1) /\ n - 1 # k + 1
        BY <3>3
      <4>2. h[n - 1] = g[n - 1]
        BY <2>2, <4>1
      <4> QED BY <3>1, <3>3, <4>2 DEF Counting
    <3> QED BY <3>2, <3>3
  <2>4. DOMAIN h = 0..(k + 1) /\ h = [n \in 0..(k + 1) |-> h[n]]
    BY <2>2
  <2>5. h = [n \in 0..(k + 1) |-> Counting(text, h, n)]
    BY <2>3, <2>4
  <2>6. k + 1 \in 0..N
    BY <1>2
  <2> QED BY <2>5, <2>6
<1>3. N \in T
  <2> HIDE DEF T
  <2>1. 0..N \subseteq T
    BY <1>1, <1>2, UpTo
  <2> QED BY <2>1
<1> QED BY <1>3 DEF CountsUpTo

LEMMA CountUnrolled ==
  ASSUME NEW text, NEW N \in Nat, N = Len(text)
  PROVE  \E f : CountsUpTo(text, N, f) /\ Number(text) = f[N]
<1>1. PICK g : CountsUpTo(text, N, g)
  BY CountExists
<1> DEFINE f == CHOOSE f : f = [n \in 0..Len(text) |-> Counting(text, f, n)]
<1>2. Number(text) = f[Len(text)]
  BY DEF Number, Counting, Shift
<1>3. CountsUpTo(text, N, f)
  BY <1>1 DEF CountsUpTo
<1> QED BY <1>2, <1>3

LEMMA NumberOfDigit ==
  ASSUME NEW char \in Char, Value(char) \in Nat
  PROVE  Number(<<char>>) = Value(char)
<1>1. PICK text \in Seq(Char) : text = <<char>>
  <2>1. <<char>> \in Seq(Char)
    OBVIOUS
  <2> QED BY <2>1
<1>2. Len(text) = 1 /\ text[1] = char
  BY <1>1
<1>3. PICK f : CountsUpTo(text, 1, f) /\ Number(text) = f[1]
  BY <1>2, CountUnrolled
<1>4. f[0] = Counting(text, f, 0) /\ f[1] = Counting(text, f, 1)
  BY <1>3 DEF CountsUpTo
<1>5. f[0] = 0 /\ f[1] = Shift(f[1 - 1], text[1]) /\ 1 - 1 = 0
  BY <1>4 DEF Counting
<1>6. f[1] = Shift(0, char)
  BY <1>2, <1>5
<1>7. Shift(0, char) = Value(char)
  BY DEF Shift
<1> QED BY <1>1, <1>3, <1>6, <1>7

LEMMA NumberAppended ==
  ASSUME NEW text \in Seq(Char), NEW char \in Char
  PROVE  Number(Append(text, char)) = Shift(Number(text), char)
<1>1. PICK N \in Nat : N = Len(text)
  OBVIOUS
<1>2. PICK longer \in Seq(Char) : longer = Append(text, char)
  <2>1. Append(text, char) \in Seq(Char)
    OBVIOUS
  <2> QED BY <2>1
<1>3. /\ N + 1 = Len(longer) /\ longer[N + 1] = char /\ N + 1 \in Nat
      /\ \A n \in 1..N : longer[n] = text[n]
  BY <1>1, <1>2
<1>4. PICK f : CountsUpTo(text, N, f) /\ Number(text) = f[N]
  BY <1>1, CountUnrolled
<1>5. PICK g : CountsUpTo(longer, N + 1, g) /\ Number(longer) = g[N + 1]
  BY <1>3, CountUnrolled
<1>6. \A n \in 0..N : f[n] = Counting(text, f, n)
  BY <1>4 DEF CountsUpTo
<1>7. \A n \in 0..(N + 1) : g[n] = Counting(longer, g, n)
  BY <1>5 DEF CountsUpTo
<1> DEFINE T == {n \in 0..N : f[n] = g[n]}
<1>8. 0 \in T
  <2>1. 0 \in 0..N /\ 0 \in 0..(N + 1)
    OBVIOUS
  <2> QED BY <1>6, <1>7, <2>1 DEF Counting
<1>9. ASSUME NEW n \in 0..N, n \in T, n < N PROVE n + 1 \in T
  <2>1. n + 1 \in 0..N /\ n + 1 \in 0..(N + 1) /\ n + 1 # 0 /\ (n + 1) - 1 = n /\ n + 1 \in 1..N
    BY <1>9
  <2>2. f[n + 1] = Shift(f[n], text[n + 1])
    BY <1>6, <2>1 DEF Counting
  <2>3. g[n + 1] = Shift(g[n], longer[n + 1])
    BY <1>7, <2>1 DEF Counting
  <2>4. f[n + 1] = g[n + 1]
    BY <1>3, <1>9, <2>1, <2>2, <2>3
  <2> QED BY <2>1, <2>4
<1>10. f[N] = g[N]
  <2>1. N \in T
    <3> HIDE DEF T
    <3>1. 0..N \subseteq T
      BY <1>8, <1>9, UpTo
    <3> QED BY <3>1
  <2> QED BY <2>1
<1>11. g[N + 1] = Shift(g[N], char)
  <2>1. N + 1 \in 0..(N + 1) /\ N + 1 # 0 /\ (N + 1) - 1 = N
    OBVIOUS
  <2> QED BY <1>3, <1>7, <2>1 DEF Counting
<1> QED BY <1>2, <1>4, <1>5, <1>10, <1>11

(* A text of digits with the value n.                                      *)
Spells(text, n) ==
  /\ text \in Seq(Char) /\ text # <<>>
  /\ Range(text) \subseteq Range(Digits)
  /\ Number(text) = n

LEMMA OneDigit ==
  ASSUME NEW n \in 0..9
  PROVE  Spells(<<Digit(n)>>, n)
<1>1. PICK char \in Char : char = Digit(n) /\ char \in Range(Digits) /\ Value(char) = n
  BY DigitFacts
<1>2. <<char>> \in Seq(Char) /\ <<char>> # <<>>
  OBVIOUS
<1>3. Range(<<char>>) \subseteq Range(Digits)
  <2>1. ASSUME NEW x \in Range(<<char>>) PROVE x = char
    <3>1. PICK i \in DOMAIN <<char>> : x = <<char>>[i]
      BY <2>1 DEF Range
    <3>2. i = 1
      BY <3>1
    <3> QED BY <3>1, <3>2
  <2> QED BY <1>1, <2>1
<1>4. Number(<<char>>) = n
  <2>1. Value(char) \in Nat
    BY <1>1
  <2> QED BY <1>1, <2>1, NumberOfDigit
<1> QED BY <1>1, <1>2, <1>3, <1>4 DEF Spells

LEMMA OneMoreDigit ==
  ASSUME NEW text, NEW m \in Nat, Spells(text, m), NEW k \in 0..9
  PROVE  Spells(Append(text, Digit(k)), 10 * m + k)
<1>1. PICK char \in Char : char = Digit(k) /\ char \in Range(Digits) /\ Value(char) = k
  BY DigitFacts
<1>2. PICK t \in Seq(Char) : t = text /\ Range(t) \subseteq Range(Digits) /\ Number(t) = m
  BY DEF Spells
<1>3. PICK longer \in Seq(Char) : longer = Append(t, char)
  <2>1. Append(t, char) \in Seq(Char)
    OBVIOUS
  <2> QED BY <2>1
<1>4. Len(longer) = Len(t) + 1 /\ longer # <<>>
  BY <1>3
<1>5. Range(longer) \subseteq Range(Digits)
  <2>1. ASSUME NEW i \in DOMAIN longer PROVE longer[i] = char \/ longer[i] \in Range(t)
    <3>1. i \in 1..(Len(t) + 1) /\ Len(t) \in Nat /\ DOMAIN t = 1..Len(t)
      BY <1>4
    <3>2. CASE i = Len(t) + 1
      BY <1>3, <3>2
    <3>3. CASE i # Len(t) + 1
      <4>1. i \in 1..Len(t)
        BY <3>1, <3>3
      <4>2. longer[i] = t[i]
        BY <1>3, <4>1
      <4> QED BY <3>1, <4>1, <4>2 DEF Range
    <3> QED BY <3>2, <3>3
  <2>2. ASSUME NEW x \in Range(longer) PROVE x \in Range(Digits)
    <3>1. PICK i \in DOMAIN longer : x = longer[i]
      BY <2>2 DEF Range
    <3> QED BY <1>1, <1>2, <2>1, <3>1
  <2> QED BY <2>2
<1>6. Number(longer) = Shift(m, char)
  BY <1>2, <1>3, NumberAppended
<1>7. Shift(m, char) = 10 * m + k
  BY <1>1 DEF Shift
<1> QED BY <1>1, <1>2, <1>3, <1>4, <1>5, <1>6, <1>7 DEF Spells

(* What FormatInt writes has the value that it was given.                  *)
LEMMA FormatSpells ==
  ASSUME NEW N \in Nat
  PROVE  Spells(FormatInt(N), N)
<1>1. PICK f : FormatsUpTo(N, f) /\ FormatInt(N) = f[N]
  BY FormatUnrolled
<1>2. \A n \in 0..N : f[n] = Formatting(f, n)
  BY <1>1 DEF FormatsUpTo
<1> DEFINE T == {n \in 0..N : Spells(f[n], n)}
<1>3. ASSUME NEW s \in 0..N, \A r \in 0..N : r < s => r \in T PROVE s \in T
  <2>1. CASE s < 10
    <3>1. s \in 0..9
      BY <2>1
    <3>2. f[s] = <<Digit(s)>>
      BY <1>2, <2>1 DEF Formatting
    <3> QED BY <3>1, <3>2, OneDigit
  <2>2. CASE ~(s < 10)
    <3>1. PICK m \in Nat, k \in Nat : m = s \div 10 /\ k = s % 10
      OBVIOUS
    <3>2. m \in 0..N /\ m < s /\ k \in 0..9 /\ 10 * m + k = s
      BY <2>2, <3>1
    <3>3. f[s] = Append(f[m], Digit(k))
      BY <1>2, <2>2, <3>1 DEF Formatting
    <3>4. Spells(f[m], m)
      BY <1>3, <3>2
    <3>5. Spells(Append(f[m], Digit(k)), 10 * m + k)
      BY <3>2, <3>4, OneMoreDigit
    <3> QED BY <3>2, <3>3, <3>5
  <2> QED BY <2>1, <2>2
<1>4. N \in T
  <2> HIDE DEF T
  <2>1. 0..N \subseteq T
    BY <1>3, StrongUp
  <2> QED BY <2>1
<1> QED BY <1>1, <1>4

(* A tag stands for a version exactly when it is that version's own text.  *)
LEMMA VersionsOfOpaque ==
  ASSUME NEW opaque, NEW version \in 1..MaxVersion
  PROVE  version \in VersionsOf(opaque) <=> FormatInt(version) = opaque
<1>1. MaxVersion \in Nat /\ version \in Nat /\ version <= MaxVersion
  BY MaxVersionAssumption
<1>2. ASSUME FormatInt(version) = opaque PROVE version \in VersionsOf(opaque)
  <2>1. Spells(opaque, version)
    BY <1>1, <1>2, FormatSpells
  <2>2. ParseInt(opaque) = version
    BY <1>1, <2>1 DEF ParseInt, Spells
  <2>3. version # NotANumber /\ version # 0
    BY <1>1 DEF NotANumber
  <2> QED BY <1>2, <2>2, <2>3 DEF VersionsOf
<1> QED BY <1>2 DEF VersionsOf

-----------------------------------------------------------------------------
(* The versions that the scanner takes from a tag.                         *)

LEMMA QuotedText ==
  ASSUME NEW t \in Seq(Char)
  PROVE  /\ <<Quote>> \o t \o <<Quote>> \in Seq(Char)
         /\ Len(<<Quote>> \o t \o <<Quote>>) = Len(t) + 2
         /\ (<<Quote>> \o t \o <<Quote>>)[1] = Quote
         /\ (<<Quote>> \o t \o <<Quote>>)[Len(t) + 2] = Quote
         /\ \A i \in 1..Len(t) : (<<Quote>> \o t \o <<Quote>>)[i + 1] = t[i]
<1>1. PICK char \in Char : char = Quote
  BY DEF Char
<1>2. PICK q \in Seq(Char) : q = <<char>>
  <2>1. <<char>> \in Seq(Char)
    OBVIOUS
  <2> QED BY <2>1
<1>3. Len(q) = 1 /\ q[1] = char
  BY <1>2
<1>4. PICK p \in Seq(Char) : p = q \o t
  <2>1. q \o t \in Seq(Char)
    OBVIOUS
  <2> QED BY <2>1
<1>5. Len(p) = Len(t) + 1 /\ p[1] = char /\ \A i \in 1..Len(t) : p[i + 1] = t[i]
  <2>1. Len(t) \in Nat
    OBVIOUS
  <2>2. /\ Len(q \o t) = Len(q) + Len(t)
        /\ \A i \in 1..Len(q) + Len(t) : (q \o t)[i] = IF i <= Len(q) THEN q[i] ELSE t[i - Len(q)]
    BY ConcatProperties
  <2>3. \A i \in 1..Len(t) : i + 1 \in 1..Len(q) + Len(t) /\ ~(i + 1 <= Len(q)) /\ (i + 1) - Len(q) = i
    BY <1>3, <2>1
  <2> QED BY <1>3, <1>4, <2>1, <2>2, <2>3
<1>6. PICK r \in Seq(Char) : r = p \o q
  <2>1. p \o q \in Seq(Char)
    OBVIOUS
  <2> QED BY <2>1
<1>7. Len(r) = Len(t) + 2 /\ r[Len(t) + 2] = char /\ \A i \in 1..(Len(t) + 1) : r[i] = p[i]
  <2>1. Len(t) \in Nat
    OBVIOUS
  <2>2. /\ Len(p \o q) = Len(p) + Len(q)
        /\ \A i \in 1..Len(p) + Len(q) : (p \o q)[i] = IF i <= Len(p) THEN p[i] ELSE q[i - Len(p)]
    BY ConcatProperties
  <2> QED BY <1>3, <1>5, <1>6, <2>1, <2>2
<1>8. r[1] = char /\ \A i \in 1..Len(t) : r[i + 1] = t[i]
  <2>1. Len(t) \in Nat /\ 1 \in 1..(Len(t) + 1) /\ \A i \in 1..Len(t) : i + 1 \in 1..(Len(t) + 1)
    OBVIOUS
  <2> QED BY <1>5, <1>7, <2>1
<1>9. r = <<Quote>> \o t \o <<Quote>>
  BY <1>1, <1>2, <1>4, <1>6
<1> QED BY <1>1, <1>6, <1>7, <1>8, <1>9

QuotedIn(raw, f, l, t) ==
  t = SubSeq(raw, f + 1, l - 1) <=> SubSeq(raw, f, l) = <<Quote>> \o t \o <<Quote>>

LEMMA InQuotes ==
  ASSUME NEW raw \in Seq(Char), NEW f \in 1..Len(raw), NEW l \in (f + 1)..Len(raw),
         raw[f] = Quote, raw[l] = Quote, NEW t \in Seq(Char)
  PROVE  QuotedIn(raw, f, l, t)
<1>1. Len(raw) \in Nat /\ f \in Nat /\ l \in Nat /\ f < l /\ Len(t) \in Nat
  OBVIOUS
<1>2. PICK g \in Nat, h \in Nat : g = f + 1 /\ h = l - 1
  BY <1>1
<1>3. /\ g \in 1..(Len(raw) + 1) /\ h \in (g - 1)..Len(raw)
      /\ f \in 1..(Len(raw) + 1) /\ l \in (f - 1)..Len(raw)
  BY <1>1, <1>2
<1>4. IsPiece(SubSeq(raw, g, h), raw, g, h) /\ IsPiece(SubSeq(raw, f, l), raw, f, l)
  BY <1>3, Piece
<1>5. PICK n \in Nat, k \in Nat : n = (l - f) - 1 /\ k = Len(t)
  <2>1. (l - f) - 1 \in Nat /\ Len(t) \in Nat
    BY ONLY <1>1
  <2> QED BY ONLY <2>1
<1>6. PICK u \in Seq(Char) : u = SubSeq(raw, g, h) /\ Len(u) = n /\ \A i \in 1..n : u[i] = raw[f + i]
  <2>1. (h - g) + 1 = n /\ \A i \in 1..n : (g + i) - 1 = f + i
    BY <1>1, <1>2, <1>5
  <2>2. PICK u \in Seq(Char) : u = SubSeq(raw, g, h)
    BY <1>4 DEF IsPiece
  <2>3. Len(u) = (h - g) + 1 /\ \A i \in 1..((h - g) + 1) : u[i] = raw[(g + i) - 1]
    BY <1>4, <2>2 DEF IsPiece
  <2>4. \A i \in 1..n : u[i] = raw[f + i]
    BY <2>1, <2>3
  <2> QED BY <2>1, <2>2, <2>3, <2>4
<1>7. PICK w \in Seq(Char) : w = SubSeq(raw, f, l) /\ Len(w) = n + 2 /\ \A i \in 1..(n + 2) : w[i] = raw[(f + i) - 1]
  <2>1. (l - f) + 1 = n + 2
    BY <1>1, <1>5
  <2> QED BY <1>4, <2>1 DEF IsPiece
<1>9. PICK x \in Seq(Char) : x = <<Quote>> \o t \o <<Quote>>
  BY QuotedText
<1>10. Len(x) = k + 2 /\ x[1] = Quote /\ x[k + 2] = Quote /\ \A i \in 1..k : x[i + 1] = t[i]
  BY <1>5, <1>9, QuotedText
<1>11. ASSUME t = u PROVE w = x
  <2>1. k = n
    BY <1>5, <1>6, <1>11
  <2>2. ASSUME NEW i \in 1..(n + 2) PROVE w[i] = x[i]
    <3>1. i \in Nat /\ w[i] = raw[(f + i) - 1]
      BY <1>7
    <3>2. CASE i = 1
      <4>1. (f + i) - 1 = f
        BY <1>1, <3>2
      <4> QED BY <1>10, <3>1, <3>2, <4>1
    <3>3. CASE i = n + 2
      <4>1. (f + i) - 1 = l
        BY <1>1, <1>5, <3>3
      <4> QED BY <1>10, <2>1, <3>1, <3>3, <4>1
    <3>4. CASE i # 1 /\ i # n + 2
      <4>1. PICK m \in 1..n : i = m + 1
        <5>1. i - 1 \in 1..n /\ i = (i - 1) + 1
          BY <3>4
        <5> QED BY <5>1
      <4>2. (f + i) - 1 = f + m
        BY <1>1, <4>1
      <4>3. x[i] = t[m]
        BY <1>10, <2>1, <4>1
      <4>4. u[m] = raw[f + m]
        BY <1>6
      <4> QED BY <1>11, <3>1, <4>2, <4>3, <4>4
    <3> QED BY <3>2, <3>3, <3>4
  <2>3. Len(w) = Len(x)
    BY <1>7, <1>10, <2>1
  <2> QED BY <1>7, <2>2, <2>3, SeqEqual
<1>12. ASSUME w = x PROVE t = u
  <2>1. k = n
    <3>1. k + 2 = n + 2
      BY <1>7, <1>10, <1>12
    <3> QED BY <3>1
  <2>2. ASSUME NEW i \in 1..n PROVE t[i] = u[i]
    <3>1. i + 1 \in 1..(n + 2) /\ (f + (i + 1)) - 1 = f + i
      BY <1>1
    <3>2. w[i + 1] = raw[f + i]
      BY <1>7, <3>1
    <3>3. x[i + 1] = t[i]
      BY <1>10, <2>1
    <3> QED BY <1>6, <1>12, <3>2, <3>3
  <2>3. Len(t) = Len(u) /\ Len(t) = n
    BY <1>5, <1>6, <2>1
  <2> QED BY <2>2, <2>3, SeqEqual
<1> QED BY <1>2, <1>6, <1>7, <1>9, <1>11, <1>12 DEF QuotedIn

LEMMA VersionsOfTag ==
  ASSUME NEW raw \in Seq(Char), NEW f \in 1..Len(raw), NEW l \in f..Len(raw), TagIn(raw, f, l),
         NEW version \in 1..MaxVersion
  PROVE  version \in TagVersions(raw, f) <=> SubSeq(raw, f, l) = ETag(version)
<1>1. Len(raw) \in Nat /\ f \in Nat /\ l \in Nat /\ version \in Nat
  BY MaxVersionAssumption
<1>2. PICK t \in Seq(Char) : t = FormatInt(version)
  BY <1>1, FormatSpells DEF Spells
<1>3. ETag(version) = <<Quote>> \o t \o <<Quote>>
  BY <1>2 DEF ETag
<1>4. Close(raw, f) = l
  BY CloseOfTag
<1>5. CASE IsWeak(raw, f)
  <2>1. raw[f] = "W" /\ TagVersions(raw, f) = {}
    BY <1>5 DEF IsWeak, At, TagVersions
  <2>2. f \in 1..(Len(raw) + 1) /\ l \in (f - 1)..Len(raw)
    BY <1>1
  <2>3. IsPiece(SubSeq(raw, f, l), raw, f, l)
    BY <2>2, Piece
  <2>4. PICK u \in Seq(Char) : u = SubSeq(raw, f, l)
    BY <2>3 DEF IsPiece
  <2>5. u[1] = raw[f]
    <3>1. 1 \in 1..((l - f) + 1) /\ (f + 1) - 1 = f
      BY <1>1
    <3> QED BY <2>3, <2>4, <3>1 DEF IsPiece
  <2>6. PICK x \in Seq(Char) : x = ETag(version) /\ x[1] = Quote
    BY <1>3, QuotedText
  <2> QED BY <2>1, <2>4, <2>5, <2>6, QuoteEndsTag
<1>6. CASE ~IsWeak(raw, f)
  <2>1. StrongIn(raw, f, l) /\ Open(raw, f) = f
    BY <1>6, OpenOfTag DEF Open
  <2>2. raw[f] = Quote /\ raw[l] = Quote /\ l \in (f + 1)..Len(raw)
    BY <1>1, <2>1 DEF StrongIn
  <2>3. TagVersions(raw, f) = VersionsOf(SubSeq(raw, f + 1, l - 1))
    BY <1>4, <1>6, <2>1 DEF TagVersions
  <2>4. version \in TagVersions(raw, f) <=> t = SubSeq(raw, f + 1, l - 1)
    <3>1. PICK o : o = SubSeq(raw, f + 1, l - 1)
      OBVIOUS
    <3>2. version \in VersionsOf(o) <=> FormatInt(version) = o
      BY ONLY VersionsOfOpaque, version \in 1..MaxVersion
    <3> QED BY <1>2, <2>3, <3>1, <3>2, Zenon
  <2>5. t = SubSeq(raw, f + 1, l - 1) <=> SubSeq(raw, f, l) = <<Quote>> \o t \o <<Quote>>
    <3>1. QuotedIn(raw, f, l, t)
      BY <2>2, InQuotes
    <3> QED BY <3>1 DEF QuotedIn
  <2> QED BY <1>3, <2>4, <2>5
<1> QED BY <1>5, <1>6

(* What the scanner takes from a part of the list is that part's version.  *)
LEMMA VersionsOfPart ==
  ASSUME NEW raw \in Seq(Char), NEW s \in 0..Len(raw), NEW e \in (s + 1)..(Len(raw) + 1), Boundary(raw, e),
         IsTag(Part(raw, s, e)), NEW version \in 1..MaxVersion
  PROVE  version \in TagVersions(raw, SkipBlank(raw, s + 1)) <=> Part(raw, s, e) = ETag(version)
<1>1. Len(raw) \in Nat /\ s \in Nat /\ e \in Nat /\ s + 1 \in 1..(Len(raw) + 1) /\ e \in 1..(Len(raw) + 1)
  OBVIOUS
<1>2. PICK f \in Nat, l \in Nat : Ends(raw, s, e, f, l)
  BY PartCases, EmptyIsNoTag
<1>3. /\ f \in (s + 1)..(e - 1) /\ l \in f..(e - 1)
      /\ raw[f] \notin Blank /\ BlankFrom(raw, s + 1, f)
  BY <1>2 DEF Ends
<1>4. f \in 1..Len(raw) /\ l \in f..Len(raw) /\ f \in (s + 1)..(Len(raw) + 1)
  BY <1>1, <1>3
<1>5. SkipBlank(raw, s + 1) = f
  <2>1. Solid(raw, f)
    BY <1>3 DEF Solid
  <2> QED BY <1>1, <1>3, <1>4, <2>1, SkipBlankIs
<1>6. Part(raw, s, e) = SubSeq(raw, f, l)
  BY <1>2, PartIs
<1>7. TagIn(raw, f, l)
  BY <1>4, <1>6, TagPiece
<1> QED BY <1>4, <1>5, <1>6, <1>7, VersionsOfTag

-----------------------------------------------------------------------------
(* The loop.  A turn asks only for turns that begin further on, so there   *)
(* is a function that tells the result from every position.                *)

LEMMA QuotedInside ==
  ASSUME NEW raw \in Seq(Char), NEW f \in 1..(Len(raw) + 1), IsQuoted(raw, f)
  PROVE  f \in 1..Len(raw)
<1>1. Len(raw) \in Nat /\ f \in Nat
  OBVIOUS
<1>2. Open(raw, f) = f \/ Open(raw, f) = f + 2
  BY DEF Open
<1>3. Open(raw, f) <= Len(raw)
  BY DEF IsQuoted, At
<1> QED BY <1>1, <1>2, <1>3

(* After the tag that is found from s + 1 on, the scanner is further on.   *)
LEMMA AfterTag ==
  ASSUME NEW raw \in Seq(Char), NEW s \in 0..Len(raw), IsQuoted(raw, SkipBlank(raw, s + 1))
  PROVE  SkipBlank(raw, Close(raw, SkipBlank(raw, s + 1)) + 1) \in (s + 1)..(Len(raw) + 1)
<1>1. Len(raw) \in Nat /\ s \in Nat /\ s + 1 \in 1..(Len(raw) + 1)
  OBVIOUS
<1>2. PICK f \in Nat : f = SkipBlank(raw, s + 1) /\ f \in (s + 1)..(Len(raw) + 1)
  <2>1. SkipBlank(raw, s + 1) \in (s + 1)..(Len(raw) + 1)
    BY <1>1, SkipBlankFacts
  <2>2. SkipBlank(raw, s + 1) \in Nat
    BY <1>1, <2>1
  <2> QED BY <2>1, <2>2
<1>3. f \in 1..(Len(raw) + 1)
  BY <1>1, <1>2
<1>4. f \in 1..Len(raw)
  BY <1>2, <1>3, QuotedInside
<1>5. PICK l \in Nat : l = Close(raw, f) /\ l \in (f + 1)..Len(raw)
  <2>1. Close(raw, f) \in (f + 1)..Len(raw)
    BY <1>2, <1>4, TagOfClose
  <2>2. Close(raw, f) \in Nat
    BY <1>1, <1>2, <2>1
  <2> QED BY <2>1, <2>2
<1>6. l + 1 \in 1..(Len(raw) + 1)
  BY <1>1, <1>5
<1>7. SkipBlank(raw, l + 1) \in (l + 1)..(Len(raw) + 1)
  BY <1>6, SkipBlankFacts
<1>8. SkipBlank(raw, l + 1) \in (s + 1)..(Len(raw) + 1)
  BY <1>1, <1>2, <1>5, <1>7
<1> QED BY <1>2, <1>5, <1>8

LEMMA TurnReads ==
  ASSUME NEW raw \in Seq(Char), NEW s \in 0..Len(raw), NEW g, NEW h,
         \A p \in (s + 2)..(Len(raw) + 1) : g[p] = h[p]
  PROVE  Turn(raw, SkipBlank(raw, s + 1), g) = Turn(raw, SkipBlank(raw, s + 1), h)
<1>1. Len(raw) \in Nat /\ s \in Nat
  OBVIOUS
<1>2. PICK f : f = SkipBlank(raw, s + 1)
  OBVIOUS
<1>3. CASE ~IsQuoted(raw, f)
  BY <1>2, <1>3 DEF Turn
<1>4. CASE IsQuoted(raw, f)
  <2>1. PICK e \in (s + 1)..(Len(raw) + 1) : e = SkipBlank(raw, Close(raw, f) + 1)
    BY <1>2, <1>4, AfterTag
  <2>2. e > Len(raw) \/ e = Len(raw) \/ g[e + 1] = h[e + 1]
    <3>1. CASE e < Len(raw)
      <4>1. e + 1 \in (s + 2)..(Len(raw) + 1)
        BY <1>1, <2>1, <3>1
      <4> QED BY <4>1
    <3> QED BY <1>1, <2>1, <3>1
  <2>3. PICK versions : versions = TagVersions(raw, f)
    OBVIOUS
  <2>4. Continue(raw, versions, e, g) = Continue(raw, versions, e, h)
    BY <2>2 DEF Continue
  <2> QED BY <1>2, <1>4, <2>1, <2>3, <2>4 DEF Turn
<1> QED BY <1>3, <1>4

(* g tells the result of the loop from every position after s.             *)
LoopsAfter(raw, s, g) ==
  \A r \in 0..Len(raw) : r >= s => g[r + 1] = Turn(raw, SkipBlank(raw, r + 1), g)

LEMMA LoopExists ==
  ASSUME NEW raw \in Seq(Char)
  PROVE  \E g : g = [offset \in 1..(Len(raw) + 1) |-> g[offset]] /\ LoopsAfter(raw, 0, g)
<1>1. PICK N \in Nat : N = Len(raw)
  OBVIOUS
<1> DEFINE Dom(g) == g = [offset \in 1..(N + 1) |-> g[offset]]
           T == {s \in 0..N : \E g : Dom(g) /\ LoopsAfter(raw, s, g)}
<1>2. ASSUME NEW s \in 0..N, NEW g, Dom(g), \A r \in 0..N : r > s => g[r + 1] = Turn(raw, SkipBlank(raw, r + 1), g)
      PROVE  s \in T
  <2>1. PICK h : h = [offset \in 1..(N + 1) |->
                       IF offset = s + 1 THEN Turn(raw, SkipBlank(raw, s + 1), g) ELSE g[offset]]
    OBVIOUS
  <2>2. Dom(h)
    BY <2>1
  <2>3. ASSUME NEW r \in 0..N, r >= s PROVE h[r + 1] = Turn(raw, SkipBlank(raw, r + 1), h)
    <3>1. r + 1 \in 1..(N + 1)
      OBVIOUS
    <3>2. h[r + 1] = Turn(raw, SkipBlank(raw, r + 1), g)
      <4>1. CASE r = s
        BY <2>1, <3>1, <4>1
      <4>2. CASE r # s
        <5>1. r > s /\ r + 1 # s + 1
          BY <2>3, <4>2
        <5> QED BY <1>2, <2>1, <3>1, <5>1
      <4> QED BY <4>1, <4>2
    <3>3. ASSUME NEW p \in (r + 2)..(Len(raw) + 1) PROVE g[p] = h[p]
      <4>1. p \in 1..(N + 1) /\ p # s + 1
        BY <1>1, <2>3
      <4> QED BY <2>1, <4>1
    <3>4. r \in 0..Len(raw)
      BY <1>1
    <3>5. Turn(raw, SkipBlank(raw, r + 1), g) = Turn(raw, SkipBlank(raw, r + 1), h)
      BY <3>3, <3>4, TurnReads
    <3> QED BY <3>2, <3>5
  <2>4. LoopsAfter(raw, s, h)
    BY <1>1, <2>3 DEF LoopsAfter
  <2> QED BY <2>2, <2>4
<1>3. ASSUME NEW s \in 0..N, \A r \in 0..N : r > s => r \in T PROVE s \in T
  <2>1. CASE s = N
    <3>1. PICK g : g = [offset \in 1..(N + 1) |-> 0]
      OBVIOUS
    <3>2. Dom(g)
      BY <3>1
    <3>3. \A r \in 0..N : ~(r > s)
      BY <2>1
    <3> QED BY <1>2, <3>2, <3>3
  <2>2. CASE s # N
    <3>1. s + 1 \in 0..N /\ s + 1 > s
      BY <2>2
    <3>2. s + 1 \in T
      BY <1>3, <3>1
    <3>3. PICK g : Dom(g) /\ LoopsAfter(raw, s + 1, g)
      BY <3>2
    <3>4. ASSUME NEW r \in 0..N, r > s PROVE g[r + 1] = Turn(raw, SkipBlank(raw, r + 1), g)
      <4>1. r \in 0..Len(raw) /\ r >= s + 1
        BY <1>1, <3>4
      <4> QED BY <3>3, <4>1 DEF LoopsAfter
    <3> QED BY <1>2, <3>3, <3>4
  <2> QED BY <2>1, <2>2
<1>4. 0 \in T
  <2> HIDE DEF T
  <2>1. 0..N \subseteq T
    BY <1>3, DownFrom
  <2> QED BY <2>1
<1> QED BY <1>1, <1>4

LEMMA ScanUnrolled ==
  ASSUME NEW raw \in Seq(Char)
  PROVE  \E g : LoopsAfter(raw, 0, g) /\ Scan(raw) = g[1]
<1>1. PICK N \in Nat : N = Len(raw)
  OBVIOUS
<1> DEFINE Loop(g) == g = [offset \in 1..(Len(raw) + 1) |-> Turn(raw, SkipBlank(raw, offset), g)]
<1>2. PICK g : g = [offset \in 1..(N + 1) |-> g[offset]] /\ LoopsAfter(raw, 0, g)
  BY <1>1, LoopExists
<1>3. Loop(g)
  <2>1. ASSUME NEW offset \in 1..(N + 1) PROVE g[offset] = Turn(raw, SkipBlank(raw, offset), g)
    <3>1. PICK r \in 0..N : offset = r + 1
      <4>1. offset - 1 \in 0..N /\ offset = (offset - 1) + 1
        OBVIOUS
      <4> QED BY <4>1
    <3>2. r \in 0..Len(raw) /\ r >= 0
      BY <1>1
    <3> QED BY <1>2, <3>1, <3>2 DEF LoopsAfter
  <2> QED BY <1>1, <1>2, <2>1
<1> DEFINE loop == CHOOSE loop : Loop(loop)
<1>4. Scan(raw) = loop[1]
  BY DEF Scan
<1>5. Loop(loop)
  BY <1>3
<1>6. LoopsAfter(raw, 0, loop)
  <2>1. ASSUME NEW r \in 0..Len(raw), r >= 0 PROVE loop[r + 1] = Turn(raw, SkipBlank(raw, r + 1), loop)
    <3>1. r + 1 \in 1..(Len(raw) + 1)
      BY <1>1
    <3> HIDE DEF loop
    <3> QED BY <1>5, <3>1
  <2> HIDE DEF loop
  <2> QED BY <2>1 DEF LoopsAfter
<1> QED BY <1>4, <1>6

-----------------------------------------------------------------------------
(* The list.  From a cut on, a list is the part that begins there and the  *)
(* list from the next cut on; the loop reads it the same way.              *)

Fine(result) == result.error = ""

LEMMA ContinueEnds ==
  ASSUME NEW raw, NEW versions, NEW next, NEW g, next > Len(raw)
  PROVE  Continue(raw, versions, next, g) = Listed(versions)
BY Zenon DEF Continue

LEMMA ContinueGoesOn ==
  ASSUME NEW raw, NEW versions, NEW next, NEW g, ~(next > Len(raw)),
         raw[next] = Comma, next # Len(raw), Fine(g[next + 1])
  PROVE  Continue(raw, versions, next, g) = Listed(versions \cup g[next + 1].versions)
BY Zenon DEF Continue, Comma, Fine

LEMMA ContinueFails ==
  ASSUME NEW raw, NEW versions, NEW next, NEW g, ~(next > Len(raw)),
         ~(raw[next] = Comma /\ next # Len(raw) /\ Fine(g[next + 1]))
  PROVE  Continue(raw, versions, next, g) = Malformed
BY Zenon DEF Continue, Comma, Fine

LEMMA ErrorsAreTold ==
  /\ ~Fine(Malformed) /\ \A versions : Fine(Listed(versions))
  /\ \A versions : Listed(versions).versions = versions
<1>1. ~Fine(Malformed)
  BY DEF Fine, Malformed
<1>2. ASSUME NEW versions PROVE Fine(Listed(versions))
  BY DEF Fine, Listed
<1>3. ASSUME NEW versions PROVE Listed(versions).versions = versions
  BY DEF Listed
<1> QED BY <1>1, <1>2, <1>3

Starts(cuts, s) == {cut \in cuts : cut > s} \cup {s}

PartAt(raw, cuts, start) == Part(raw, start, NextCut(raw, cuts, start))

AllTags(raw, cuts, s) == \A start \in Starts(cuts, s) : IsTag(PartAt(raw, cuts, start))

HasTag(raw, cuts, s, tag) == \E start \in Starts(cuts, s) : PartAt(raw, cuts, start) = tag

(* Cuts are commas.                                                        *)
CutsOf(raw, cuts) == \A cut \in cuts : cut \in 1..Len(raw) /\ raw[cut] = Comma

LEMMA CutsAreCommas ==
  ASSUME NEW raw \in Seq(Char), NEW cuts
  PROVE  cuts \in SUBSET Commas(raw) <=> CutsOf(raw, cuts)
<1>1. DOMAIN raw = 1..Len(raw)
  OBVIOUS
<1>2. \A cut : cut \in Commas(raw) <=> cut \in 1..Len(raw) /\ raw[cut] = Comma
  BY <1>1, Zenon DEF Commas, Comma
<1> QED BY <1>2, Zenon DEF CutsOf

LEMMA NextCutFacts ==
  ASSUME NEW raw \in Seq(Char), NEW s \in 0..Len(raw), NEW cuts, CutsOf(raw, cuts)
  PROVE  /\ NextCut(raw, cuts, s) \in (s + 1)..(Len(raw) + 1)
         /\ NextCut(raw, cuts, s) \in cuts \cup {Len(raw) + 1}
         /\ Boundary(raw, NextCut(raw, cuts, s))
         /\ \A cut \in cuts : cut > s => cut >= NextCut(raw, cuts, s)
<1>1. Len(raw) \in Nat /\ s \in Nat
  OBVIOUS
<1>2. ASSUME NEW cut \in cuts PROVE cut \in 1..Len(raw) /\ raw[cut] = Comma
  BY DEF CutsOf
<1> DEFINE after == {cut \in cuts \cup {Len(raw) + 1} : cut > s}
<1>3. \A cut \in after : cut \in Nat /\ cut <= Len(raw) + 1
  BY <1>1, <1>2
<1>4. Len(raw) + 1 \in after /\ after \in SUBSET Nat
  BY <1>1, <1>3
<1>5. PICK e \in Nat : e = Min(after) /\ e \in after /\ \A cut \in after : e <= cut
  <2>1. after # {}
    BY <1>4
  <2> HIDE DEF after
  <2>2. Min(after) \in after /\ \A cut \in after : Min(after) <= cut
    BY <1>4, <2>1, MinFacts
  <2> QED BY <1>4, <2>2
<1>6. e = NextCut(raw, cuts, s)
  BY <1>5 DEF NextCut
<1>7. e \in (s + 1)..(Len(raw) + 1) /\ e \in cuts \cup {Len(raw) + 1}
  BY <1>1, <1>3, <1>5
<1>8. Boundary(raw, e)
  <2>1. CASE e \in cuts
    <3>1. e \in 1..Len(raw) /\ raw[e] = Comma
      BY <1>2, <2>1
    <3> QED BY <1>1, <3>1 DEF Boundary, At
  <2>2. CASE e = Len(raw) + 1
    BY <2>2 DEF Boundary
  <2> QED BY <1>7, <2>1, <2>2
<1>9. \A cut \in cuts : cut > s => cut >= e
  BY <1>1, <1>2, <1>5
<1> QED BY <1>6, <1>7, <1>8, <1>9

LEMMA NextCutIs ==
  ASSUME NEW raw \in Seq(Char), NEW s \in 0..Len(raw), NEW cuts, CutsOf(raw, cuts),
         NEW e \in cuts \cup {Len(raw) + 1}, e > s, \A cut \in cuts : cut > s => cut >= e
  PROVE  NextCut(raw, cuts, s) = e
<1>1. PICK n \in Nat : n = NextCut(raw, cuts, s)
  <2>1. NextCut(raw, cuts, s) \in (s + 1)..(Len(raw) + 1) /\ Len(raw) \in Nat /\ s \in Nat
    BY NextCutFacts
  <2>2. NextCut(raw, cuts, s) \in Nat
    BY <2>1
  <2> QED BY <2>2
<1>2. /\ n \in (s + 1)..(Len(raw) + 1) /\ n \in cuts \cup {Len(raw) + 1}
      /\ \A cut \in cuts : cut > s => cut >= n
  BY <1>1, NextCutFacts
<1>3. Len(raw) \in Nat /\ s \in Nat /\ e \in Nat /\ e <= Len(raw) + 1
  BY DEF CutsOf
<1>4. n <= e
  BY <1>2, <1>3
<1>5. n >= e
  BY <1>2, <1>3
<1> QED BY <1>1, <1>3, <1>4, <1>5

(* The cuts after s are the next one and the cuts after that.              *)
LEMMA StartsStep ==
  ASSUME NEW raw \in Seq(Char), NEW s \in 0..Len(raw), NEW cuts, CutsOf(raw, cuts),
         NEW e \in 0..(Len(raw) + 1), e = NextCut(raw, cuts, s)
  PROVE  /\ e > Len(raw) => Starts(cuts, s) = {s}
         /\ e <= Len(raw) => Starts(cuts, s) = {s} \cup Starts(cuts, e)
<1>1. /\ e \in (s + 1)..(Len(raw) + 1) /\ e \in cuts \cup {Len(raw) + 1}
      /\ \A cut \in cuts : cut > s => cut >= e
  BY NextCutFacts
<1>2. \A cut \in cuts : cut \in 1..Len(raw)
  BY DEF CutsOf
<1>3. Len(raw) \in Nat /\ s \in Nat /\ e \in Nat
  OBVIOUS
<1>4. ASSUME e > Len(raw) PROVE Starts(cuts, s) = {s}
  <2>1. \A cut \in cuts : ~(cut > s)
    BY <1>1, <1>2, <1>3, <1>4
  <2> QED BY <2>1 DEF Starts
<1>5. ASSUME e <= Len(raw) PROVE Starts(cuts, s) = {s} \cup Starts(cuts, e)
  <2>1. e \in cuts /\ e > s
    BY <1>1, <1>3, <1>5
  <2>2. \A cut \in cuts : cut > s <=> cut = e \/ cut > e
    BY <1>1, <1>2, <1>3
  <2>3. \A cut : cut \in Starts(cuts, s) <=> cut \in {s} \cup Starts(cuts, e)
    BY <2>1, <2>2, Zenon DEF Starts
  <2> QED BY <2>3
<1> QED BY <1>4, <1>5

(* The result of the loop from s on is that of the list.                   *)
Reads(raw, cuts, s, result) ==
  /\ Fine(result)
  /\ \A version \in 1..MaxVersion :
       version \in result.versions <=> HasTag(raw, cuts, s, ETag(version))

(* The loop from s on agrees with every list that begins there.            *)
Agrees(raw, s, g) ==
  /\ \A cuts : CutsOf(raw, cuts) /\ AllTags(raw, cuts, s) => Reads(raw, cuts, s, g[s + 1])
  /\ Fine(g[s + 1]) => \E cuts : CutsOf(raw, cuts) /\ AllTags(raw, cuts, s)

AgreesAfter(raw, s, g) == \A r \in 0..Len(raw) : r > s => Agrees(raw, r, g)

LEMMA ListIsRead ==
  ASSUME NEW raw \in Seq(Char), NEW g, LoopsAfter(raw, 0, g), NEW s \in 0..Len(raw),
         AgreesAfter(raw, s, g),
         NEW cuts, CutsOf(raw, cuts), AllTags(raw, cuts, s)
  PROVE  Reads(raw, cuts, s, g[s + 1])
<1>1. Len(raw) \in Nat /\ s \in Nat
  OBVIOUS
<1>2. PICK e \in (s + 1)..(Len(raw) + 1) : e = NextCut(raw, cuts, s)
  BY NextCutFacts
<1>3. Boundary(raw, e) /\ e \in cuts \cup {Len(raw) + 1} /\ e \in 0..(Len(raw) + 1)
  BY <1>1, <1>2, NextCutFacts
<1>4. s \in Starts(cuts, s) /\ PartAt(raw, cuts, s) = Part(raw, s, e) /\ IsTag(Part(raw, s, e))
  BY <1>2 DEF AllTags, Starts, PartAt
<1>5. PICK f : f = SkipBlank(raw, s + 1)
  OBVIOUS
<1>6. IsQuoted(raw, f) /\ SkipBlank(raw, Close(raw, f) + 1) = e
  BY <1>3, <1>4, <1>5, TagPart DEF Scanned
<1>7. PICK versions : versions = TagVersions(raw, f)
  OBVIOUS
<1>8. g[s + 1] = Continue(raw, versions, e, g)
  <2>1. g[s + 1] = Turn(raw, f, g)
    BY <1>1, <1>5 DEF LoopsAfter
  <2> QED BY <1>6, <1>7, <2>1 DEF Turn
<1>9. \A version \in 1..MaxVersion : version \in versions <=> Part(raw, s, e) = ETag(version)
  BY <1>3, <1>4, <1>5, <1>7, VersionsOfPart
<1>10. CASE e > Len(raw)
  <2>1. Starts(cuts, s) = {s}
    BY <1>2, <1>3, <1>10, StartsStep
  <2>2. g[s + 1] = Listed(versions)
    <3>1. Continue(raw, versions, e, g) = Listed(versions)
      BY <1>10, ContinueEnds
    <3> QED BY <1>8, <3>1
  <2>3. \A version \in 1..MaxVersion :
          HasTag(raw, cuts, s, ETag(version)) <=> Part(raw, s, e) = ETag(version)
    BY <1>4, <2>1 DEF HasTag
  <2> QED BY <1>9, <2>2, <2>3, ErrorsAreTold DEF Reads
<1>11. CASE ~(e > Len(raw))
  <2>1. e <= Len(raw) /\ e \in 0..Len(raw) /\ e > s /\ raw[e] = Comma
    BY <1>1, <1>2, <1>3, <1>11 DEF Boundary, At
  <2>2. Starts(cuts, s) = {s} \cup Starts(cuts, e)
    BY <1>2, <1>3, <2>1, StartsStep
  <2>3. AllTags(raw, cuts, e)
    BY <2>2 DEF AllTags
  <2>4. Reads(raw, cuts, e, g[e + 1])
    BY <2>1, <2>3 DEF Agrees, AgreesAfter
  <2>5. e # Len(raw)
    <3> SUFFICES ASSUME e = Len(raw) PROVE FALSE
      OBVIOUS
    <3>1. PICK n \in (e + 1)..(Len(raw) + 1) : n = NextCut(raw, cuts, e)
      BY <2>1, NextCutFacts
    <3>2. IsTag(Part(raw, e, n))
      BY <2>3, <3>1 DEF AllTags, Starts, PartAt
    <3>3. PICK a \in Nat, b \in Nat : Ends(raw, e, n, a, b)
      BY <2>1, <3>1, <3>2, PartCases, EmptyIsNoTag
    <3>4. a \in (e + 1)..(n - 1)
      BY <3>3 DEF Ends
    <3> QED BY <1>1, <2>1, <3>1, <3>4
  <2>6. g[s + 1] = Listed(versions \cup g[e + 1].versions)
    <3>1. Continue(raw, versions, e, g) = Listed(versions \cup g[e + 1].versions)
      BY <1>11, <2>1, <2>4, <2>5, ContinueGoesOn DEF Reads
    <3> QED BY <1>8, <3>1
  <2>7. \A tag : HasTag(raw, cuts, s, tag) <=> Part(raw, s, e) = tag \/ HasTag(raw, cuts, e, tag)
    BY <1>4, <2>2, Zenon DEF HasTag
  <2>8. \A version \in 1..MaxVersion :
          version \in versions \cup g[e + 1].versions <=> HasTag(raw, cuts, s, ETag(version))
    BY <1>9, <2>4, <2>7, Zenon DEF Reads
  <2> QED BY <2>6, <2>8, ErrorsAreTold DEF Reads
<1> QED BY <1>10, <1>11

LEMMA LoopReadsAList ==
  ASSUME NEW raw \in Seq(Char), NEW g, LoopsAfter(raw, 0, g), NEW s \in 0..Len(raw),
         AgreesAfter(raw, s, g), NEW result, result = g[s + 1], Fine(result)
  PROVE  \E cuts : CutsOf(raw, cuts) /\ AllTags(raw, cuts, s)
<1>1. Len(raw) \in Nat /\ s \in Nat
  OBVIOUS
<1>2. PICK f : f = SkipBlank(raw, s + 1)
  OBVIOUS
<1>3. result = Turn(raw, f, g)
  BY <1>1, <1>2 DEF LoopsAfter
<1>4. IsQuoted(raw, f)
  BY <1>3, ErrorsAreTold DEF Turn
<1>5. PICK e \in (s + 1)..(Len(raw) + 1) : e = SkipBlank(raw, Close(raw, f) + 1)
  BY <1>2, <1>4, AfterTag
<1>6. result = Continue(raw, TagVersions(raw, f), e, g)
  BY <1>3, <1>4, <1>5 DEF Turn
<1>7. CASE e > Len(raw)
  <2>1. e = Len(raw) + 1 /\ e > s
    BY <1>1, <1>5, <1>7
  <2>2. PICK none : none = {} /\ CutsOf(raw, none)
    <3>1. CutsOf(raw, {})
      BY Zenon DEF CutsOf
    <3> QED BY <3>1, Zenon
  <2>a. NextCut(raw, none, s) = e
    BY <2>1, <2>2, NextCutIs
  <2>3. IsTag(Part(raw, s, e))
    <3>1. Boundary(raw, e)
      BY <2>1 DEF Boundary
    <3> QED BY <1>2, <1>4, <1>5, <3>1, TagPart DEF Scanned
  <2>4. AllTags(raw, none, s)
    BY <2>2, <2>a, <2>3 DEF AllTags, Starts, PartAt
  <2> QED BY <2>2, <2>4
<1>8. CASE ~(e > Len(raw))
  <2>1. raw[e] = Comma /\ e # Len(raw) /\ Fine(g[e + 1])
    <3>1. PICK versions : result = Continue(raw, versions, e, g)
      BY <1>6
    <3>2. ~(raw[e] = Comma /\ e # Len(raw) /\ Fine(g[e + 1])) => Continue(raw, versions, e, g) = Malformed
      BY <1>8, ContinueFails
    <3> QED BY <3>1, <3>2, ErrorsAreTold
  <2>2. e \in 0..Len(raw) /\ e \in 1..Len(raw) /\ e > s
    BY <1>1, <1>5, <1>8, <2>1
  <2>3. PICK rest : CutsOf(raw, rest) /\ AllTags(raw, rest, e)
    BY <2>1, <2>2 DEF Agrees, AgreesAfter
  <2>4. PICK cuts : cuts = {cut \in rest : cut > e} \cup {e}
    OBVIOUS
  <2>5. /\ \A cut \in rest : cut \in 1..Len(raw) /\ raw[cut] = Comma
        /\ \A cut \in cuts : cut \in 1..Len(raw) /\ raw[cut] = Comma
    BY <2>1, <2>2, <2>3, <2>4, Zenon DEF CutsOf
  <2>b. CutsOf(raw, cuts)
    BY <2>5 DEF CutsOf
  <2>6. NextCut(raw, cuts, s) = e
    <3>1. \A cut \in cuts : cut >= e
      BY <2>2, <2>4, <2>5
    <3>2. e \in cuts \cup {Len(raw) + 1}
      BY <2>4
    <3> QED BY <2>2, <2>b, <3>1, <3>2, NextCutIs
  <2>7. IsTag(Part(raw, s, e))
    <3>1. Boundary(raw, e)
      BY <2>1, <2>2 DEF Boundary, At
    <3> QED BY <1>2, <1>4, <1>5, <3>1, TagPart DEF Scanned
  <2>8. Starts(cuts, s) = {s} \cup Starts(rest, e)
    <3>1. Starts(cuts, s) = {s} \cup Starts(cuts, e)
      <4>1. e \in 0..(Len(raw) + 1) /\ e <= Len(raw)
        BY <1>1, <2>2
      <4> QED BY <2>6, <2>b, <4>1, StartsStep
    <3>2. \A cut : cut \in Starts(cuts, e) <=> cut \in Starts(rest, e)
      <4>1. ~(e > e)
        BY <2>2
      <4> QED BY <2>4, <4>1, Zenon DEF Starts
    <3> QED BY <3>1, <3>2
  <2>9. ASSUME NEW start \in Starts(rest, e) PROVE PartAt(raw, cuts, start) = PartAt(raw, rest, start)
    <3>1. start \in 0..Len(raw) /\ start >= e
      BY <2>2, <2>5 DEF Starts
    <3>2. \A cut \in cuts \cup rest \cup {Len(raw) + 1} : cut > start => cut > e
      BY <1>1, <2>2, <2>5, <3>1
    <3>3. ~(e > start)
      BY <2>2, <3>1
    <3>4. \A cut : cut \in {c \in cuts \cup {Len(raw) + 1} : c > start}
                     <=> cut \in {c \in rest \cup {Len(raw) + 1} : c > start}
      BY <2>4, <3>2, <3>3, Zenon
    <3>5. {c \in cuts \cup {Len(raw) + 1} : c > start} = {c \in rest \cup {Len(raw) + 1} : c > start}
      BY <3>4
    <3> QED BY <3>5 DEF PartAt, NextCut
  <2>10. AllTags(raw, cuts, s)
    <3> SUFFICES ASSUME NEW start \in Starts(cuts, s) PROVE IsTag(PartAt(raw, cuts, start))
      BY DEF AllTags
    <3>1. CASE start = s
      BY <2>6, <2>7, <3>1 DEF PartAt
    <3>2. CASE start \in Starts(rest, e)
      BY <2>3, <2>9, <3>2 DEF AllTags
    <3> QED BY <2>8, <3>1, <3>2
  <2> QED BY <2>b, <2>10
<1> QED BY <1>7, <1>8

LEMMA LoopAgrees ==
  ASSUME NEW raw \in Seq(Char), NEW g, LoopsAfter(raw, 0, g)
  PROVE  Agrees(raw, 0, g)
<1>1. PICK N \in Nat : N = Len(raw)
  OBVIOUS
<1> DEFINE T == {s \in 0..N : Agrees(raw, s, g)}
<1>2. ASSUME NEW s \in 0..N, \A r \in 0..N : r > s => r \in T PROVE s \in T
  <2>1. s \in 0..Len(raw) /\ AgreesAfter(raw, s, g)
    BY <1>1, <1>2 DEF AgreesAfter
  <2>2. ASSUME NEW cuts, CutsOf(raw, cuts), AllTags(raw, cuts, s)
        PROVE  Reads(raw, cuts, s, g[s + 1])
    BY <2>1, <2>2, ListIsRead
  <2>3. ASSUME Fine(g[s + 1]) PROVE \E cuts : CutsOf(raw, cuts) /\ AllTags(raw, cuts, s)
    BY <2>1, <2>3, LoopReadsAList
  <2> QED BY <2>2, <2>3 DEF Agrees
<1>3. 0 \in T
  <2> HIDE DEF T
  <2>1. 0..N \subseteq T
    BY <1>2, DownFrom
  <2> QED BY <2>1
<1> QED BY <1>3

-----------------------------------------------------------------------------
(* The whole header.                                                       *)

LEMMA WholeList ==
  ASSUME NEW raw \in Seq(Char), NEW cuts, CutsOf(raw, cuts)
  PROVE  /\ Starts(cuts, 0) = cuts \cup {0}
         /\ AllTags(raw, cuts, 0) <=> \A part \in Parts(raw, cuts) : IsTag(part)
         /\ \A tag : HasTag(raw, cuts, 0, tag) <=> tag \in Parts(raw, cuts)
<1>1. \A cut \in cuts : cut > 0
  <2>1. \A cut \in cuts : cut \in 1..Len(raw)
    BY DEF CutsOf
  <2>2. Len(raw) \in Nat
    OBVIOUS
  <2> QED BY <2>1, <2>2
<1>2. Starts(cuts, 0) = cuts \cup {0}
  <2>1. \A cut : cut \in Starts(cuts, 0) <=> cut \in cuts \cup {0}
    BY <1>1, Zenon DEF Starts
  <2> QED BY <2>1
<1>3. Parts(raw, cuts) = {PartAt(raw, cuts, start) : start \in Starts(cuts, 0)}
  BY <1>2 DEF Parts, PartAt
<1>4. AllTags(raw, cuts, 0) <=> \A part \in Parts(raw, cuts) : IsTag(part)
  BY <1>3, Zenon DEF AllTags
<1>5. \A tag : HasTag(raw, cuts, 0, tag) <=> tag \in Parts(raw, cuts)
  BY <1>3, Zenon DEF HasTag
<1> QED BY <1>2, <1>4, <1>5

LEMMA InLists ==
  ASSUME NEW raw \in Seq(Char), NEW list
  PROVE  list \in Lists(raw) <=> \E cuts : /\ CutsOf(raw, cuts) /\ AllTags(raw, cuts, 0)
                                           /\ list = Parts(raw, cuts)
<1>1. ASSUME list \in Lists(raw)
      PROVE  \E cuts : CutsOf(raw, cuts) /\ AllTags(raw, cuts, 0) /\ list = Parts(raw, cuts)
  <2>1. PICK cuts : cuts \in SUBSET Commas(raw) /\ list = Parts(raw, cuts) /\ \A part \in list : IsTag(part)
    BY <1>1, Zenon DEF Lists
  <2>2. CutsOf(raw, cuts)
    BY <2>1, CutsAreCommas, Zenon
  <2>3. AllTags(raw, cuts, 0)
    BY <2>1, <2>2, WholeList, Zenon
  <2> QED BY <2>1, <2>2, <2>3, Zenon
<1>2. ASSUME NEW cuts, CutsOf(raw, cuts), AllTags(raw, cuts, 0), list = Parts(raw, cuts)
      PROVE  list \in Lists(raw)
  <2>1. cuts \in SUBSET Commas(raw)
    BY <1>2, CutsAreCommas, Zenon
  <2>2. \A part \in list : IsTag(part)
    BY <1>2, WholeList, Zenon
  <2> QED BY <1>2, <2>1, <2>2, Zenon DEF Lists
<1> QED BY <1>1, <1>2, Zenon

LEMMA ResultFacts ==
  ASSUME NEW scanned
  PROVE  /\ ~Fine(scanned) => Result(scanned) = Invalid
         /\ Fine(scanned) =>
              Result(scanned) = Valid(IF scanned.versions = {} THEN {0} ELSE scanned.versions)
BY Zenon DEF Result, Fine

LEMMA ValidFacts ==
  ASSUME NEW versions
  PROVE  Valid(versions).error = "" /\ ~Valid(versions).any /\ Valid(versions).versions = versions
BY Zenon DEF Valid

(* versionPrecondition comes to what the grammar says, for every text.     *)
LEMMA EveryTextIsUnderstood ==
  ASSUME NEW raw \in Seq(Char)
  PROVE  Means(Precondition(raw), raw, Lists(raw))
<1>1. PICK g : LoopsAfter(raw, 0, g) /\ Scan(raw) = g[1]
  BY ScanUnrolled
<1>2. PICK scanned : scanned = Scan(raw) /\ scanned = g[0 + 1]
  <2>1. 0 + 1 = 1
    OBVIOUS
  <2> QED BY <1>1, <2>1
<1>3. Agrees(raw, 0, g)
  BY <1>1, LoopAgrees
<1>4. ASSUME NEW list \in Lists(raw) PROVE Lets(Result(scanned), list)
  <2>1. PICK cuts : CutsOf(raw, cuts) /\ AllTags(raw, cuts, 0) /\ list = Parts(raw, cuts)
    BY <1>4, InLists, Zenon
  <2>2. Reads(raw, cuts, 0, scanned)
    BY <1>2, <1>3, <2>1, Zenon DEF Agrees
  <2>3. \A version \in 1..MaxVersion : version \in scanned.versions <=> ETag(version) \in list
    BY <2>1, <2>2, WholeList, Zenon DEF Reads
  <2>4. PICK versions : versions = IF scanned.versions = {} THEN {0} ELSE scanned.versions
    OBVIOUS
  <2>5. Result(scanned) = Valid(versions)
    BY <2>2, <2>4, ResultFacts, Zenon DEF Reads
  <2>6. versions # {}
    BY <2>4, Zenon
  <2>7. \A version \in 1..MaxVersion : version \in versions <=> version \in scanned.versions
    <3>1. ASSUME NEW version \in 1..MaxVersion PROVE version # 0
      BY MaxVersionAssumption
    <3> QED BY <2>4, <3>1, Zenon
  <2>8. \A version \in 1..MaxVersion : version \in versions <=> ETag(version) \in list
    BY <2>3, <2>7, Zenon
  <2> QED BY <2>5, <2>6, <2>8, ValidFacts, Zenon DEF Lets
<1>5. ASSUME Lists(raw) = {} PROVE Result(scanned) = Invalid
  <2>1. ~Fine(scanned)
    <3> SUFFICES ASSUME Fine(scanned) PROVE FALSE
      OBVIOUS
    <3>1. PICK cuts : CutsOf(raw, cuts) /\ AllTags(raw, cuts, 0)
      BY <1>2, <1>3, Zenon DEF Agrees
    <3>2. Parts(raw, cuts) \in Lists(raw)
      BY <3>1, InLists, Zenon
    <3> QED BY <1>5, <3>2, Zenon
  <2> QED BY <2>1, ResultFacts, Zenon
<1>6. CASE raw = <<>>
  BY <1>6, Zenon DEF Means, Precondition
<1>7. CASE raw # <<>> /\ raw = <<"*">>
  BY <1>7, Zenon DEF Means, Precondition
<1>8. CASE raw # <<>> /\ raw # <<"*">>
  <2>1. Precondition(raw) = Result(scanned)
    BY <1>2, <1>8, Zenon DEF Precondition
  <2> QED BY <1>4, <1>5, <1>8, <2>1, Zenon DEF Means
<1> QED BY <1>6, <1>7, <1>8

(* The header is a text, however it was written.                           *)
HeaderInvariant == if_match \in Seq(Char)

LEMMA FragmentsAreTexts ==
  ASSUME NEW piece \in Fragments
  PROVE  piece \in Seq(Char)
<1>1. piece \in Seq(STRING)
  BY FragmentsAssumption
<1>2. \A i \in 1..Len(piece) : piece[i] \in Char
  <2>1. \A i \in 1..Len(piece) : piece[i] \in STRING
    BY <1>1
  <2> QED BY <2>1 DEF Char
<1>3. piece = [i \in 1..Len(piece) |-> piece[i]] /\ Len(piece) \in Nat
  BY <1>1
<1> QED BY <1>2, <1>3

LEMMA HeaderInvariantHolds == ISpec => []HeaderInvariant
<1>1. Init => HeaderInvariant
  BY DEF Init, HeaderInvariant
<1>2. HeaderInvariant /\ [Write]_hvars => HeaderInvariant'
  <2> SUFFICES ASSUME HeaderInvariant, [Write]_hvars PROVE HeaderInvariant'
    OBVIOUS
  <2>1. CASE Write
    <3>1. PICK piece \in Fragments : if_match' = if_match \o piece
      BY <2>1 DEF Write
    <3>2. piece \in Seq(Char)
      BY FragmentsAreTexts
    <3> QED BY <3>1, <3>2 DEF HeaderInvariant
  <2>2. CASE UNCHANGED hvars
    BY <2>2 DEF hvars, HeaderInvariant
  <2> QED BY <2>1, <2>2
<1> QED BY <1>1, <1>2, PTL DEF ISpec

(* versionPrecondition of internal/api/server.go, for headers of any       *)
(* length made of any pieces, and for every largest version: the scanner   *)
(* accepts exactly the well-formed lists of tags, and lets a version       *)
(* through exactly when the list holds the ETag that the server sends.     *)
THEOREM PreconditionUnderstood == ISpec => []PreconditionMeansItsTags
<1>1. HeaderInvariant => PreconditionMeansItsTags
  <2> SUFFICES ASSUME HeaderInvariant PROVE PreconditionMeansItsTags
    OBVIOUS
  <2>1. Trimmed(if_match) \in Seq(Char)
    BY TrimmedSeq DEF HeaderInvariant
  <2> QED BY <2>1, EveryTextIsUnderstood DEF PreconditionMeansItsTags, versionPrecondition
<1> QED BY <1>1, HeaderInvariantHolds, PTL
=============================================================================
