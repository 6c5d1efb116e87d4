------------------------------- MODULE Paging -------------------------------
(***************************************************************************)
(* The lists of runs and of events (internal/store/reads.go): a client     *)
(* asks for one page after the other while others write.  Both queries     *)
(* have the same form: rows that match the filter, by descending row       *)
(* number, below the cursor.  The filtered column of an event never        *)
(* changes; that of a run, its state, does, which is the harder case.      *)
(***************************************************************************)
EXTENDS Integers, Sequences, FiniteSets, SequencesExt

CONSTANTS
  Values,        \* what a row can be filtered by
  Limits,        \* the limits that a client may ask for; 0 when it gives none
  DefaultLimit,  \* 100
  MaxLimit,      \* 200
  MaxRows

ASSUME PagingAssumption ==
  /\ Limits \subseteq Int
  /\ {DefaultLimit, MaxLimit, MaxRows} \subseteq Nat \ {0}
  /\ DefaultLimit <= MaxLimit

VARIABLES
  rows,     \* row number -> the value it is filtered by
  client,   \* the client that lists
  steady    \* rows that matched its filter ever since it began

pvars == <<rows, client, steady>>

Idle == [pc |-> "idle"]
All == ""   \* no filter

Matches(value, filter) == filter \in {All, value}

-----------------------------------------------------------------------------
(* The server.                                                             *)

queryPageLimit(limit) ==
  IF limit = 0 THEN {DefaultLimit} ELSE {limit} \cap (1..MaxLimit)

encodeCursor(id) == <<"base64", id>>
decodeEventCursor(cursor) == IF cursor = <<>> THEN 0 ELSE cursor[2]

(* ORDER BY row number DESC.                                               *)
Descending(S) ==
  [i \in 1..Cardinality(S) |-> CHOOSE x \in S : Cardinality({y \in S : y > x}) = i - 1]

FoundBug(filter, cursor) ==
  LET below == decodeEventCursor(cursor)
  IN  Descending({i \in 1..Len(rows) : Matches(rows[i], filter) /\ (below > 0 => i <= below)})

(* Row numbers that match, the highest first.                              *)
Found(filter, cursor) ==
  LET below == decodeEventCursor(cursor)
  IN  Descending({i \in 1..Len(rows) : Matches(rows[i], filter) /\ (below > 0 => i < below)})

PageBug(found, limit) ==
  IF Len(found) > limit
  THEN [items |-> SubSeq(found, 1, limit), next |-> encodeCursor(found[limit + 1])]
  ELSE [items |-> found, next |-> <<>>]

EndlessPageBug(found, limit) ==
  IF Len(found) > limit
  THEN [items |-> SubSeq(found, 1, limit), next |-> encodeCursor(found[limit])]
  ELSE [items |-> found, next |-> encodeCursor(1)]

Page(found, limit) ==
  IF Len(found) > limit
  THEN [items |-> SubSeq(found, 1, limit), next |-> encodeCursor(found[limit])]
  ELSE [items |-> found, next |-> <<>>]

(* The query reads limit + 1 rows, to know whether there are more.         *)
List(filter, limit, cursor) ==
  LET found == Found(filter, cursor)
  IN  Page(SubSeq(found, 1, IF Len(found) <= limit THEN Len(found) ELSE limit + 1), limit)

-----------------------------------------------------------------------------
PInit == rows = <<>> /\ client = Idle /\ steady = {}

Insert(value) ==
  /\ Len(rows) < MaxRows
  /\ rows' = Append(rows, value)
  /\ UNCHANGED <<client, steady>>

Update(i, value) ==
  /\ rows' = [rows EXCEPT ![i] = value]
  /\ steady' = IF client # Idle /\ Matches(value, client.filter) THEN steady ELSE steady \ {i}
  /\ UNCHANGED client

Begin(filter, limit) ==
  /\ client = Idle
  /\ \E n \in queryPageLimit(limit) :
       client' = [pc |-> "listing", filter |-> filter, limit |-> n, cursor |-> <<>>, items |-> <<>>]
  /\ steady' = {i \in 1..Len(rows) : Matches(rows[i], filter)}
  /\ UNCHANGED rows

NextPage ==
  /\ client.pc = "listing"
  /\ LET page == List(client.filter, client.limit, client.cursor) IN
       client' = [client EXCEPT !.pc = IF page.next = <<>> THEN "done" ELSE "listing",
                                !.cursor = page.next,
                                !.items = @ \o page.items]
  /\ UNCHANGED <<rows, steady>>

End == client.pc = "done" /\ client' = Idle /\ steady' = {} /\ UNCHANGED rows

PNext ==
  \/ \E value \in Values : Insert(value)
  \/ \E i \in 1..Len(rows), value \in Values : Update(i, value)
  \/ \E filter \in Values \cup {All}, limit \in Limits : Begin(filter, limit)
  \/ NextPage \/ End

(* A client that lists goes on; nothing is assumed of the others.          *)
PSpec == PInit /\ [][PNext]_pvars /\ WF_pvars(NextPage)

-----------------------------------------------------------------------------
(* A row that is there when the client begins, and matches all the time,   *)
(* is in the list when it ends, whatever is inserted or changes meanwhile. *)
ListingIsComplete == client.pc = "done" => steady \subseteq ToSet(client.items)

(* No row is listed twice, and the order is by descending row number over  *)
(* all pages, also for rows that change between two pages.                 *)
ListingIsOrdered ==
  client # Idle => \A i \in 1..(Len(client.items) - 1) : client.items[i] > client.items[i + 1]

(* A listing ends, however many rows are written while it goes on.         *)
ListingEnds == client.pc = "listing" ~> client.pc = "done"
=============================================================================
