------------------------------- MODULE IfMatch -------------------------------
(***************************************************************************)
(* The If-Match header: versionPrecondition of internal/api/server.go      *)
(* scans the trimmed header from left to right, and its result is compared *)
(* with the grammar of a list of entity tags.  A header is a sequence of   *)
(* one-character strings.                                                  *)
(***************************************************************************)
EXTENDS Integers, Sequences, SequencesExt, FiniteSetsExt

CONSTANTS
  Fragments,     \* pieces of header text the enumerated headers are made of
  MaxFragments,  \* most pieces of one header
  MaxVersion     \* the largest version, math.MaxInt64 in the code

ASSUME FragmentsAssumption == \A piece \in Fragments : piece \in Seq(STRING)

ASSUME MaxVersionAssumption == MaxVersion \in Nat \ {0}

VARIABLES
  if_match, \* the text of the header, its values joined by ","
  written   \* the number of pieces it was made of

hvars == <<if_match, written>>

-----------------------------------------------------------------------------
Quote == "\""

Blank == {" ", "\t"}

Digits == <<"0", "1", "2", "3", "4", "5", "6", "7", "8", "9">>

(* The characters that a tag may hold are all but the quote, the blanks    *)
(* and the control characters, here "DEL".                                 *)
IsTagChar(char) == char \notin Blank \cup {Quote, "DEL"}

Trimmed(text) ==
  LET solid == {i \in DOMAIN text : text[i] \notin Blank}
  IN  IF solid = {} THEN <<>> ELSE SubSeq(text, Min(solid), Max(solid))

(* strconv.ParseInt: the value of a text of digits that is in range.  The  *)
(* sign is left out: a signed text never formats back to itself as a       *)
(* positive number.                                                        *)
NotANumber == -1

Value(char) == (CHOOSE d \in DOMAIN Digits : Digits[d] = char) - 1

Number(text) ==
  LET value[n \in 0..Len(text)] == IF n = 0 THEN 0 ELSE 10 * value[n - 1] + Value(text[n])
  IN  value[Len(text)]

ParseInt(text) ==
  IF text # <<>> /\ Range(text) \subseteq Range(Digits) /\ Number(text) <= MaxVersion
  THEN Number(text) ELSE NotANumber

(* strconv.FormatInt *)
FormatInt(number) ==
  LET digits[n \in 0..number] ==
        IF n < 10 THEN <<Digits[n + 1]>> ELSE Append(digits[n \div 10], Digits[(n % 10) + 1])
  IN  digits[number]

(* The version a strong tag stands for, as a set with at most one member.  *)
VersionsOfBug(opaque) == {ParseInt(opaque)} \ {NotANumber, 0}

VersionsOf(opaque) ==
  {version \in {ParseInt(opaque)} \ {NotANumber, 0} : FormatInt(version) = opaque}

-----------------------------------------------------------------------------
(* The scanner.  Positions are 1..Len(raw) + 1.                            *)

Required == [error |-> "if_match_required", any |-> FALSE, versions |-> {}]

Invalid == [error |-> "invalid_if_match", any |-> FALSE, versions |-> {}]

Anything == [error |-> "", any |-> TRUE, versions |-> {}]

Valid(versions) == [error |-> "", any |-> FALSE, versions |-> versions]

(* The first of some positions, or the end of the text.                    *)
FirstOf(raw, positions) == Min(positions \cup {Len(raw) + 1})

SkipBlank(raw, offset) == FirstOf(raw, {i \in offset..Len(raw) : raw[i] \notin Blank})

SkipTagChars(raw, offset) == FirstOf(raw, {i \in offset..Len(raw) : ~IsTagChar(raw[i])})

At(raw, offset, char) == offset <= Len(raw) /\ raw[offset] = char

(* One turn of the loop: the tag that is looked for from offset on, with   *)
(* its opening and its closing quote, and what follows it.                 *)
IsWeak(raw, first) == At(raw, first, "W") /\ At(raw, first + 1, "/")

Open(raw, first) == IF IsWeak(raw, first) THEN first + 2 ELSE first

Close(raw, first) == SkipTagChars(raw, Open(raw, first) + 1)

IsQuoted(raw, first) ==
  At(raw, Open(raw, first), Quote) /\ At(raw, Close(raw, first), Quote)

TagVersions(raw, first) ==
  IF IsWeak(raw, first) THEN {}
  ELSE VersionsOf(SubSeq(raw, Open(raw, first) + 1, Close(raw, first) - 1))

(* The loop: a comma leads to the next tag, and the text ends with a tag.  *)
Malformed == [error |-> "invalid_if_match", versions |-> {}]

Listed(versions) == [error |-> "", versions |-> versions]

Continue(raw, versions, next, loop) ==
  IF next > Len(raw) THEN Listed(versions)
  ELSE IF raw[next] # "," \/ next = Len(raw) \/ loop[next + 1].error # "" THEN Malformed
  ELSE Listed(versions \cup loop[next + 1].versions)

Turn(raw, first, loop) ==
  IF ~IsQuoted(raw, first) THEN Malformed
  ELSE Continue(raw, TagVersions(raw, first), SkipBlank(raw, Close(raw, first) + 1), loop)

Scan(raw) ==
  LET loop[offset \in 1..(Len(raw) + 1)] == Turn(raw, SkipBlank(raw, offset), loop)
  IN  loop[1]

(* A list without a version of Lazarus is valid and matches nothing: no    *)
(* row has version 0.                                                      *)
Result(scanned) ==
  IF scanned.error # "" THEN Invalid
  ELSE IF scanned.versions = {} THEN Valid({0})
  ELSE Valid(scanned.versions)

Precondition(raw) ==
  IF raw = <<>> THEN Required
  ELSE IF raw = <<"*">> THEN Anything
  ELSE Result(Scan(raw))

versionPrecondition(text) == Precondition(Trimmed(text))

-----------------------------------------------------------------------------
(* The headers a client may send, built one fragment after the other.      *)
Init == if_match = <<>> /\ written = 0

Write ==
  /\ written < MaxFragments
  /\ \E piece \in Fragments : if_match' = if_match \o piece
  /\ written' = written + 1

ISpec == Init /\ [][Write]_hvars

-----------------------------------------------------------------------------
(* Reference: the grammar of the header.  A text is a list of tags when it *)
(* can be cut at some of its commas into parts that are one tag each.      *)

IsStrongTag(text) ==
  /\ Len(text) >= 2 /\ text[1] = Quote /\ Last(text) = Quote
  /\ \A i \in 2..(Len(text) - 1) : IsTagChar(text[i])

IsTag(text) ==
  \/ IsStrongTag(text)
  \/ IsPrefix(<<"W", "/">>, text) /\ IsStrongTag(SubSeq(text, 3, Len(text)))

Part(raw, start, end) == Trimmed(SubSeq(raw, start + 1, end - 1))

NextCut(raw, cuts, start) == Min({cut \in cuts \cup {Len(raw) + 1} : cut > start})

Parts(raw, cuts) == {Part(raw, start, NextCut(raw, cuts, start)) : start \in cuts \cup {0}}

Commas(raw) == {i \in DOMAIN raw : raw[i] = ","}

Lists(raw) ==
  {parts \in {Parts(raw, cuts) : cuts \in SUBSET Commas(raw)} : \A part \in parts : IsTag(part)}

(* The server's own tag for a version (setETag).                           *)
ETag(version) == <<Quote>> \o FormatInt(version) \o <<Quote>>

(* What a list of tags must come to.                                       *)
Lets(result, list) ==
  /\ result.error = "" /\ ~result.any /\ result.versions # {}
  /\ \A version \in 1..MaxVersion : version \in result.versions <=> ETag(version) \in list

(* What the header must come to, given the lists it can be cut into.       *)
Means(result, raw, lists) ==
  IF raw = <<>> THEN result = Required
  ELSE IF raw = <<"*">> THEN result = Anything
  ELSE IF lists = {} THEN result = Invalid
  ELSE \A list \in lists : Lets(result, list)

(* versionPrecondition: a write is let through for a version exactly when  *)
(* the header is "*" or a well-formed list that holds the ETag the server  *)
(* sends for that version.  A weak tag, a number with a leading zero or    *)
(* out of range, and a number that is only a part of a tag never match;    *)
(* an absent header and a malformed one are told apart from a mismatch.    *)
PreconditionMeansItsTags ==
  Means(versionPrecondition(if_match), Trimmed(if_match), Lists(Trimmed(if_match)))
=============================================================================
