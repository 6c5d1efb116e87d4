--------------------------------- MODULE Auth ---------------------------------
(***************************************************************************)
(* The token file and the authorisation of requests: internal/auth/auth.go *)
(* and serve and require of internal/api/routes.go.  The file is read once *)
(* at startup; it may be replaced while the server runs (a rotated         *)
(* Secret), which takes effect at the next start.                          *)
(*                                                                         *)
(* A line of the file is blank, malformed (not exactly one JSON object) or *)
(* an object with a sequence of fields.  A text is an element of Texts;    *)
(* TrimSpace, Length and HasBlank say what the code looks at.  A SHA-256   *)
(* digest is represented by the text it is computed from.                  *)
(***************************************************************************)
EXTENDS Integers, Sequences, FiniteSets

CONSTANTS
  Texts,       \* texts of names, roles, tokens and credentials, "" among them
  TrimSpace,   \* strings.TrimSpace on those texts
  Length,      \* their length in bytes
  HasBlank,    \* the texts with a blank between other characters
  Lines,       \* lines a token file may have
  MaxLines,    \* most lines of a token file
  Routes,      \* routes: the method, the least role
  Headers,     \* Authorization headers
  NullValue,   \* JSON null
  OtherValue,  \* a JSON value that is neither a string nor null
  Nobody       \* no principal

ASSUME TextsAssumption ==
  /\ "" \in Texts /\ HasBlank \subseteq Texts
  /\ TrimSpace \in [Texts -> Texts] /\ Length \in [Texts -> Nat]

ASSUME LinesAssumption ==
  \A line \in Lines :
    /\ line.kind \in {"blank", "malformed", "object"}
    /\ line.fields \in Seq([key : STRING, value : Texts \cup {NullValue, OtherValue}])

ASSUME HeadersAssumption == \A header \in Headers : header.credential \in Texts

ASSUME NobodyAssumption == Nobody \notin [name : Texts, role : Texts]

VARIABLES
  file,      \* the mounted token file: its lines, and whether its mode is allowed
  loaded,    \* the file as it was when the server started
  process,   \* "new", then "up", "refused" (LoadFile failed) or "down"
  tokens,    \* Authenticator.tokens
  ready,     \* Server.ready
  answer     \* the last request and what became of it

avars == <<file, loaded, process, tokens, ready, answer>>

-----------------------------------------------------------------------------
maxTokenLen == 4096

maxNameLen == 200

isRole(role) == role \in {"reader", "operator", "admin"}

rank(role) ==
  CASE role = "admin" -> 3 [] role = "operator" -> 2 [] role = "reader" -> 1 [] OTHER -> 0

(* json.Unmarshal into a string: null leaves it empty.                     *)
Unmarshal(value) == IF value = NullValue THEN "" ELSE value

Keys(line) == {line.fields[i].key : i \in DOMAIN line.fields}

Field(line, key) ==
  LET i == CHOOSE i \in DOMAIN line.fields : line.fields[i].key = key
  IN  line.fields[i].value

(* decodeJSONObject: one object, no field twice.                           *)
decodeJSONObject(line) ==
  line.kind = "object" /\ Cardinality(Keys(line)) = Len(line.fields)

(* parseLine takes the line without error.                                 *)
Parses(line) ==
  /\ decodeJSONObject(line)
  /\ Keys(line) = {"name", "role", "token"}
  /\ \A key \in Keys(line) : Field(line, key) # OtherValue
  /\ isRole(Unmarshal(Field(line, "role")))
  /\ LET name == Unmarshal(Field(line, "name")) IN name # "" /\ name = TrimSpace[name]

parseLine(line) ==
  [name |-> Unmarshal(Field(line, "name")), role |-> Unmarshal(Field(line, "role")),
   value |-> Unmarshal(Field(line, "token"))]

(* add: the token is trimmed and within its limits, and no token before it *)
(* has its name or its value.                                              *)
AddableBug(known, t) ==
  /\ t.value = TrimSpace[t.value] /\ t.value # "" /\ Length[t.value] <= maxTokenLen
  /\ isRole(t.role)
  /\ t.name # "" /\ Length[t.name] <= maxNameLen
  /\ known = <<>> \/ LET last == known[Len(known)] IN last.name # t.name /\ last.value # t.value

Addable(known, t) ==
  /\ t.value = TrimSpace[t.value] /\ t.value # "" /\ Length[t.value] <= maxTokenLen
  /\ isRole(t.role)
  /\ t.name # "" /\ Length[t.name] <= maxNameLen
  /\ \A i \in DOMAIN known : known[i].name # t.name /\ known[i].value # t.value

(* LoadFile: line after line until the first error; at least one token.    *)
Reading(result, line) ==
  IF result.ok /\ line.kind # "blank"
  THEN IF Parses(line) /\ Addable(result.tokens, parseLine(line))
       THEN [result EXCEPT !.tokens = Append(@, parseLine(line))]
       ELSE [result EXCEPT !.ok = FALSE]
  ELSE result

ReadLines(f) ==
  LET read[n \in 0..Len(f.lines)] ==
        IF n = 0 THEN [ok |-> f.allowed, tokens |-> <<>>] ELSE Reading(read[n - 1], f.lines[n])
  IN  read

LoadFile(f) ==
  LET read == ReadLines(f)[Len(f.lines)]
  IN  [read EXCEPT !.ok = @ /\ read.tokens # <<>>]

-----------------------------------------------------------------------------
Require(principal, minimum) == rank(principal.role) >= rank(minimum)

(* Authenticate: the scheme is compared without case, the credential is    *)
(* trimmed and must not hold a blank, and the raw header is bounded.       *)
Authenticate(header) ==
  LET provided == TrimSpace[header.credential]
      found == {i \in DOMAIN tokens : tokens[i].value = provided}
  IN  IF /\ header.scheme \in {"Bearer", "bearer"}
         /\ Length[header.credential] <= maxTokenLen
         /\ provided # "" /\ provided \notin HasBlank
         /\ found # {}
      THEN LET i == CHOOSE i \in found : \A j \in found : i <= j
           IN  [name |-> tokens[i].name, role |-> tokens[i].role]
      ELSE Nobody

ServeBug(route, principal) ==
  IF principal = Nobody THEN "unauthorized"
  ELSE IF ~Require(principal, route.role) THEN "forbidden"
  ELSE IF ~ready /\ route.method = "POST" THEN "service_draining"
  ELSE "handled"

(* serve and require, in the order of their tests.  A server that main     *)
(* builds always has an authenticator and a store, so the two 503 answers  *)
(* for their absence cannot happen.                                        *)
Serve(route, principal) ==
  IF principal = Nobody THEN "unauthorized"
  ELSE IF ~ready /\ route.method \notin {"GET", "HEAD"} THEN "service_draining"
  ELSE IF ~Require(principal, route.role) THEN "forbidden"
  ELSE "handled"

-----------------------------------------------------------------------------
NoAnswer == [result |-> "none"]

AInit ==
  /\ file \in [allowed : BOOLEAN, lines : {<<>>}]
  /\ loaded = file
  /\ process = "new" /\ tokens = <<>> /\ ready = FALSE /\ answer = NoAnswer

(* An administrator writes the file before the first start.                *)
WriteLine ==
  /\ process = "new" /\ Len(file.lines) < MaxLines
  /\ \E line \in Lines : file' = [file EXCEPT !.lines = Append(@, line)]
  /\ loaded' = file'
  /\ UNCHANGED <<process, tokens, ready, answer>>

(* runServer loads the file and, if that fails, gives up.                  *)
Start ==
  /\ process \in {"new", "down"}
  /\ LET result == LoadFile(file)
     IN  /\ process' = IF result.ok THEN "up" ELSE "refused"
         /\ tokens' = IF result.ok THEN result.tokens ELSE <<>>
         /\ ready' = result.ok
  /\ loaded' = file
  /\ UNCHANGED <<file, answer>>

(* An administrator replaces the mounted file.                             *)
Rotate ==
  /\ process \in {"up", "refused"} /\ file = loaded
  /\ \E lines \in {<<line>> : line \in Lines} : file' = [allowed |-> TRUE, lines |-> lines]
  /\ UNCHANGED <<loaded, process, tokens, ready, answer>>

(* The pod is restarted: what was loaded is gone.                          *)
Restart ==
  /\ process \in {"up", "refused"}
  /\ process' = "down" /\ tokens' = <<>> /\ ready' = FALSE /\ answer' = NoAnswer
  /\ UNCHANGED <<file, loaded>>

(* SetReady(false) at the begin of a shutdown.                             *)
BeginDrain == process = "up" /\ ready /\ ready' = FALSE /\ answer' = NoAnswer
              /\ UNCHANGED <<file, loaded, process, tokens>>

Request(route, header) ==
  /\ process = "up"
  /\ LET principal == Authenticate(header)
     IN  answer' = [result |-> Serve(route, principal), principal |-> principal,
                    route |-> route, header |-> header]
  /\ UNCHANGED <<file, loaded, process, tokens, ready>>

ANext ==
  \/ WriteLine \/ Start \/ Rotate \/ Restart \/ BeginDrain
  \/ \E route \in Routes, header \in Headers : Request(route, header)

ASpec == AInit /\ [][ANext]_avars

-----------------------------------------------------------------------------
(* Properties *)

Records(f) == {i \in DOMAIN f.lines : f.lines[i].kind # "blank"}

(* The lines of a file that hold the credential of a header.               *)
Holders(f, header) ==
  {i \in Records(f) : parseLine(f.lines[i]).value = TrimSpace[header.credential]}

(* LoadFile reads the file line by line and compares each record with the  *)
(* ones before it, but whether the server comes up depends only on what    *)
(* the file says: its mode is allowed, every record is good by itself, no  *)
(* two records share a name or a token, in any order and at any distance,  *)
(* and there is at least one.                                              *)
LoadDecidesByContent ==
  process \in {"up", "refused"} =>
    (process = "up" <=>
       /\ loaded.allowed /\ Records(loaded) # {}
       /\ \A i \in Records(loaded) :
            /\ Parses(loaded.lines[i])
            /\ Addable(<<>>, parseLine(loaded.lines[i]))
       /\ \A i, j \in Records(loaded) :
            LET a == parseLine(loaded.lines[i])
                b == parseLine(loaded.lines[j])
            IN  i # j => a.name # b.name /\ a.value # b.value)

(* Every answer agrees with the file the server started from, whatever has *)
(* been mounted since: a handler runs only for the one record that holds   *)
(* the credential, with a role that covers the route's, and a draining     *)
(* server runs only reads; a caller is turned away with 401 only if no     *)
(* record holds the credential, or no header can carry it (its token holds *)
(* a blank, or the header is too long for the blanks around it), and with  *)
(* 403 only if its record's role is too low.                               *)
AnswersFollowTheFile ==
  answer # NoAnswer =>
    LET holders == Holders(loaded, answer.header)
        holder == parseLine(loaded.lines[CHOOSE i \in holders : TRUE])
        bearer == answer.header.scheme \in {"Bearer", "bearer"}
    IN  /\ Cardinality(holders) <= 1
        /\ answer.result = "unauthorized" <=>
             \/ ~bearer \/ holders = {} \/ holder.value \in HasBlank
             \/ Length[answer.header.credential] > maxTokenLen
        /\ answer.result # "unauthorized" =>
             /\ answer.principal = [name |-> holder.name, role |-> holder.role]
             /\ answer.result = "handled" =>
                  ready \/ answer.route.method \in {"GET", "HEAD"}
             /\ answer.result # "service_draining" =>
                  (answer.result = "handled" <=> rank(holder.role) >= rank(answer.route.role))
=============================================================================
