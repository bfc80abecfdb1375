----------------------------- MODULE BottleConfig ------------------------------
(***************************************************************************)
(* The menu item that hides the duplicate XInput controller: it edits one  *)
(* variable of a bottle's cxbottle.conf while CrossOver may edit the same  *)
(* file (crosspuck-app/src/bottle_config.rs).  There is no common lock:    *)
(* the new file is written beside the old one, the old one is read again,  *)
(* and a rename replaces it.                                               *)
(*                                                                         *)
(* A file is a sequence of lines and a version, which stands for the       *)
(* metadata that same_file_version compares: every write gives a new one.  *)
(* A line says what it means to the parser; quoting, spacing, comments and *)
(* line ends, which the code carries over, are left out.                   *)
(***************************************************************************)
EXTENDS Filtering, SequencesExt

CONSTANTS
  MaxLines,   \* bound on the lines of the first file
  MaxDevices, \* bound on the entries of an ignore list
  MaxVersion  \* bound on the writes to the file

ASSUME BoundsAssumption == MaxLines \in Nat /\ MaxDevices \in Nat \ {0} /\ MaxVersion \in Nat

\* Entries of SDL_GAMECONTROLLER_IGNORE_DEVICES: the device as this program
\* writes it, in another spelling, another device, and nothing between commas.
Ours    == {"0x05AC/0x0004", "0x5ac/0x4"}
Devices == Ours \cup {"other", ""}

\* The empty text is a list with one empty entry.
Values == UNION {[1..n -> Devices] : n \in 1..MaxDevices}

\* "environment" and "section" are headers; a "malformed" header is refused
\* wherever it stands, an "unsupported" line only among the environment
\* variables; "other" is a blank, a comment or another variable.
PlainLine == [kind : {"environment", "section", "malformed", "unsupported", "other"}]
IgnoreList(value) == [kind |-> "ignore", value |-> value]
Other == [kind |-> "other"]

Nothing == [lines |-> <<>>, version |-> 0]

VARIABLES
  file,      \* cxbottle.conf
  tpc,       \* where the main thread is in toggleDuplicateXInput
  wanted,    \* the state it wants
  original,  \* what it read before it wrote the temporary file
  raced      \* history: CrossOver wrote after the last look at the file

configVars == <<file, tpc, wanted, original, raced>>

-----------------------------------------------------------------------------
(* parse_config and update_config *)

Positions(lines, kind) == {i \in 1..Len(lines) : lines[i].kind = kind}

Headers(lines) ==
  Positions(lines, "environment") \cup Positions(lines, "section")

\* in_environment: the last header before line i opens the variables.
InEnvironment(lines, i) ==
  \E j \in Positions(lines, "environment") :
    j < i /\ \A k \in Headers(lines) : k <= j \/ k > i

Settings(lines) == {i \in Positions(lines, "ignore") : InEnvironment(lines, i)}

AtMostOne(S) == \A i, j \in S : i = j

\* parse_config returns Ok.
Parses(lines) ==
  /\ Positions(lines, "malformed") = {}
  /\ AtMostOne(Positions(lines, "environment"))
  /\ \A i \in Positions(lines, "unsupported") : ~InEnvironment(lines, i)
  /\ AtMostOne(Settings(lines))

Hides(value) == \E i \in 1..Len(value) : value[i] \in Ours

\* duplicate_xinput_hidden
Hidden(lines) == \E i \in Settings(lines) : Hides(lines[i].value)

Appended(value) == IF value = <<"">> THEN <<"0x05AC/0x0004">>
                   ELSE Append(value, "0x05AC/0x0004")

Joined(value) == IF value = <<>> THEN <<"">> ELSE value

\* Fault: only the entry as this program writes it is removed.
RemovedExactly(value) == Joined(Without(value, {"0x05AC/0x0004"}))

\* All spellings of the device, and no other entry.
Removed(value) == Joined(Without(value, Ours))

\* Below the header of the environment variables, or in a section of its own.
Inserted(lines) ==
  LET line == IgnoreList(<<"0x05AC/0x0004">>)
  IN  IF Positions(lines, "environment") # {}
      THEN InsertAt(lines, 1 + CHOOSE i \in Positions(lines, "environment") : TRUE, line)
      ELSE lines \o (IF lines = <<>> THEN <<>> ELSE <<Other>>)
                 \o <<[kind |-> "environment"], line>>

UpdateConfig(lines, hidden) ==
  IF Hidden(lines) = hidden THEN lines
  ELSE IF Settings(lines) = {} THEN Inserted(lines)
  ELSE LET i == CHOOSE i \in Settings(lines) : TRUE
       IN  [lines EXCEPT ![i].value = IF hidden THEN Appended(@) ELSE Removed(@)]

-----------------------------------------------------------------------------
(* The menu item and CrossOver *)

ConfigInit ==
  /\ \E n \in 0..MaxLines :
       \E lines \in [1..n -> PlainLine \cup {IgnoreList(<<d>>) : d \in Devices}] :
       file = [lines |-> lines, version |-> 0]
  /\ tpc = "idle"
  /\ wanted = FALSE
  /\ original = Nothing
  /\ raced = FALSE

\* The menu item's handler returns; its locals are gone.
Return ==
  /\ tpc' = "idle" /\ wanted' = FALSE /\ original' = Nothing /\ raced' = FALSE

\* duplicate_xinput_hidden: a file that does not parse ends the attempt.
Toggle ==
  /\ tpc = "idle" /\ file.version < MaxVersion
  /\ Parses(file.lines)
  /\ wanted' = ~Hidden(file.lines)
  /\ tpc' = "read"
  /\ UNCHANGED <<file, original, raced>>

\* set_duplicate_xinput_hidden reads the file anew and may find nothing to do.
ReadOriginal ==
  /\ tpc = "read"
  /\ IF Parses(file.lines) /\ UpdateConfig(file.lines, wanted) # file.lines
     THEN tpc' = "write" /\ original' = file /\ UNCHANGED <<wanted, raced>>
     ELSE Return
  /\ UNCHANGED file

\* atomic_save: a new file with the permissions of the old one, synced.
WriteTemporary ==
  /\ tpc = "write"
  /\ tpc' = "recheck"
  /\ UNCHANGED <<file, wanted, original, raced>>

\* Fault: the file is not read again.
RecheckNothing ==
  /\ tpc = "recheck"
  /\ tpc' = "replace"
  /\ UNCHANGED <<file, wanted, original, raced>>

Recheck ==
  /\ tpc = "recheck"
  /\ IF file = original THEN tpc' = "replace" /\ UNCHANGED <<wanted, original, raced>>
     ELSE Return
  /\ UNCHANGED file

Replace ==
  /\ tpc = "replace"
  /\ file' = [lines |-> UpdateConfig(original.lines, wanted), version |-> file.version + 1]
  /\ Return

\* A step on the file system fails, or the process ends: the temporary file
\* is removed or keeps a name that is not used again.
Abandon ==
  /\ tpc \in {"read", "write", "recheck", "replace"}
  /\ Return
  /\ UNCHANGED file

\* CrossOver adds or removes a line, changes the list, or rewrites the file
\* as it was.
Edits(lines) ==
  {lines, Append(lines, Other)}
    \cup {SubSeq(lines, 1, n) : n \in {Len(lines) - 1} \cap Nat}
    \cup {[lines EXCEPT ![i].value = v] : i \in Positions(lines, "ignore"), v \in Values}

CrossOverEdits ==
  /\ file.version < MaxVersion
  /\ \E lines \in Edits(file.lines) :
       file' = [lines |-> lines, version |-> file.version + 1]
  /\ raced' = (tpc = "replace")
  /\ UNCHANGED <<tpc, wanted, original>>

ConfigNext ==
  \/ Toggle \/ ReadOriginal \/ WriteTemporary \/ Recheck \/ Replace \/ Abandon
  \/ CrossOverEdits

ConfigSpec == ConfigInit /\ [][ConfigNext]_configVars

-----------------------------------------------------------------------------
(* Properties *)

\* What replaces the file is an edit of the file as it is at that moment,
\* unless CrossOver wrote between the last look and the rename, the window
\* that the comment at atomic_save concedes.
ObservedEditsKept ==
  [][(tpc = "replace" /\ tpc' = "idle" /\ file' # file /\ ~raced)
       => file'.lines = UpdateConfig(file.lines, wanted)]_file

OtherDevices(value) == Without(value, Ours \cup {""})

\* With one list, only its entries for this device change.
ListEdited(lines, updated) ==
  \E i \in Settings(lines) :
    /\ OtherDevices(updated[i].value) = OtherDevices(lines[i].value)
    /\ [updated EXCEPT ![i] = lines[i]] = lines

\* Without one, lines were inserted at one place.
LinesInserted(lines, updated) ==
  \E at \in 0..Len(lines), n \in 1..3 :
    SubSeq(updated, 1, at) \o SubSeq(updated, at + n + 1, Len(updated)) = lines

\* The edited file is one that the parser accepts, the edit has the wanted
\* effect and touches nothing else, and hiding is undone by showing.
Surgical(lines, hidden) ==
  LET updated == UpdateConfig(lines, hidden)
  IN  /\ Parses(updated)
      /\ Hidden(updated) = hidden
      /\ \/ updated = lines
         \/ ListEdited(lines, updated)
         \/ Settings(lines) = {} /\ LinesInserted(lines, updated)
      /\ (hidden /\ ~Hidden(lines) /\ Settings(lines) # {})
           => UpdateConfig(updated, FALSE) = lines

\* The edit of every file that the parser accepts.
EditIsSurgical ==
  Parses(file.lines) => \A hidden \in BOOLEAN : Surgical(file.lines, hidden)
=============================================================================
