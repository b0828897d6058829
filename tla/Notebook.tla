------------------------------ MODULE Notebook ------------------------------
(***************************************************************************)
(* The text files MEMORY.md and USER.md that the memory_md tool edits      *)
(* (tools/memory_md.rs).  Turns, subagents and background reviews of one   *)
(* workspace call it side by side and nothing locks the file.              *)
(*                                                                         *)
(* Of a text its length is kept.  Which texts an edit finds and leaves is  *)
(* up to the model that asks for it, so any length that an edit can leave  *)
(* it may leave.                                                           *)
(***************************************************************************)
EXTENDS Naturals, FiniteSets

CONSTANTS
  Editors,    \* callers
  Sizes,      \* lengths of the entries they add
  FileLimit,  \* memory_char_limit or user_char_limit
  MaxEdits    \* bound of the model: edits begun

ASSUME NotebookAssumption ==
  Sizes \subseteq Nat /\ FileLimit \in Nat /\ MaxEdits \in Nat

VARIABLES
  file,      \* length of the text, 0 also without a file
  edit,      \* what each call has read and is about to do
  edits,     \* edits begun
  shortened  \* history: an add has measured a shorter text than it had read

noteVars == <<file, edit, edits, shortened>>

NoEdit == [op |-> "idle"]
NotebookInit ==
    /\ file = 0 /\ edit = [e \in Editors |-> NoEdit] /\ edits = 0
    /\ shortened = FALSE

Delimiter == 4
With(text, size) == IF text = 0 THEN size ELSE text + Delimiter + size

BeginEdit(e, next) ==
    /\ edits < MaxEdits /\ edit[e] = NoEdit
    /\ edit' = [edit EXCEPT ![e] = next]
    /\ edits' = edits + 1
    /\ UNCHANGED <<file, shortened>>

(* memory_md add: the entries are read, then the length is, then the       *)
(* entries are written with the new one.  One that is there is refused; a  *)
(* text of blanks has no entries.                                          *)
AddRead(e, size) ==
    \E seen \in {0, file} : BeginEdit(e, [op |-> "measure", size |-> size, seen |-> seen])

(* A slip: the delimiter is forgotten. *)
NewLengthBare(size) == file + size
NewLength(size) == With(file, size)
AddMeasure(e) ==
    /\ edit[e].op = "measure"
    /\ edit' = [edit EXCEPT ![e] =
                  IF NewLength(@.size) > FileLimit THEN NoEdit
                  ELSE [op |-> "write", text |-> With(@.seen, @.size)]]
    /\ shortened' = (shortened \/ file < edit[e].seen)
    /\ UNCHANGED <<file, edits>>

\* replace is refused when the result is too long; nothing is found in an empty file
\* but an empty old text.
ReplaceRead(e) ==
    \E n \in 0..FileLimit : BeginEdit(e, [op |-> "write", text |-> n])

\* remove takes the text out, collapses delimiters and trims; it is never too long.
RemoveRead(e) ==
    /\ file > 0
    /\ \E n \in 0..file : BeginEdit(e, [op |-> "write", text |-> n])

(* tokio::fs::write truncates and then writes from the start; of two that  *)
(* meet the longer text shows behind the end of the shorter.               *)
EditTruncate(e) ==
    /\ edit[e].op = "write"
    /\ file' = 0
    /\ edit' = [edit EXCEPT ![e].op = "writing"]
    /\ UNCHANGED <<edits, shortened>>

EditWrite(e) ==
    /\ edit[e].op = "writing"
    /\ file' = IF edit[e].text < file THEN file ELSE edit[e].text
    /\ edit' = [edit EXCEPT ![e] = NoEdit]
    /\ UNCHANGED <<edits, shortened>>

NotebookNext ==
    \E e \in Editors :
       \/ \E size \in Sizes : AddRead(e, size)
       \/ AddMeasure(e) \/ ReplaceRead(e) \/ RemoveRead(e) \/ EditTruncate(e) \/ EditWrite(e)

NotebookSpec == NotebookInit /\ [][NotebookNext]_noteVars
-----------------------------------------------------------------------------
(* The text file keeps to its limit (memory_md: "Files have strict         *)
(* character limits") however adds, replaces, removes and half done writes *)
(* meet, with one exception: an add reads the entries and then the length, *)
(* and when the file was shortened or truncated in between, it writes what *)
(* it had read in spite of the limit.                                      *)
FileWithinLimit == file <= FileLimit \/ shortened
=============================================================================
