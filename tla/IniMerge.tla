------------------------------- MODULE IniMerge -------------------------------
(***************************************************************************)
(* merge_ini (ini_merge.py) as a function of the lines of a file and the   *)
(* values to set in it.  A name is <<what _normal makes of it, how it is   *)
(* written>>; lines that are neither a section nor an assignment are       *)
(* "other", or "blank".  A key stands at the margin of its line, after     *)
(* that much white space.                                                  *)
(*                                                                         *)
(* What the code writes for an entry need not be read back as that entry:  *)
(* its name may begin with white space, with a comment sign or like a      *)
(* section, and name and value may hold characters at which splitlines     *)
(* breaks.  So an entry has the lines as which its section and its         *)
(* assignment are read back.  The last of them is not blank.               *)
(*                                                                         *)
(* Each loop of the code is a function of how far it has come.             *)
(***************************************************************************)
EXTENDS Naturals, Sequences, SequencesExt

CONSTANTS
  Text,       \* what may be written within a line
  Hidden      \* the names that no key has at the margin of 0: those that begin with
              \* ";" or "#", and the empty one

Nowhere == "no section"     \* before the first section; no section is called None

ASSUME TextAssumption == "" \in Text /\ Nowhere \in Text

Name == (Text \ {Nowhere}) \X Text
Line == [kind : {"section", "key", "other", "blank"}, margin : Nat, name : Name, value : Text]
Item ==
  {e \in [section : Name, key : Name, title : Seq(Line), text : Seq(Line)] :
     \A lines \in {e.title, e.text} : lines # <<>> /\ Last(lines).kind # "blank"}

Section(n)       == [kind |-> "section", margin |-> 0, name |-> n, value |-> ""]
Assignment(n, v) == [kind |-> "key", margin |-> 0, name |-> n, value |-> v]
Other            == [kind |-> "other", margin |-> 0, name |-> <<"", "">>, value |-> ""]
Blank            == [kind |-> "blank", margin |-> 0, name |-> <<"", "">>, value |-> ""]

\* An entry that is read back as what it sets, and that anew each time.
Entry(s, k, v) == [section |-> s, key |-> k, title |-> <<Section(s)>>, text |-> <<Assignment(k, v)>>]

Normal(name) == name[1]

\* KEY_RE takes a comment sign for a part of the name only after white space, and
\* so all but one character of the margin for the indentation.
IsKey(line)  == line.kind = "key" /\ (Normal(line.name) \in Hidden => line.margin > 0)
Indent(line) == IF Normal(line.name) \in Hidden THEN line.margin - 1 ELSE line.margin

\* The lines of an entry that is written after n characters of indentation.
Indented(lines, n) == [lines EXCEPT ![1].margin = @ + n]

\* Read back as what it sets.
Readable(e) ==
  /\ e.title = <<Section(e.section)>>
  /\ Len(e.text) = 1 /\ IsKey(e.text[1]) /\ Normal(e.text[1].name) = Normal(e.key)

\* And written over itself without more indentation.
Steady(e) == Readable(e) /\ Indent(e.text[1]) = 0

-----------------------------------------------------------------------------
(* pending: a bucket for each section, a later value for a key replaces it *)

Same(e, f) == Normal(e.section) = Normal(f.section) /\ Normal(e.key) = Normal(f.key)

Put(pending, e) ==
  IF \E i \in DOMAIN pending : Same(pending[i], e)
    THEN [i \in DOMAIN pending |-> IF Same(pending[i], e) THEN e ELSE pending[i]]
    ELSE Append(pending, e)

Pending(updates) ==
  LET put[i \in 0 .. Len(updates)] == IF i = 0 THEN <<>> ELSE Put(put[i - 1], updates[i])
  IN put[Len(updates)]

-----------------------------------------------------------------------------
(* One pass over the lines: the section it is in, its output, the sections *)
(* and keys seen                                                           *)

Pass == [section : Text, output : Seq(Line), sections : SUBSET Text, keys : SUBSET (Text \X Text)]

Start == [section |-> Nowhere, output |-> <<>>, sections |-> {}, keys |-> {}]

Give(at, e, n) ==
  [at EXCEPT !.output = @ \o Indented(e.text, n),
             !.keys = @ \cup {<<at.section, Normal(e.key)>>}]

\* Mutant of Supply: keys are appended that an earlier section of the same name
\* has.
SupplyAgain(at, e) == IF Normal(e.section) = at.section THEN Give(at, e, 0) ELSE at

Supply(at, e) ==
  IF Normal(e.section) = at.section /\ <<at.section, Normal(e.key)>> \notin at.keys
    THEN Give(at, e, 0) ELSE at

\* append_missing, when a section ends.
AppendMissing(at, pending) ==
  LET supplied[i \in 0 .. Len(pending)] == IF i = 0 THEN at ELSE Supply(supplied[i - 1], pending[i])
  IN supplied[Len(pending)]

Copy(at, line) == [at EXCEPT !.output = Append(@, line)]

\* The line of a section, and the pass is in it.
Titled(at, line) ==
  [at EXCEPT !.output = Append(@, line), !.section = Normal(line.name),
             !.sections = @ \cup {Normal(line.name)}]

\* The section that an entry opens at the end of the file.
Headed(at, e) ==
  [at EXCEPT !.output = @ \o e.title, !.section = Normal(e.section),
             !.sections = @ \cup {Normal(e.section)}]

\* The entry that is to be set at a key line; there is at most one.
Mine(at, line, pending) ==
  {i \in DOMAIN pending : Normal(pending[i].section) = at.section /\ Normal(pending[i].key) = Normal(line.name)}

\* Mutant of Replace: a key which the file assigns twice is replaced once.
ReplaceFirst(at, line, pending) ==
  IF Mine(at, line, pending) = {} \/ <<at.section, Normal(line.name)>> \in at.keys THEN Copy(at, line)
  ELSE Give(at, pending[CHOOSE i \in Mine(at, line, pending) : TRUE], Indent(line))

\* The key as it is written in the settings, wherever the file has it, after the
\* indentation that the file gives it.
Replace(at, line, pending) ==
  IF Mine(at, line, pending) = {} THEN Copy(at, line)
  ELSE Give(at, pending[CHOOSE i \in Mine(at, line, pending) : TRUE], Indent(line))

\* Mutant of Take: empty lines are skipped.
TakeFull(at, line, pending) ==
  CASE line.kind = "section" -> Titled(AppendMissing(at, pending), line)
    [] IsKey(line)           -> Replace(at, line, pending)
    [] line.kind = "blank"   -> at
    [] OTHER                 -> Copy(at, line)

Take(at, line, pending) ==
  CASE line.kind = "section" -> Titled(AppendMissing(at, pending), line)
    [] IsKey(line)           -> Replace(at, line, pending)
    [] OTHER                 -> Copy(at, line)

Read(lines, pending) ==
  LET at[i \in 0 .. Len(lines)] == IF i = 0 THEN Start ELSE Take(at[i - 1], lines[i], pending)
  IN at[Len(lines)]

-----------------------------------------------------------------------------
(* Sections that the file does not have go to its end *)

Spaced(at) == IF at.output # <<>> /\ Last(at.output).kind # "blank" THEN Copy(at, Blank) ELSE at

\* Under the name of its first entry, after an empty line, with all its keys, of
\* which none was seen.
AddSection(at, e, pending) ==
  IF Normal(e.section) \in at.sections THEN at
  ELSE AppendMissing(Headed(Spaced(at), e), pending)

AddSections(at, updates, pending) ==
  LET added[i \in 0 .. Len(updates)] == IF i = 0 THEN at ELSE AddSection(added[i - 1], updates[i], pending)
  IN added[Len(updates)]

Merge(lines, updates) ==
  LET pending == Pending(updates)
  IN AddSections(AppendMissing(Read(lines, pending), pending), updates, pending).output
=============================================================================
