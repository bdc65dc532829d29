------------------------------ MODULE UnifiedDiff ------------------------------
(***************************************************************************)
(* What `git diff' prints for a change, and what parse_unified makes of it: *)
(* the lines of the new side on which a comment may be placed.  A change is *)
(* a sequence of files with their hunks; Text prints it line by line, and   *)
(* ParseUnified reads those lines with the parser's prefix tests, in its   *)
(* order.                                                                  *)
(***************************************************************************)
EXTENDS Naturals, Sequences, SequencesExt

CONSTANT Paths

NoPath  == "none"
DevNull == "/dev/null"

ASSUME PathsAssumption == NoPath \notin Paths /\ DevNull \notin Paths

\* A printed line.  `path' is a header's path; on a line of a hunk it is what
\* follows `-- ' or `++ ' at the beginning of the line's text, if it starts so.
Line(mark, path)   == [mark |-> mark, path |-> path, old |-> 0, new |-> 0]
HunkLine(old, new) == [mark |-> "@@", path |-> NoPath, old |-> old, new |-> new]

BodyMarks == {"+", "-", " ", "\\"}
BodyLines == {Line(m, p) : m \in BodyMarks, p \in Paths \cup {NoPath, DevNull}}

\* A file that is added has no path on the old side, a deleted one none on the new.
Sides     == Paths \cup {DevNull}
FileDiffs ==
    {file \in [old : Sides, new : Sides,
               hunks : Seq([old : Nat, new : Nat, body : Seq(BodyLines)])] :
        file.old # DevNull \/ file.new # DevNull}

\* The path by which a file of the change goes.
Path(file) == IF file.new = DevNull THEN file.old ELSE file.new

\* The two sides are printed if there is a hunk.
Header(file) ==
    <<Line("git", Path(file))>>
    \o (IF file.old # file.new /\ DevNull \notin {file.old, file.new}
        THEN <<Line("rename-from", file.old), Line("rename-to", file.new)>> ELSE <<>>)
    \o (IF file.hunks # <<>>
        THEN <<Line("---", file.old), Line("+++", file.new)>> ELSE <<>>)

Hunks(file) ==
    FlattenSeq([h \in 1..Len(file.hunks) |->
        <<HunkLine(file.hunks[h].old, file.hunks[h].new)>> \o file.hunks[h].body])

Text(change) == FlattenSeq([i \in 1..Len(change) |-> Header(change[i]) \o Hunks(change[i])])

-------------------------------------------------------------------------------
(* parse_unified.                                                         *)

\* `---' and `+++' are looked for everywhere, before a hunk's own lines.
Reads(line) ==
    CASE line.mark = "-" /\ line.path # NoPath -> "---"
      [] line.mark = "+" /\ line.path # NoPath -> "+++"
      [] OTHER -> line.mark

NoFile == [old |-> NoPath, new |-> NoPath, hunks |-> <<>>]

\* The parser: the files read, the one being read, whether it has a hunk, and
\* the numbers of the next line.
Parsing == [files |-> <<>>, file |-> NoFile, open |-> FALSE, old |-> 0, new |-> 0]

AddLine(hunks, line) == [hunks EXCEPT ![Len(hunks)] = Append(@, line)]

Keep(p) == IF p.file = NoFile THEN p.files ELSE Append(p.files, p.file)

\* Mutant of BodyLine: the note on a missing newline counts as a line.
BodyLineCountsNotes(p, mark) ==
    LET old == IF mark # "+" THEN p.old ELSE 0
        new == IF mark # "-" THEN p.new ELSE 0
    IN  [p EXCEPT !.file.hunks = AddLine(@, [mark |-> mark, old |-> old, new |-> new]),
                  !.old = IF mark # "+" THEN @ + 1 ELSE @,
                  !.new = IF mark # "-" THEN @ + 1 ELSE @]

\* A line of a hunk has a number on the sides it is on; 0 stands for none.
BodyLine(p, mark) ==
    IF mark = "\\" THEN p
    ELSE LET old == IF mark # "+" THEN p.old ELSE 0
             new == IF mark # "-" THEN p.new ELSE 0
         IN  [p EXCEPT !.file.hunks = AddLine(@, [mark |-> mark, old |-> old, new |-> new]),
                       !.old = IF mark # "+" THEN @ + 1 ELSE @,
                       !.new = IF mark # "-" THEN @ + 1 ELSE @]

ReadLine(p, line) ==
    LET reads == Reads(line) IN
    IF reads = "git"
    THEN [Parsing EXCEPT !.files = Keep(p),
                         !.file = [old |-> line.path, new |-> line.path, hunks |-> <<>>]]
    ELSE IF p.file = NoFile THEN p
    ELSE CASE reads \in {"rename-from", "---"} ->
                IF line.path = DevNull THEN p ELSE [p EXCEPT !.file.old = line.path]
           [] reads \in {"rename-to", "+++"} ->
                IF line.path = DevNull THEN p ELSE [p EXCEPT !.file.new = line.path]
           [] reads = "@@" -> [p EXCEPT !.file.hunks = Append(@, <<>>), !.open = TRUE,
                                        !.old = line.old, !.new = line.new]
           [] OTHER -> IF p.open THEN BodyLine(p, reads) ELSE p

\* The parser after a text, from p.
ReadAll(p, text) ==
    LET at[n \in 0..Len(text)] == IF n = 0 THEN p ELSE ReadLine(at[n - 1], text[n])
    IN  at[Len(text)]

ParseUnified(text) == Keep(ReadAll(Parsing, text))

\* DiffSet::file: the first file that has, or had, this path.
FilesAt(files, path) == {i \in DOMAIN files : path \in {files[i].new, files[i].old}}

\* DiffSet::head_side_lines.
NewNumbers(lines) == {lines[i].new : i \in {j \in DOMAIN lines : lines[j].mark # "-"}}

HeadSideLines(files, path) ==
    LET at == FilesAt(files, path)
    IN  IF at = {} THEN {}
        ELSE UNION {NewNumbers(lines) : lines \in Range(files[Min(at)].hunks)}

-------------------------------------------------------------------------------
(* What the change really is.                                             *)

\* The line numbers that a hunk's lines have in the new file.
RealNumbers(hunk) ==
    LET there == {j \in DOMAIN hunk.body : hunk.body[j].mark \in {"+", " "}}
    IN  {hunk.new + Cardinality({j \in there : j < i}) : i \in there}

RealLines(file) == UNION {RealNumbers(hunk) : hunk \in Range(file.hunks)}

\* An added line whose text begins with `++ ' looks like the header of a file.
Misread(file) ==
    \E h \in DOMAIN file.hunks : \E i \in DOMAIN file.hunks[h].body :
        Reads(file.hunks[h].body[i]) = "+++"

\* The paths that a file has, had, or seems to have from the text of a line.
SeemsAt(file) ==
    {file.old, file.new}
    \cup UNION {{line.path : line \in Range(hunk.body)} : hunk \in Range(file.hunks)}

\* DiffSet::file finds an earlier file than the i-th.
Shadowed(change, i) == \E j \in 1..(i - 1) : Path(change[i]) \in SeemsAt(change[j])
===============================================================================
