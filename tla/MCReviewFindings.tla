---------------------------- MODULE MCReviewFindings ----------------------------
(* Small instances of ReviewFindings.                                     *)
EXTENDS ReviewFindings

Entry(s, p) == [status |-> s, posted |-> p]

\* A candidate is on line 1, or from line 2 to 3.  One change has line 1, the other
\* both first lines.
Simple(body) ==
    <<[old |-> File, new |-> File, hunks |-> <<[old |-> 1, new |-> 1, body |-> body]>>]>>
OneLine  == Simple(<<Line("+", NoPath)>>)
TwoLines == Simple(<<Line("+", NoPath), Line(" ", NoPath)>>)

TwoSpans  == {<<1, 1>>, <<2, 3>>}

\* What a state may say of the first finding, and of the second; the third is new.
First   == {Untracked, Entry("open", TRUE), Entry("open", FALSE),
            Entry("uncertain", TRUE), Entry("resolved", TRUE)}
Second  == {Untracked, Entry("open", TRUE)}
Known   == {<<e1, e2, Untracked>> : e1 \in First, e2 \in Second}
Nothing == [f \in Findings |-> Untracked]

\* Changes of one or two files with no hunk, one or two, renamed, added, deleted or
\* neither.
Body        == {Line(m, NoPath) : m \in BodyMarks}
Headerlike  == {Line("+", "G"), Line("-", "G"), Line("-", File)}
LongBodies  == UNION {[1..n -> Body \cup Headerlike] : n \in 1..3}
ShortBodies == {<<Line(" ", NoPath), b>> : b \in Body \cup {Line("+", File)}}
OneFile(old, h) == [old |-> old, new |-> File, hunks |-> h]
Hunk(n, b)      == [old |-> n, new |-> n, body |-> b]
Changes ==
    {<<OneFile(File, <<Hunk(1, b), Hunk(7, c)>>)>> : b \in LongBodies, c \in ShortBodies}
    \cup {<<[old |-> o, new |-> "A", hunks |-> <<Hunk(3, c)>>], OneFile(File, <<Hunk(2, b)>>)>> :
              o \in {File, "A"}, b \in LongBodies, c \in ShortBodies}
    \cup {<<OneFile(old, <<Hunk(2, b)>>)>> : old \in {"B", DevNull}, b \in LongBodies}
    \cup {<<[old |-> o, new |-> "A", hunks |-> <<>>], OneFile(File, <<Hunk(2, b)>>)>> :
              o \in {File, "A", "B", DevNull}, b \in ShortBodies}
    \cup {<<[old |-> File, new |-> DevNull, hunks |-> <<Hunk(0, b)>>]>> :
              b \in [1..2 -> {Line("-", NoPath), Line("-", "G")}]}

MCInputs ==
    [book : Known, change : {OneLine}, most : {2}]
    \cup [book : {Nothing}, change : {TwoLines}, most : {2}]
    \cup [book : {Nothing}, change : Changes, most : {0}]
===============================================================================
