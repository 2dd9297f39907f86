------------------------------ MODULE MCFootnotes ------------------------------
\* The names of the run of Footnotes: "a", "A" and "b", and one that an inline footnote takes too
EXTENDS Footnotes

User(base, n, caps) == [base |-> base, n |-> n, caps |-> caps]

AllNames == {User("a", 0, FALSE), User("a", 0, TRUE), User("b", 0, FALSE), User("__inline_", 1, FALSE)}
================================================================================
