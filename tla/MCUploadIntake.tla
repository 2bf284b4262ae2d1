------------------------------ MODULE MCUploadIntake ------------------------------
EXTENDS UploadIntake, TLC

File(kind, size) == [NoDocument EXCEPT !.kind = kind, !.size = size]

\* A file of every kind, within its limits and just beyond each of them.
MCDocuments ==
    {[File("text", size) EXCEPT !.sized = sized] : size \in {3}, sized \in BOOLEAN}
    \cup {[File("text", 1) EXCEPT !.chars = 2], [File("text", 1) EXCEPT !.form = "bad"], File("hwp", 1)}
    \cup {[File("pdf", 1) EXCEPT !.pages = 3], [File("pdf", 1) EXCEPT !.form = "odd"]}
    \cup {[File("pdf", 1) EXCEPT !.form = "scanned", !.pages = pages] : pages \in 1..2}
    \cup {[File("docx", 1) EXCEPT !.entries = <<3>>]}
    \cup {[File("hwpx", 2) EXCEPT !.entries = entries] : entries \in {<<2, 1>>, <<2, 2>>, <<1, 1, 1>>}}
    \cup {[File(kind, 1) EXCEPT !.duration = duration] : kind \in {"wav", "mp3"}, duration \in 1..2}
    \cup {[File("mp3", 3) EXCEPT !.sized = FALSE]}

MCSymmetry == Permutations(Requests)
===================================================================================
