------------------------------ MODULE JsonlFile -----------------------------
(***************************************************************************)
(* An append-only JSONL file, written by open(path, "a"), write(line),     *)
(* flush, fsync, and read by a parser that forgives one unreadable line    *)
(* when it is the last one.                                                *)
(***************************************************************************)

(* A file: the events a reader sees; the last of them, when its line has   *)
(* no newline; and how the file ends: "ended" with a readable line, "torn" *)
(* with a partial one, "junk" with a complete line nobody can read, or     *)
(* "corrupt": an unreadable line is followed by another.                   *)
EmptyFile == [events |-> {}, unended |-> {}, tail |-> "ended"]

(* An append after a line without a newline joins that line.               *)
Joins(f) == f.tail = "torn" \/ f.unended # {}

(* What an append leaves behind: "ok" and "late" (an error after the write)*)
(* the line, "lost" nothing, "partial" a piece of the line, "whole" the    *)
(* line without its newline.                                               *)
Appended(f, e, how) ==
    IF how = "lost" THEN f ELSE
    [events  |-> (f.events \ f.unended)
                   \union (IF Joins(f) \/ how = "partial" THEN {} ELSE {e}),
     unended |-> IF how = "whole" /\ ~Joins(f) /\ f.tail = "ended"
                   THEN {e} ELSE {},
     tail    |-> CASE f.tail \in {"junk", "corrupt"} -> "corrupt"
                   [] f.tail \notin {"junk", "corrupt"} ->
                        IF how = "partial" \/ (how = "whole" /\ Joins(f))
                          THEN "torn"
                        ELSE IF Joins(f) THEN "junk" ELSE "ended"]

\* Mutant of Parses: the reader skips unreadable lines wherever they are.
ParsesLeniently(f) == TRUE

(* The reader stops at an unreadable line that is not the last.            *)
Parses(f) == f.tail # "corrupt"
=============================================================================
