----------------------------- MODULE ConfigFile -----------------------------
(***************************************************************************)
(* The JSON documents the daemon keeps in its home: agents.json, keys.json *)
(* and action-planes.json (src/src/opengeneral/config.py).  Each holds one *)
(* mapping from names to values.  The three classes share one life: read   *)
(* the whole document, change a copy, rewrite the file in place.           *)
(*                                                                         *)
(* A rewrite is open("w"), which truncates the file at once, followed by a *)
(* buffered dump that reaches the file only when it is closed.  Nothing is *)
(* renamed into place, so the moment between the two is visible to every   *)
(* other reader and to a crash.                                            *)
(***************************************************************************)

CONSTANT None          \* the absence of a value in a mapping

\* A document: a mapping from a fixed set of names to a value or None.
Documents(names, values) == [names -> values \cup {None}]
EmptyDocument(names)     == [n \in names |-> None]

\* A file on disk.  "ok" holds a document (a file that does not exist reads
\* as the empty one), "empty" was truncated and not yet written, and "torn"
\* holds one document followed by the tail of a longer, earlier one.
Files(docs) == [state : {"ok"}, doc : docs] \cup [state : {"empty", "torn"}, doc : {None}]

Holding(doc) == [state |-> "ok", doc |-> doc]
Empty        == [state |-> "empty", doc |-> None]
Torn         == [state |-> "torn", doc |-> None]

\* from_path succeeds: json.load raises on an empty file and on trailing text.
Readable(file) == file.state = "ok"

\* What open("w") leaves behind.
Truncated(file) == Empty

\* What the file may hold once the buffered dump of doc reaches offset 0.
\* After a truncation, it is doc.  If another writer has filled the file since,
\* doc covers its text or leaves the tail of it: the two lengths decide,
\* and lengths are not part of the model.
Written(file, doc) ==
    IF file.state = "empty" \/ file = Holding(doc)
    THEN {Holding(doc)}
    ELSE {Holding(doc), Torn}
=============================================================================
