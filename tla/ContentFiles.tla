---------------------------- MODULE ContentFiles ----------------------------
(***************************************************************************)
(* Serving the files of the storage (controllers/handlers/                  *)
(* content-file-handler): ranges of bytes and whole files.  The bytes of a  *)
(* file are its offsets; the file may be removed or replaced between the    *)
(* two times that it is looked up.                                          *)
(***************************************************************************)
EXTENDS Integers, FiniteSets

File == [size : Nat, known : BOOLEAN, encoded : BOOLEAN, there : BOOLEAN]
NoFile == [size |-> 0, known |-> FALSE, encoded |-> FALSE, there |-> FALSE]
Least(a, b) == IF a < b THEN a ELSE b
Most(a, b) == IF a < b THEN b ELSE a

\* Of a header: its form, and the offsets that it gives, -1 for one that it does not.
Offsets(first, last) == [form |-> "bytes", first |-> first, last |-> last]
Header == [form : {"none", "other", "bytes"}, first : Nat \cup {-1}, last : Nat \cup {-1}]
NoHeader == [form |-> "none", first |-> -1, last |-> -1]

-----------------------------------------------------------------------------
\* Mutant: the last bytes of a file begin one too early.
BoundsEarly(h, size) ==
    IF h.first = -1 THEN [start |-> Most(0, size - h.last - 1), end |-> size - 1]
    ELSE [start |-> h.first, end |-> IF h.last = -1 THEN size - 1 ELSE h.last]

\* From an offset to another or to the end, or the last bytes.
Bounds(h, size) ==
    IF h.first = -1 THEN [start |-> Most(0, size - h.last), end |-> size - 1]
    ELSE [start |-> h.first, end |-> IF h.last = -1 THEN size - 1 ELSE h.last]

parseRangeHeader(h, size) ==
    LET r == Bounds(h, size)
        kind == IF h.form # "bytes" \/ (h.first = -1 /\ h.last = -1) THEN "unsupported"
                ELSE IF (h.first = -1 /\ h.last = 0) \/ r.start >= size \/ r.end < r.start THEN "invalid"
                ELSE "ok"
    IN  [kind |-> kind, start |-> r.start, end |-> Least(r.end, size - 1)]

-----------------------------------------------------------------------------
Status(code) == [status |-> code, body |-> {}, length |-> -1, total |-> -1]

contentItemHeaders(file) == IF file.known THEN file.size ELSE -1

retrieveFullContent(file) ==
    IF file.there THEN [Status(200) EXCEPT !.body = 0 .. file.size - 1, !.length = contentItemHeaders(file)]
    ELSE Status(404)

\* The storage refuses a range that the file does not have any more.
retrievePart(r, info, file) ==
    IF ~file.there THEN Status(404)
    ELSE IF r.end >= file.size THEN [Status(416) EXCEPT !.total = info.size]
    ELSE [status |-> 206, body |-> r.start .. r.end, length |-> r.end - r.start + 1, total |-> info.size]

\* info and file are what the storage has when it is asked about the file, and for it.
getContentFile(key, h, info, file) ==
    LET r == parseRangeHeader(h, info.size)
        whole == h.form = "none" \/ (info.there /\ (info.encoded \/ ~info.known \/ r.kind = "unsupported"))
    IN  IF key = "invalid" THEN Status(400)
        ELSE IF whole THEN retrieveFullContent(file)
        ELSE IF ~info.there THEN Status(404)
        ELSE IF r.kind = "invalid" THEN [Status(416) EXCEPT !.total = info.size]
        ELSE retrievePart(r, info, file)

headContentFile(key, file) ==
    IF key = "invalid" THEN Status(400)
    ELSE IF file.there THEN [Status(200) EXCEPT !.length = contentItemHeaders(file)]
    ELSE Status(404)

-----------------------------------------------------------------------------
\* The offsets that a header asks for, of a file of some size.
AskedFor(h, size) == {b \in 0 .. size - 1 :
    IF h.first = -1 THEN size - b <= h.last ELSE h.first <= b /\ (h.last = -1 \/ b <= h.last)}

(* A part is exactly the bytes that are asked for and that the file has, of *)
(* the length that is announced; a range is refused when there are none, or *)
(* when the file has changed meanwhile; a request without a range, or with  *)
(* one that is not understood, gets the whole file that HEAD describes.     *)
RangesAreExactFor(key, h, info, file) ==
    LET answer == getContentFile(key, h, info, file)
        asked  == AskedFor(h, info.size)
    IN  /\ answer.status = 206 => /\ answer.body = asked /\ asked # {}
                                  /\ answer.length = Cardinality(asked) /\ answer.total = info.size
        /\ answer.status = 416 => asked = {} \/ file # info
        /\ answer.status = 200 => /\ answer.body = 0 .. file.size - 1
                                  /\ answer.length = headContentFile(key, file).length
        /\ h.form # "bytes" => answer.status \in {headContentFile(key, file).status, 404}
=============================================================================
